----------------------------- MODULE RuntimeProofs -----------------------------
(***************************************************************************)
(* Proofs about Runtime, for every log, capacity, batch size, retry limit  *)
(* and number of signals, faults and crashes: no acknowledged row is lost, *)
(* every failure is reported, and the signal topic never runs ahead of the *)
(* checkpoint.  The last two need nothing of the log.                      *)
(***************************************************************************)
EXTENDS Runtime, SequenceTheorems, TLAPS

-----------------------------------------------------------------------------
\* What LogAssumption says of the entries, one by one.
LEMMA LogType ==
    /\ Len(Log) \in Nat
    /\ DOMAIN Log = 1 .. Len(Log)
    /\ \A i \in DOMAIN Log : /\ Log[i] \in Entry
                            /\ Log[i].pos \in Nat /\ Log[i].pos > 0
                            /\ Log[i].outs \in Nat
<1>1. Len(Log) \in Nat /\ DOMAIN Log = 1 .. Len(Log)
  BY LogAssumption, LenProperties
<1>2. \A i \in DOMAIN Log : Log[i] \in Entry
  BY <1>1, LogAssumption, ElementOfSeq
<1> QED
  BY <1>1, <1>2 DEF Entry

\* The messages of an entry of the log are messages of the log.
LEMMA EncodeType ==
    ASSUME NEW i \in DOMAIN Log
    PROVE  /\ Encode(i) \in Seq(AllOutputs)
           /\ Len(Encode(i)) = Log[i].outs
           /\ \A k \in 1 .. Log[i].outs : Encode(i)[k] = <<i, k>>
<1>1. Log[i].outs \in Nat
  BY LogType
<1>2. \A k \in 1 .. Log[i].outs : <<i, k>> \in AllOutputs
  BY DEF AllOutputs, Outputs
<1>3. Encode(i) \in [1 .. Log[i].outs -> AllOutputs]
  BY <1>2 DEF Encode
<1>4. Encode(i) \in Seq(AllOutputs)
  BY <1>1, <1>3, SeqDef
<1>5. Len(Encode(i)) = Log[i].outs
  BY <1>1, <1>3, <1>4, LenProperties
<1> QED
  BY <1>4, <1>5 DEF Encode

LEMMA TypeInit == Init => TypeOK
<1> SUFFICES ASSUME Init PROVE TypeOK
  OBVIOUS
<1>1. 1 \in 1 .. Len(Log) + 1
  BY LogType
<1>2. /\ encoded \in Seq(AllOutputs) /\ holding \in Seq(Item) /\ queue \in Seq(Item)
      /\ Len(holding) = 0 /\ Len(queue) = 0
  BY EmptySeq DEF Init
<1>3. CoordType /\ ChannelType /\ EnvType
  BY DEF Init, CoordType, ChannelType, EnvType, Outcome
<1>4. BatchType /\ DurableType
  BY <1>2 DEF Init, BatchType, DurableType, Checkpoints
<1>5. SourceType
  BY <1>1, <1>2, RuntimeAssumption DEF Init, SourceType, Outcome
<1> QED
  BY <1>3, <1>4, <1>5 DEF TypeOK

\* A new process: Crash and Restart.
LEMMA TypeVolatile ==
    ASSUME TypeOK, Volatile, faults' = faults, crashes' \in Nat
    PROVE  TypeOK'
<1>1. 1 \in 1 .. Len(Log) + 1
  BY LogType
<1>2. /\ encoded' \in Seq(AllOutputs) /\ holding' \in Seq(Item) /\ queue' \in Seq(Item)
      /\ Len(holding') = 0 /\ Len(queue') = 0
  BY EmptySeq DEF Volatile
<1>3. CoordType' /\ ChannelType' /\ EnvType'
  BY DEF TypeOK, Volatile, CoordType, ChannelType, EnvType, Outcome
<1>4. BatchType' /\ DurableType'
  BY <1>2 DEF TypeOK, Volatile, durable, BatchType, DurableType
<1>5. SourceType'
  BY <1>1, <1>2, RuntimeAssumption DEF Volatile, SourceType, Outcome
<1> QED
  BY <1>3, <1>4, <1>5 DEF TypeOK

\* A group of variables that does not change keeps its type.
LEMMA Same ==
    /\ BatchType /\ UNCHANGED batch => BatchType'
    /\ SourceType /\ UNCHANGED source => SourceType'
    /\ ChannelType /\ UNCHANGED chans => ChannelType'
    /\ DurableType /\ UNCHANGED durable => DurableType'
    /\ EnvType /\ UNCHANGED env => EnvType'
    /\ CoordType /\ UNCHANGED coord => CoordType'
<1>1. BatchType /\ UNCHANGED batch => BatchType'
  BY DEF BatchType, batch
<1>2. SourceType /\ UNCHANGED source => SourceType'
  BY DEF SourceType, source
<1>3. ChannelType /\ UNCHANGED chans => ChannelType'
  BY DEF ChannelType, chans
<1>4. DurableType /\ UNCHANGED durable => DurableType'
  BY DEF DurableType, durable
<1>5. EnvType /\ UNCHANGED env => EnvType'
  BY DEF EnvType, env
<1>6. CoordType /\ UNCHANGED coord => CoordType'
  BY DEF CoordType, coord
<1> QED
  BY <1>1, <1>2, <1>3, <1>4, <1>5, <1>6

LEMMA TypeStartUp == TypeOK /\ StartUp => TypeOK'
<1> SUFFICES ASSUME TypeOK, StartUp PROVE TypeOK'
  OBVIOUS
<1> USE DEF TypeOK
<1>1. CASE ValidateSource
  <2>1. UNCHANGED <<batch, source, chans, durable>>
    BY <1>1 DEF ValidateSource, ReturnEarly
  <2>2. CoordType' /\ EnvType'
    BY <1>1 DEF ValidateSource, ReturnEarly, CoordType, EnvType, Operational, Fault, Outcome, env
  <2> QED
    BY <2>1, <2>2, Same
<1>2. CASE ValidateSink
  <2>1. UNCHANGED <<batch, source, chans, durable>>
    BY <1>2 DEF ValidateSink, ReturnEarly, ScheduleRetry
  <2>2. CoordType' /\ EnvType'
    BY <1>2 DEF ValidateSink, Goto, ReturnEarly, ScheduleRetry, CoordType, EnvType, Operational,
                Fault, Outcome, env
  <2> QED
    BY <2>1, <2>2, Same
<1>3. CASE CancelValidate
  <2>1. UNCHANGED <<batch, source, chans, durable, env>>
    BY <1>3 DEF CancelValidate
  <2>2. CoordType'
    BY <1>3 DEF CancelValidate, CoordType
  <2> QED
    BY <2>1, <2>2, Same
<1>4. ASSUME LoadAndSpawn, pc' = "select" PROVE TypeOK'
  <2>1. CoordType' /\ UNCHANGED env
    BY <1>4 DEF LoadAndSpawn, CoordType, ReturnEarly
  <2>2. BatchType'
    BY <1>4 DEF LoadAndSpawn, BatchType, DurableType, Checkpoints, ReturnEarly
  <2>3. SourceType'
    BY <1>4, LogType DEF LoadAndSpawn, SourceType, DurableType, Checkpoints, ReturnEarly, Outcome
  <2>4. ChannelType' /\ DurableType'
    BY <1>4 DEF LoadAndSpawn, ChannelType, DurableType, Checkpoints, ReturnEarly
  <2> QED
    BY <2>1, <2>2, <2>3, <2>4, Same
<1>5. ASSUME LoadAndSpawn, pc' # "select" PROVE TypeOK'
  <2>1. UNCHANGED <<batch, source, chans, durable>>
    BY <1>5 DEF LoadAndSpawn, ReturnEarly
  <2>2. CoordType' /\ EnvType'
    BY <1>5 DEF LoadAndSpawn, ReturnEarly, CoordType, EnvType, Operational, Fault, Outcome
  <2> QED
    BY <2>1, <2>2, Same
<1> QED
  BY <1>1, <1>2, <1>3, <1>4, <1>5 DEF StartUp

LEMMA TypeSourceTask == TypeOK /\ SourceTask => TypeOK'
<1> SUFFICES ASSUME TypeOK, SourceTask PROVE TypeOK'
  OBVIOUS
<1> USE DEF TypeOK
<1>1. CASE Produce
  <2>1. UNCHANGED <<coord, batch, chans, durable, env>>
    BY <1>1 DEF Produce, srcRest, chans
  <2>2. srcNext \in DOMAIN Log /\ srcNext' \in 1 .. Len(Log) + 1 /\ srcLast' \in Nat
    BY <1>1, LogType DEF Produce, SourceType
  <2> DEFINE r == [i |-> srcNext, pos |-> Log[srcNext].pos, sig |-> 0, state |-> {}]
  <2>3. r \in Item
    BY <2>2, LogType DEF Item
  <2>4. holding' = <<r>> /\ holding' \in Seq(Item) /\ Len(holding') = 1
    BY <1>1, <2>3 DEF Produce
  <2>5. SourceType'
    BY <1>1, <2>2, <2>4 DEF Produce, SourceType
  <2> QED
    BY <2>1, <2>5, Same
<1>2. CASE Enqueue
  <2>1. UNCHANGED <<coord, batch, chans, durable, env>>
    BY <1>2 DEF Enqueue, srcRest, chans
  <2>2. holding[1] \in Item
    BY <1>2, EmptySeq, ElementOfSeq DEF Enqueue, SourceType
  <2>3. queue' \in Seq(Item) /\ Len(queue') = Len(queue) + 1
    BY <1>2, <2>2 DEF Enqueue, SourceType
  <2>4. holding' \in Seq(Item) /\ Len(holding') = 0
    BY <1>2, EmptySeq DEF Enqueue
  <2>5. SourceType'
    BY <1>2, <2>3, <2>4, RuntimeAssumption, LenProperties DEF Enqueue, SourceType
  <2> QED
    BY <2>1, <2>5, Same
<1>3. CASE TakeSignal
  <2>1. UNCHANGED <<coord, batch, durable, env>>
    BY <1>3 DEF TakeSignal, srcRest
  <2>2. ChannelType'
    BY <1>3 DEF TakeSignal, srcRest, ChannelType, AfterSignal
  <2>3. CASE UNCHANGED <<srcSignals, holding>>
    BY <1>3, <2>1, <2>2, <2>3, Same DEF TakeSignal, SourceType
  <2>4. CASE ~UNCHANGED <<srcSignals, holding>>
    <3> DEFINE r == [i |-> 0, pos |-> srcLast, sig |-> sigOffset + 1, state |-> srcSignals']
    <3>a. srcSignals' = srcSignals \cup {sigOffset + 1} /\ sigOffset + 1 \in Nat
      BY <1>3, <2>4 DEF TakeSignal, DurableType
    <3>b. srcSignals' \in SUBSET Nat
      BY <3>a DEF SourceType
    <3>1. srcSignals' \in SUBSET Nat /\ r \in Item
      BY <3>a, <3>b DEF Item, SourceType
    <3>2. holding' = <<r>> /\ holding' \in Seq(Item) /\ Len(holding') = 1
      BY <1>3, <2>4, <3>1 DEF TakeSignal
    <3>3. SourceType'
      BY <1>3, <3>1, <3>2 DEF TakeSignal, SourceType
    <3> QED
      BY <2>1, <2>2, <3>3, Same
  <2> QED
    BY <2>3, <2>4
<1>4. CASE ConfirmToSource
  <2>1. UNCHANGED <<coord, batch, source, chans, env>>
    BY <1>4 DEF ConfirmToSource
  <2>2. DurableType'
    BY <1>4 DEF ConfirmToSource, DurableType, ChannelType
  <2> QED
    BY <2>1, <2>2, Same
<1>5. CASE SourceReturns
  <2>1. UNCHANGED <<coord, batch, chans, durable>>
    BY <1>5 DEF SourceReturns
  <2>2. SourceType' /\ EnvType'
    BY <1>5 DEF SourceReturns, SourceType, EnvType, Fault, Operational, Outcome
  <2> QED
    BY <2>1, <2>2, Same
<1> QED
  BY <1>1, <1>2, <1>3, <1>4, <1>5 DEF SourceTask

LEMMA TypeRetry == TypeOK /\ Retry => TypeOK'
<1> SUFFICES ASSUME TypeOK, Retry PROVE TypeOK'
  OBVIOUS
<1>1. UNCHANGED <<batch, source, chans, durable, env>>
  BY DEF Retry, Backoff
<1>2. CoordType'
  BY DEF Retry, Backoff, TypeOK, CoordType
<1> QED
  BY <1>1, <1>2, Same DEF TypeOK

LEMMA TypeSignalChannel == TypeOK /\ SignalChannel => TypeOK'
<1> SUFFICES ASSUME TypeOK, SignalChannel PROVE TypeOK'
  OBVIOUS
<1> USE DEF TypeOK
<1>1. UNCHANGED <<coord, batch, source>>
  BY DEF SignalChannel, SendSignal, CommitSignal, SignalChannelEnds
<1>2. ChannelType'
  BY DEF SignalChannel, SendSignal, CommitSignal, SignalChannelEnds, ChannelType
<1>3. DurableType'
  BY DEF SignalChannel, SendSignal, CommitSignal, SignalChannelEnds, durable, DurableType
<1>4. EnvType'
  <2>1. CASE SendSignal \/ CommitSignal
    BY <2>1, Same DEF SendSignal, CommitSignal
  <2>2. CASE SignalChannelEnds
    <3>1. faults' \in Nat
      BY <2>2 DEF SignalChannelEnds, Fault, EnvType
    <3>2. cancelled' = TRUE /\ UNCHANGED <<firstErr, crashes>>
      BY <2>2 DEF SignalChannelEnds
    <3> QED
      BY <3>1, <3>2 DEF EnvType
  <2> QED
    BY <2>1, <2>2 DEF SignalChannel
<1> QED
  BY <1>1, <1>2, <1>3, <1>4, Same

\* What a coordinator step that fails does to the types.
LEMMA TypeFails ==
    ASSUME TypeOK, NEW e \in Outcome, PipelineFails(e), UNCHANGED <<queue, chans>>,
           DurableType', faults' \in Nat, firstErr' \in Outcome
    PROVE  TypeOK'
<1>1. CoordType' /\ EnvType'
  BY DEF TypeOK, PipelineFails, CoordType, EnvType
<1>2. UNCHANGED <<batch, source>>
  BY DEF PipelineFails, sourceTask, source
<1> QED
  BY <1>1, <1>2, Same DEF TypeOK

\* Head and tail of the channel.
LEMMA TypeQueue ==
    ASSUME SourceType, queue # <<>>
    PROVE  /\ Head(queue) \in Item /\ Tail(queue) \in Seq(Item)
           /\ Len(Tail(queue)) <= ChannelCapacity /\ Len(Tail(queue)) = Len(queue) - 1
           /\ Head(queue) = queue[1]
           /\ \A n \in 1 .. Len(queue) - 1 : Tail(queue)[n] = queue[n + 1]
<1>1. queue \in Seq(Item) /\ Len(queue) \in Nat /\ Len(queue) <= ChannelCapacity
  BY LenProperties DEF SourceType
<1>2. /\ Head(queue) \in Item /\ Tail(queue) \in Seq(Item) /\ Len(Tail(queue)) = Len(queue) - 1
      /\ \A n \in 1 .. Len(Tail(queue)) : Tail(queue)[n] = queue[n + 1]
  BY <1>1, HeadTailProperties
<1>3. Head(queue) = queue[1]
  BY <1>1
<1> QED
  BY <1>1, <1>2, <1>3, RuntimeAssumption

LEMMA TypeReceive == TypeOK /\ Receive => TypeOK'
<1> SUFFICES ASSUME TypeOK, Receive PROVE TypeOK'
  OBVIOUS
<1> USE DEF TypeOK
<1> DEFINE r == Head(queue)
<1>1. /\ r \in Item /\ queue' = Tail(queue) /\ UNCHANGED sourceTask /\ SourceType'
  BY TypeQueue DEF Receive, SourceType, sourceTask
<1>2. CASE Consume(r)
  <2>1. UNCHANGED <<chans, durable, env>>
    BY <1>2 DEF Consume
  <2>2. encoded' \in Seq(AllOutputs)
    BY <1>1, <1>2, EncodeType, ConcatProperties DEF Consume, BatchType, Item
  <2>3. highest' \in Nat /\ sigacks' \in SUBSET Nat /\ connState' \in SUBSET Nat
    BY <1>1, <1>2 DEF Consume, BatchType, Item
  <2>4. snapDone' \in BOOLEAN
    BY <1>2 DEF Consume
  <2>5. CoordType'
    BY <1>2 DEF Consume, CoordType, FlushFrom
  <2> QED
    BY <1>1, <2>1, <2>2, <2>3, <2>4, <2>5, Same DEF BatchType
<1>3. CASE \E e \in {"backwards", "encode"} : PipelineFails(e) /\ firstErr' = Operational(e)
  <2>1. CoordType' /\ UNCHANGED batch /\ cancelled' = TRUE /\ UNCHANGED crashes
    BY <1>3 DEF PipelineFails, CoordType, Outcome
  <2>2. firstErr' \in Outcome
    BY <1>3 DEF Operational, EnvType, Outcome
  <2>3. CASE Consume(r)
    BY <1>2, <2>3
  <2>4. CASE ~Consume(r)
    <3>1. UNCHANGED <<chans, durable>> /\ faults' \in Nat
      BY <2>4 DEF Receive, Fault, EnvType
    <3> QED
      BY <1>1, <2>1, <2>2, <3>1, Same DEF EnvType
  <2> QED
    BY <2>3, <2>4
<1> QED
  BY <1>2, <1>3 DEF Receive

LEMMA TypePipeline == TypeOK /\ Pipeline => TypeOK'
<1> SUFFICES ASSUME TypeOK, Pipeline PROVE TypeOK'
  OBVIOUS
<1> USE DEF TypeOK
<1>1. CASE Tick \/ LeaveLoop
  <2>1. UNCHANGED <<batch, source, chans, durable, env>>
    BY <1>1 DEF Tick, LeaveLoop
  <2>2. pc' \in {"select", "flush", "save", "write"}
    BY <1>1 DEF Tick, LeaveLoop, Goto, FlushFrom
  <2>3. draining' \in BOOLEAN
    BY <1>1 DEF Tick, LeaveLoop, Goto, CoordType
  <2>4. attempts' \in {0, attempts}
    BY <1>1 DEF Tick, LeaveLoop, Goto
  <2>5. UNCHANGED <<err, status, reason>>
    BY <1>1 DEF Tick, LeaveLoop, Goto
  <2>6. CoordType'
    BY <2>2, <2>3, <2>4, <2>5 DEF CoordType
  <2> QED
    BY <2>1, <2>6, Same
<1>2. CASE Receive
  BY <1>2, TypeReceive
<1>3. CASE Write
  <2>1. \A k \in 0 .. Len(encoded) : FirstOf(k) \subseteq AllOutputs
    BY ElementOfSeq, LenProperties DEF FirstOf, BatchType
  <2>2. Len(encoded) \in 0 .. Len(encoded)
    BY LenProperties DEF BatchType
  <2>3. DurableType'
    BY <1>3, <2>1, <2>2 DEF Write, DurableType
  <2>4. CASE pc' = "save" /\ UNCHANGED <<batch, source, chans, env>>
    BY <1>3, <2>3, <2>4, Same DEF Write, Goto, CoordType, ScheduleRetry, PipelineFails
  <2>5. CASE Fault /\ ScheduleRetry("writeWait")
    <3>1. UNCHANGED <<batch, source, chans>> /\ EnvType'
      BY <2>5 DEF ScheduleRetry, Fault, EnvType
    <3>2. CoordType'
      BY <2>5 DEF ScheduleRetry, CoordType
    <3> QED
      BY <2>3, <3>1, <3>2, Same
  <2>6. CASE /\ Fault /\ PipelineFails("sink") /\ firstErr' = Operational("sink")
             /\ UNCHANGED <<queue, chans>>
    BY <2>3, <2>6, TypeFails DEF Fault, Operational, Outcome, EnvType
  <2> QED
    BY <1>3, <2>4, <2>5, <2>6 DEF Write, Goto
<1>4. CASE Save
  <2>1. NewCheckpoint \in Checkpoints
    BY DEF NewCheckpoint, Checkpoints, BatchType
  <2>2. DurableType'
    BY <1>4, <2>1 DEF Save, DurableType
  <2>3. CASE pc' = "ack" /\ UNCHANGED <<batch, source, chans, env>>
    BY <1>4, <2>2, <2>3, Same DEF Save, Goto, CoordType, PipelineFails
  <2>4. CASE /\ Fault /\ PipelineFails("state") /\ firstErr' = Operational("state")
             /\ UNCHANGED <<queue, chans>>
    BY <2>2, <2>4, TypeFails DEF Fault, Operational, Outcome, EnvType
  <2> QED
    BY <1>4, <2>3, <2>4 DEF Save, Goto
<1>5. CASE Acknowledge
  <2>1. CASE PipelineFails("ackClosed") /\ UNCHANGED <<queue, chans, durable, firstErr, faults>>
    BY <2>1, TypeFails, Same DEF Outcome, EnvType
  <2>2. CASE ~(PipelineFails("ackClosed") /\ UNCHANGED <<queue, chans, durable, firstErr, faults>>)
    <3>1. UNCHANGED <<source, durable, env>> /\ CoordType'
      BY <1>5, <2>2 DEF Acknowledge, Goto, CoordType
    <3>2. encoded' = <<>> /\ encoded' \in Seq(AllOutputs) /\ highest' = 0 /\ sigacks' = {}
      BY <1>5, <2>2, EmptySeq DEF Acknowledge
    <3>3. UNCHANGED <<snapDone, connState>> /\ ackPos' = highest
      BY <1>5, <2>2 DEF Acknowledge
    <3>4. sigState' \in {"acked", sigState}
      BY <1>5, <2>2 DEF Acknowledge
    <3>5. BatchType'
      BY <3>2, <3>3 DEF BatchType
    <3>6. ChannelType'
      BY <3>3, <3>4 DEF BatchType, ChannelType
    <3> QED
      BY <3>1, <3>5, <3>6, Same
  <2> QED
    BY <2>1, <2>2
<1> QED
  BY <1>1, <1>2, <1>3, <1>4, <1>5 DEF Pipeline

LEMMA TypeShutdown == TypeOK /\ Shutdown => TypeOK'
<1> SUFFICES ASSUME TypeOK, Shutdown PROVE TypeOK'
  OBVIOUS
<1> USE DEF TypeOK
<1>1. UNCHANGED <<batch, chans, durable>>
  BY DEF Shutdown, FlushSink, CancelBackoff, Join, JoinTimeout, Close, ScheduleRetry, PipelineFails
<1>2. CASE FlushSink
  <2>1. UNCHANGED source
    BY <1>2 DEF FlushSink, ScheduleRetry, PipelineFails, sourceTask, source
  <2>2. CoordType'
    BY <1>2 DEF FlushSink, ScheduleRetry, PipelineFails, CoordType, Outcome
  <2>3. faults' \in Nat /\ UNCHANGED crashes
    BY <1>2 DEF FlushSink, ScheduleRetry, PipelineFails, EnvType, Fault
  <2>4. cancelled' \in BOOLEAN
    BY <1>2 DEF FlushSink, ScheduleRetry, PipelineFails, EnvType
  <2>5. firstErr' \in Outcome
    BY <1>2 DEF FlushSink, ScheduleRetry, EnvType, Operational, Outcome
  <2> QED
    BY <1>1, <2>1, <2>2, <2>3, <2>4, <2>5, Same DEF EnvType
<1>3. CASE CancelBackoff \/ Join
  <2>1. UNCHANGED <<source, env>> /\ CoordType'
    BY <1>3 DEF CancelBackoff, Join, CoordType
  <2> QED
    BY <1>1, <2>1, Same
<1>4. CASE JoinTimeout
  <2>1. SourceType' /\ CoordType'
    BY <1>4 DEF JoinTimeout, SourceType, CoordType, Outcome
  <2>2. EnvType'
    BY <1>4 DEF JoinTimeout, EnvType, Fault, Operational, Outcome
  <2> QED
    BY <1>1, <2>1, <2>2, Same
<1>5. CASE Close
  <2>1. UNCHANGED source
    BY <1>5 DEF Close
  <2>2. CoordType'
    BY <1>5 DEF Close, FirstError, CoordType, SourceType, Outcome
  <2>3. EnvType'
    BY <1>5 DEF Close, EnvType, Fault, Operational, Outcome
  <2> QED
    BY <1>1, <2>1, <2>2, <2>3, Same
<1> QED
  BY <1>2, <1>3, <1>4, <1>5 DEF Shutdown

\* Type correctness, with the bound of the channel, for every capacity and every
\* log (the whole of runtime.rs).
THEOREM TypeCorrect == Spec => []TypeOK
<1>1. Init => TypeOK
  BY TypeInit
<1>2. TypeOK /\ [Next]_vars => TypeOK'
  <2> SUFFICES ASSUME TypeOK, [Next]_vars PROVE TypeOK'
    OBVIOUS
  <2>1. CASE StartUp
    BY <2>1, TypeStartUp
  <2>2. CASE SourceTask
    BY <2>2, TypeSourceTask
  <2>3. CASE Retry
    BY <2>3, TypeRetry
  <2>4. CASE Pipeline
    BY <2>4, TypePipeline
  <2>5. CASE Shutdown
    BY <2>5, TypeShutdown
  <2>6. CASE SignalChannel
    BY <2>6, TypeSignalChannel
  <2>7. CASE Cancel
    <3>1. UNCHANGED <<coord, batch, source, chans, durable>> /\ EnvType'
      BY <2>7 DEF TypeOK, Cancel, EnvType, Fault
    <3> QED
      BY <3>1, Same DEF TypeOK
  <2>8. CASE Crash
    BY <2>8, TypeVolatile DEF Crash, TypeOK, EnvType
  <2>9. CASE Restart
    BY <2>9, TypeVolatile DEF Restart, TypeOK, EnvType
  <2>10. CASE Idle \/ UNCHANGED vars
    BY <2>10, Same DEF Idle, vars, TypeOK
  <2> QED
    BY <2>1, <2>2, <2>3, <2>4, <2>5, <2>6, <2>7, <2>8, <2>9, <2>10 DEF Next
<1> QED
  BY <1>1, <1>2, PTL DEF Spec

-----------------------------------------------------------------------------
(* No acknowledged data loss.  RowsAccounted is inductive: SentRows says where *)
(* a row is, TransitOrder and Ahead say that a row which is not yet in the     *)
(* batch is later than the position the batch will save, and Written says that *)
(* the batch is at the sink when it does.                                      *)

\* The records in transit, and what the steps of both tasks do to them.
LEMMA TransitType ==
    ASSUME SourceType
    PROVE  Transit \in Seq(Item) /\ Len(Transit) \in Nat
BY ConcatProperties, LenProperties DEF SourceType, Transit

LEMMA TransitSent ==
    ASSUME SourceType, NEW r \in Item, holding = <<>>, holding' = <<r>>, queue' = queue
    PROVE  Transit' = Append(Transit, r)
BY AppendProperties, ConcatProperties, ConcatEmptySeq DEF SourceType, Transit

LEMMA TransitQueued ==
    ASSUME SourceType, holding # <<>>, holding' = <<>>, queue' = Append(queue, holding[1])
    PROVE  Transit' = Transit
BY AppendProperties, ConcatProperties, ConcatEmptySeq, EmptySeq DEF SourceType, Transit

LEMMA TransitReceived ==
    ASSUME SourceType, queue # <<>>, queue' = Tail(queue), holding' = holding
    PROVE  /\ Transit' = Tail(Transit) /\ Head(Transit) = Head(queue) /\ Transit # <<>>
           /\ Len(Transit') = Len(Transit) - 1 /\ Head(queue) = Transit[1]
           /\ \A n \in 1 .. Len(Transit) - 1 : Transit'[n] = Transit[n + 1]
BY TypeQueue, ConcatProperties, HeadTailProperties, EmptySeq DEF SourceType, Transit

rows == <<encoded, highest, srcNext, srcLast, holding, queue, delivered, ckpt>>

\* A step that moves no record and saves nothing.
LEMMA Quiet ==
    ASSUME RowsAccounted, UNCHANGED rows,
           pc' \in Early => pc \in Early /\ srcState' = "off",
           pc' \in Active => pc \in Active,
           pc' \in {"save", "ack"} => FirstOf(Len(encoded)) \subseteq delivered
    PROVE  RowsAccounted'
<1>1. NoAcknowledgedDataLoss'
  BY DEF RowsAccounted, NoAcknowledgedDataLoss, rows, Covers
<1>2. EarlyEmpty'
  BY DEF RowsAccounted, EarlyEmpty, rows, Transit
<1>3. ASSUME pc' \in Active PROVE SentRows' /\ TransitOrder' /\ Ahead' /\ Written'
  <2>1. SentRows /\ TransitOrder /\ Ahead
    BY <1>3 DEF RowsAccounted
  <2>2. SentRows'
    BY <2>1 DEF SentRows, rows, Transit, FirstOf
  <2>3. TransitOrder'
    BY <2>1 DEF TransitOrder, rows, Transit, IsRow
  <2>4. Ahead' /\ Written'
    BY <2>1 DEF Ahead, Written, rows, FirstOf
  <2> QED
    BY <2>2, <2>3, <2>4
<1> QED
  BY <1>1, <1>2, <1>3 DEF RowsAccounted

\* A step that ends the process's chance to save.
LEMMA Ends ==
    ASSUME RowsAccounted, NoAcknowledgedDataLoss', pc' \notin Active \cup Early
    PROVE  RowsAccounted'
BY DEF RowsAccounted, EarlyEmpty

LEMMA RowsInit == Init => RowsAccounted
<1> SUFFICES ASSUME Init PROVE RowsAccounted
  OBVIOUS
<1>1. NoAcknowledgedDataLoss
  BY LogType DEF Init, NoAcknowledgedDataLoss, Covers, RowsUpTo, RowIndex
<1>2. EarlyEmpty
  BY ConcatEmptySeq, EmptySeq DEF Init, EarlyEmpty, Transit
<1> QED
  BY <1>1, <1>2 DEF Init, RowsAccounted, Active

LEMMA RowsVolatile == RowsAccounted /\ Volatile => RowsAccounted'
<1> SUFFICES ASSUME RowsAccounted, Volatile PROVE RowsAccounted'
  OBVIOUS
<1>1. NoAcknowledgedDataLoss'
  BY DEF Volatile, durable, RowsAccounted, NoAcknowledgedDataLoss, Covers
<1>2. EarlyEmpty'
  BY ConcatEmptySeq, EmptySeq DEF Volatile, EarlyEmpty, Transit
<1> QED
  BY <1>1, <1>2 DEF Volatile, RowsAccounted, Active

\* The source resumes after the checkpoint: everything it skips is at the sink.
LEMMA RowsStartUp == LogOrdered /\ TypeOK /\ RowsAccounted /\ StartUp => RowsAccounted'
<1> SUFFICES ASSUME LogOrdered, TypeOK, RowsAccounted, StartUp PROVE RowsAccounted'
  OBVIOUS
<1>1. CASE ValidateSource \/ ValidateSink \/ CancelValidate
  <2>1. UNCHANGED <<batch, source, durable>> /\ pc \in Early /\ pc' \in Early \cup {"done"}
    BY <1>1 DEF ValidateSource, ValidateSink, CancelValidate, ReturnEarly, ScheduleRetry, Goto, Early
  <2>2. UNCHANGED rows /\ srcState' = "off"
    BY <2>1 DEF rows, batch, source, durable, RowsAccounted, EarlyEmpty
  <2> QED
    BY <2>1, <2>2, Quiet DEF Early, Active
<1>2. ASSUME LoadAndSpawn, pc' # "select" PROVE RowsAccounted'
  <2>1. UNCHANGED <<batch, source, durable>> /\ pc' = "done"
    BY <1>2 DEF LoadAndSpawn, ReturnEarly
  <2>2. UNCHANGED rows
    BY <2>1 DEF rows, batch, source, durable
  <2> QED
    BY <2>1, <2>2, Quiet DEF Early, Active
<1>3. ASSUME LoadAndSpawn, pc' = "select" PROVE RowsAccounted'
  <2>1. UNCHANGED <<encoded, highest, holding, queue, delivered, ckpt>> /\ pc = "load"
    BY <1>3 DEF LoadAndSpawn, ReturnEarly
  <2>2. Transit' = <<>> /\ highest' = 0 /\ ckpt.pos \in Nat
    BY <2>1 DEF RowsAccounted, EarlyEmpty, Early, Transit, TypeOK, DurableType, Checkpoints
  <2>3. NoAcknowledgedDataLoss'
    BY <2>1 DEF RowsAccounted, NoAcknowledgedDataLoss, Covers
  <2>4. Len(Transit') = 0
    BY <2>2, EmptySeq
  <2>5. TransitOrder'
    BY <2>4 DEF TransitOrder
  <2>6. Written' /\ EarlyEmpty'
    BY <1>3 DEF Written, EarlyEmpty, Early
  <2>7. SentRows' /\ Ahead'
    <3>1. CASE srcNext' = 1 /\ srcLast' = 0
      BY <3>1, <2>2, LogType DEF SentRows, Ahead, RowIndex
    <3>2. CASE ResumeIndex(srcNext', ckpt.pos) /\ srcLast' = ckpt.pos
      <4>1. \A j \in RowIndex : j < srcNext' => Outputs(j) \subseteq delivered'
        BY <2>1, <3>2, LogType DEF ResumeIndex, RowIndex, RowsAccounted, NoAcknowledgedDataLoss,
                                   Covers, RowsUpTo
      <4>2. \A j \in DOMAIN Log : j >= srcNext' => Log[j].pos > ckpt.pos
        <5> SUFFICES ASSUME NEW j \in DOMAIN Log, j >= srcNext' PROVE Log[j].pos > ckpt.pos
          OBVIOUS
        <5>1. srcNext' \in DOMAIN Log /\ Log[srcNext'].pos > ckpt.pos
          BY <3>2, LogType DEF ResumeIndex
        <5>2. CASE j = srcNext'
          BY <5>1, <5>2
        <5>3. CASE j > srcNext'
          <6>1. Log[srcNext'].pos <= Log[j].pos
            BY <5>1, <5>3, LogType DEF LogOrdered
          <6> QED
            BY <5>1, <6>1, <2>2, LogType
        <5> QED
          BY <5>1, <5>2, <5>3, LogType
      <4> QED
        BY <2>2, <3>2, <4>1, <4>2, LogType DEF SentRows, Ahead
    <3> QED
      BY <1>3, <3>1, <3>2 DEF LoadAndSpawn, ReturnEarly
  <2> QED
    BY <2>3, <2>5, <2>6, <2>7 DEF RowsAccounted
<1> QED
  BY <1>1, <1>2, <1>3 DEF StartUp

\* A new record joins the records in transit.
LEMMA RowsSent ==
    ASSUME TypeOK, TypeOK', RowsAccounted, pc \in Active, pc' = pc, NEW r \in Item,
           UNCHANGED <<encoded, highest, delivered, ckpt>>,
           Transit' = Append(Transit, r),
           r.pos = srcLast', srcLast' >= srcLast,
           r.i # 0 => r.pos = Log[r.i].pos,
           IsRow(r) => srcLast' > srcLast,
           srcNext' >= srcNext,
           \A j \in RowIndex : j < srcNext' /\ j >= srcNext => r.i = j,
           Ahead'
    PROVE  RowsAccounted'
<1>1. SentRows /\ TransitOrder /\ Ahead /\ Written
  BY DEF RowsAccounted
<1>2. /\ Transit \in Seq(Item) /\ Len(Transit) \in Nat /\ Len(Transit') = Len(Transit) + 1
      /\ \A n \in 1 .. Len(Transit) : Transit'[n] = Transit[n]
      /\ Transit'[Len(Transit) + 1] = r
  BY TransitType, AppendProperties DEF TypeOK
<1>3. /\ srcLast \in Nat /\ srcLast' \in Nat /\ highest \in Nat /\ srcNext \in Nat /\ srcNext' \in Nat
      /\ \A n \in 1 .. Len(Transit) : Transit[n].pos \in Nat
  <2>1. \A n \in 1 .. Len(Transit) : Transit[n] \in Item
    BY <1>2, ElementOfSeq
  <2> QED
    BY <2>1, LogType DEF TypeOK, SourceType, BatchType, Item
<1>4. NoAcknowledgedDataLoss' /\ EarlyEmpty' /\ Written'
  BY <1>1 DEF RowsAccounted, NoAcknowledgedDataLoss, Covers, EarlyEmpty, Written, FirstOf, Early, Active
<1>5. SentRows'
  <2> SUFFICES ASSUME NEW j \in RowIndex, j < srcNext',
                      ~(Outputs(j) \subseteq delivered \cup FirstOf(Len(encoded)))
               PROVE  \E n \in 1 .. Len(Transit') : Transit'[n].i = j
    BY DEF SentRows, FirstOf
  <2>1. CASE j < srcNext
    <3>1. PICK n \in 1 .. Len(Transit) : Transit[n].i = j
      BY <1>1, <2>1 DEF SentRows
    <3> QED
      BY <1>2, <3>1
  <2>2. CASE ~(j < srcNext)
    <3>1. r.i = j
      BY <1>3, <2>2, LogType DEF RowIndex
    <3> QED
      BY <1>2, <3>1
  <2> QED
    BY <2>1, <2>2
<1>6. TransitOrder'
  <2> SUFFICES ASSUME NEW n \in 1 .. Len(Transit')
               PROVE  /\ Transit'[n].pos <= srcLast'
                      /\ Transit'[n].i # 0 => Transit'[n].pos = Log[Transit'[n].i].pos
                      /\ IsRow(Transit'[n]) =>
                            /\ Transit'[n].pos > highest
                            /\ \A k \in 1 .. n - 1 : Transit'[k].pos < Transit'[n].pos
    BY DEF TransitOrder, IsRow
  <2>1. CASE n \in 1 .. Len(Transit)
    <3>1. Transit'[n] = Transit[n] /\ \A k \in 1 .. n - 1 : Transit'[k] = Transit[k]
      BY <1>2, <2>1
    <3>2. Transit[n].pos <= srcLast'
      BY <1>1, <1>3, <2>1 DEF TransitOrder
    <3> QED
      BY <1>1, <2>1, <3>1, <3>2 DEF TransitOrder
  <2>2. CASE n = Len(Transit) + 1
    <3>1. Transit'[n] = r /\ \A k \in 1 .. n - 1 : Transit'[k] = Transit[k]
      BY <1>2, <2>2
    <3>2. \A k \in 1 .. n - 1 : Transit[k].pos <= srcLast
      BY <1>1, <1>2, <2>2 DEF TransitOrder
    <3>3. highest <= srcLast
      BY <1>1 DEF Ahead
    <3> QED
      BY <1>2, <1>3, <2>2, <3>1, <3>2, <3>3
  <2> QED
    BY <1>2, <2>1, <2>2
<1> QED
  BY <1>4, <1>5, <1>6 DEF RowsAccounted

LEMMA RowsSourceTask == LogOrdered /\ TypeOK /\ TypeOK' /\ RowsAccounted /\ SourceTask => RowsAccounted'
<1> SUFFICES ASSUME LogOrdered, TypeOK, TypeOK', RowsAccounted, SourceTask PROVE RowsAccounted'
  OBVIOUS
<1>1. srcState = "running" /\ pc' = pc /\ pc \notin Early
  BY DEF SourceTask, Produce, Enqueue, TakeSignal, ConfirmToSource, SourceReturns, srcRest, coord,
         RowsAccounted, EarlyEmpty
<1>2. SourceType
  BY DEF TypeOK
<1>3. CASE UNCHANGED rows
  <2>1. pc \in {"save", "ack"} => FirstOf(Len(encoded)) \subseteq delivered
    BY DEF RowsAccounted, Written, Active
  <2> QED
    BY <1>1, <1>3, <2>1, Quiet
<1>4. CASE pc \notin Active
  <2>1. UNCHANGED <<delivered, ckpt>>
    BY DEF SourceTask, Produce, Enqueue, TakeSignal, ConfirmToSource, SourceReturns, srcRest, durable
  <2>2. NoAcknowledgedDataLoss'
    BY <2>1 DEF RowsAccounted, NoAcknowledgedDataLoss, Covers
  <2> QED
    BY <1>1, <1>4, <2>2, Ends
<1>5. ASSUME Produce, pc \in Active PROVE RowsAccounted'
  <2> DEFINE r == [i |-> srcNext, pos |-> Log[srcNext].pos, sig |-> 0, state |-> {}]
  <2>1. UNCHANGED <<encoded, highest, delivered, ckpt>>
    BY <1>5 DEF Produce, srcRest, batch, durable
  <2>2. srcNext \in DOMAIN Log /\ srcNext' = srcNext + 1 /\ srcLast' = Log[srcNext].pos
    BY <1>2, <1>5, LogType DEF Produce, SourceType
  <2>3. r \in Item
    BY <2>2, LogType DEF Item
  <2>4. Transit' = Append(Transit, r)
    BY <1>2, <1>5, <2>3, TransitSent DEF Produce
  <2>5. srcLast \in Nat /\ highest \in Nat /\ srcNext \in Nat
    BY <1>2, LogType DEF TypeOK, SourceType, BatchType
  <2>6. Ahead
    BY <1>5 DEF RowsAccounted
  <2>7. Log[srcNext].pos >= srcLast /\ (Log[srcNext].row => Log[srcNext].pos > srcLast)
    BY <2>2, <2>5, <2>6 DEF Ahead
  <2>8. highest' <= srcLast'
    BY <2>1, <2>2, <2>5, <2>6, <2>7, LogType DEF Ahead
  <2>9. \A j \in DOMAIN Log :
           j >= srcNext' => Log[j].pos >= srcLast' /\ (Log[j].row => Log[j].pos > srcLast')
    <3> SUFFICES ASSUME NEW j \in DOMAIN Log, j >= srcNext'
                 PROVE  Log[j].pos >= srcLast' /\ (Log[j].row => Log[j].pos > srcLast')
      OBVIOUS
    <3>1. srcNext < j
      BY <2>2, <2>5, LogType
    <3>2. Log[srcNext].pos <= Log[j].pos /\ (Log[j].row => Log[srcNext].pos < Log[j].pos)
      BY <2>2, <3>1 DEF LogOrdered
    <3> QED
      BY <2>2, <3>2, LogType
  <2>10. Ahead'
    BY <2>8, <2>9 DEF Ahead
  <2>11. \A j \in RowIndex : j < srcNext' /\ j >= srcNext => r.i = j
    BY <2>2, <2>5, LogType DEF RowIndex
  <2>12. r.pos = srcLast' /\ (r.i # 0 => r.pos = Log[r.i].pos) /\ srcNext' >= srcNext
    BY <2>2, <2>5
  <2>13. srcLast' >= srcLast /\ (IsRow(r) => srcLast' > srcLast)
    BY <2>2, <2>7 DEF IsRow
  <2> QED
    BY <1>1, <1>5, <2>1, <2>3, <2>4, <2>10, <2>11, <2>12, <2>13, RowsSent
<1>6. ASSUME Enqueue, pc \in Active PROVE RowsAccounted'
  <2>1. UNCHANGED <<encoded, highest, delivered, ckpt, srcNext, srcLast>>
    BY <1>6 DEF Enqueue, srcRest, batch, durable
  <2>2. Transit' = Transit
    BY <1>2, <1>6, TransitQueued DEF Enqueue
  <2>3. NoAcknowledgedDataLoss' /\ EarlyEmpty'
    BY <1>1, <2>1 DEF RowsAccounted, NoAcknowledgedDataLoss, Covers, EarlyEmpty
  <2>4. SentRows' /\ TransitOrder' /\ Ahead' /\ Written'
    BY <1>1, <1>6, <2>1, <2>2 DEF RowsAccounted, SentRows, TransitOrder, Ahead, Written, FirstOf, IsRow
  <2> QED
    BY <2>3, <2>4 DEF RowsAccounted
<1>7. ASSUME TakeSignal, pc \in Active, ~UNCHANGED <<srcSignals, holding>> PROVE RowsAccounted'
  <2> DEFINE r == [i |-> 0, pos |-> srcLast, sig |-> sigOffset + 1, state |-> srcSignals']
  <2>1. UNCHANGED <<encoded, highest, delivered, ckpt, srcNext, srcLast, queue>> /\ holding = <<>>
    BY <1>7 DEF TakeSignal, srcRest, batch, durable
  <2>2. holding' = <<r>>
    BY <1>7 DEF TakeSignal
  <2>3. srcLast \in Nat /\ sigOffset + 1 \in Nat /\ srcSignals' \in SUBSET Nat /\ srcNext \in Nat
    BY LogType DEF TypeOK, SourceType, DurableType
  <2>4. r \in Item
    BY <2>3 DEF Item
  <2>5. Transit' = Append(Transit, r)
    BY <1>2, <2>1, <2>2, <2>4, TransitSent
  <2>6. Ahead'
    <3>1. Ahead
      BY <1>7 DEF RowsAccounted
    <3>2. UNCHANGED <<highest, srcNext, srcLast>>
      BY <2>1
    <3> QED
      BY <3>1, <3>2 DEF Ahead
  <2>7. \A j \in RowIndex : ~(j < srcNext' /\ j >= srcNext)
    BY <2>1, <2>3, LogType DEF RowIndex
  <2>8. r.pos = srcLast' /\ r.i = 0 /\ ~IsRow(r) /\ srcLast' >= srcLast /\ srcNext' >= srcNext
    BY <2>1, <2>3 DEF IsRow
  <2> QED
    BY <1>1, <1>7, <2>1, <2>4, <2>5, <2>6, <2>7, <2>8, RowsSent
<1>8. ASSUME TakeSignal, UNCHANGED <<srcSignals, holding>> PROVE UNCHANGED rows
  BY <1>8 DEF TakeSignal, srcRest, batch, durable, rows
<1>9. ASSUME ConfirmToSource \/ SourceReturns PROVE UNCHANGED rows
  BY <1>9 DEF ConfirmToSource, SourceReturns, batch, source, durable, rows
<1> QED
  BY <1>3, <1>4, <1>5, <1>6, <1>7, <1>8, <1>9 DEF SourceTask

\* A record moves from the channel into the batch.
LEMMA RowsConsumed ==
    ASSUME TypeOK, RowsAccounted, pc = "select", queue # <<>>, queue' = Tail(queue),
           UNCHANGED sourceTask, Consume(Head(queue))
    PROVE  RowsAccounted'
<1> DEFINE r == Head(queue)
<1>1. SentRows /\ TransitOrder /\ Ahead
  BY DEF RowsAccounted, Active
<1>2. UNCHANGED <<srcNext, srcLast, holding, delivered, ckpt>>
  BY DEF Consume, sourceTask, durable
<1>3. /\ Transit \in Seq(Item) /\ Len(Transit) \in Nat /\ Len(Transit) >= 1
      /\ Len(Transit') = Len(Transit) - 1 /\ r = Transit[1] /\ r \in Item
      /\ \A n \in 1 .. Len(Transit) - 1 : Transit'[n] = Transit[n + 1]
  BY <1>2, TransitType, TransitReceived, TypeQueue, EmptySeq DEF TypeOK
<1>4. encoded' = (IF r.i = 0 THEN encoded ELSE encoded \o Encode(r.i)) /\ highest' = r.pos
  BY DEF Consume
<1>5. NoAcknowledgedDataLoss'
  BY <1>2 DEF RowsAccounted, NoAcknowledgedDataLoss, Covers
<1>6. pc' \in {"select", "flush", "save", "write"} /\ (pc' = "save" => encoded' = <<>>)
  BY DEF Consume, FlushFrom
<1>7. EarlyEmpty' /\ Written'
  <2>1. Len(<<>>) = 0
    BY EmptySeq
  <2> QED
    BY <1>6, <2>1 DEF EarlyEmpty, Early, Written, FirstOf
<1>8. Ahead'
  <2>1. r.pos <= srcLast
    BY <1>1, <1>3 DEF TransitOrder
  <2> QED
    BY <1>1, <1>2, <1>4, <2>1 DEF Ahead
<1>9. TransitOrder'
  <2> SUFFICES ASSUME NEW n \in 1 .. Len(Transit')
               PROVE  /\ Transit'[n].pos <= srcLast'
                      /\ Transit'[n].i # 0 => Transit'[n].pos = Log[Transit'[n].i].pos
                      /\ IsRow(Transit'[n]) =>
                            /\ Transit'[n].pos > highest'
                            /\ \A k \in 1 .. n - 1 : Transit'[k].pos < Transit'[n].pos
    BY DEF TransitOrder, IsRow
  <2>1. n + 1 \in 1 .. Len(Transit) /\ Transit'[n] = Transit[n + 1]
    BY <1>3
  <2>2. \A k \in 1 .. n - 1 : k + 1 \in 1 .. (n + 1) - 1 /\ Transit'[k] = Transit[k + 1]
    BY <1>3
  <2>3. 1 \in 1 .. (n + 1) - 1
    BY <1>3
  <2>4. Transit[n + 1].pos \in Nat /\ r.pos \in Nat
    <3>1. Transit[n + 1] \in Item
      BY <1>3, <2>1, ElementOfSeq
    <3> QED
      BY <1>3, <3>1 DEF Item
  <2>5. IsRow(Transit[n + 1]) => Transit[n + 1].pos > r.pos
    BY <1>1, <1>3, <2>1, <2>3, <2>4 DEF TransitOrder
  <2>6. IsRow(Transit[n + 1]) => \A k \in 1 .. n - 1 : Transit[k + 1].pos < Transit[n + 1].pos
    BY <1>1, <2>1, <2>2 DEF TransitOrder
  <2>7. /\ Transit[n + 1].pos <= srcLast
        /\ Transit[n + 1].i # 0 => Transit[n + 1].pos = Log[Transit[n + 1].i].pos
    BY <1>1, <2>1 DEF TransitOrder
  <2> QED
    BY <1>2, <1>4, <2>1, <2>2, <2>5, <2>6, <2>7
<1>10. FirstOf(Len(encoded)) \subseteq FirstOf(Len(encoded))'
  <2>1. CASE r.i = 0
    BY <1>4, <2>1 DEF FirstOf
  <2>2. CASE r.i # 0
    <3>1. /\ encoded \in Seq(AllOutputs) /\ Encode(r.i) \in Seq(AllOutputs)
          /\ Len(encoded) \in Nat /\ Len(Encode(r.i)) \in Nat
      BY <1>3, <2>2, EncodeType, LenProperties DEF TypeOK, BatchType, Item
    <3>2. /\ Len(encoded') = Len(encoded) + Len(Encode(r.i))
          /\ \A n \in 1 .. Len(encoded) : encoded'[n] = encoded[n]
      BY <1>4, <2>2, <3>1, ConcatProperties
    <3>3. 1 .. Len(encoded) \subseteq 1 .. Len(encoded')
      BY <3>1, <3>2
    <3> QED
      BY <3>2, <3>3 DEF FirstOf
  <2> QED
    BY <2>1, <2>2
<1>11. r.i # 0 => Outputs(r.i) \subseteq FirstOf(Len(encoded))'
  <2> SUFFICES ASSUME r.i # 0, NEW k \in 1 .. Log[r.i].outs
               PROVE  \E n \in 1 .. Len(encoded') : encoded'[n] = <<r.i, k>>
    BY DEF Outputs, FirstOf
  <2>1. /\ encoded \in Seq(AllOutputs) /\ Encode(r.i) \in Seq(AllOutputs)
        /\ Len(encoded) \in Nat /\ Len(Encode(r.i)) = Log[r.i].outs /\ Log[r.i].outs \in Nat
        /\ Encode(r.i)[k] = <<r.i, k>>
    BY <1>3, EncodeType, LogType, LenProperties DEF TypeOK, BatchType, Item
  <2> DEFINE n == Len(encoded) + k
  <2>2. n \in 1 .. Len(encoded) + Len(Encode(r.i)) /\ ~(n <= Len(encoded)) /\ n - Len(encoded) = k
    BY <2>1
  <2>3. n \in 1 .. Len(encoded') /\ encoded'[n] = Encode(r.i)[k]
    BY <1>4, <2>1, <2>2, ConcatProperties
  <2> QED
    BY <2>1, <2>3
<1>12. SentRows'
  <2> SUFFICES ASSUME NEW j \in RowIndex, j < srcNext,
                      ~(Outputs(j) \subseteq delivered \cup FirstOf(Len(encoded))')
               PROVE  \E n \in 1 .. Len(Transit') : Transit'[n].i = j
    BY <1>2 DEF SentRows, FirstOf
  <2>1. PICK n \in 1 .. Len(Transit) : Transit[n].i = j
    BY <1>1, <1>10 DEF SentRows
  <2>2. j # 0
    BY LogType DEF RowIndex
  <2>3. n # 1
    BY <1>3, <1>11, <2>1, <2>2
  <2>4. n - 1 \in 1 .. Len(Transit') /\ Transit'[n - 1] = Transit[n]
    BY <1>3, <2>3
  <2> QED
    BY <2>1, <2>4
<1> QED
  BY <1>5, <1>7, <1>8, <1>9, <1>12 DEF RowsAccounted

LEMMA RowsPipeline == TypeOK /\ TypeOK' /\ RowsAccounted /\ Pipeline => RowsAccounted'
<1> SUFFICES ASSUME TypeOK, TypeOK', RowsAccounted, Pipeline PROVE RowsAccounted'
  OBVIOUS
<1>1. CASE Tick \/ LeaveLoop
  <2>1. UNCHANGED <<batch, source, durable>> /\ pc = "select"
    BY <1>1 DEF Tick, LeaveLoop
  <2>2. pc' \in {"select", "flush", "write"} \/ (pc' = "save" /\ encoded = <<>>)
    BY <1>1 DEF Tick, LeaveLoop, Goto, FlushFrom
  <2>3. UNCHANGED rows
    BY <2>1 DEF rows, batch, source, durable
  <2>4. encoded = <<>> => FirstOf(Len(encoded)) \subseteq delivered
    <3>1. Len(<<>>) = 0
      BY EmptySeq
    <3> QED
      BY <3>1 DEF FirstOf
  <2> QED
    BY <2>1, <2>2, <2>3, <2>4, Quiet DEF Early, Active
<1>2. CASE Receive
  <2>1. CASE Consume(Head(queue))
    BY <1>2, <2>1, RowsConsumed DEF Receive
  <2>2. CASE ~Consume(Head(queue))
    <3>1. pc' = "join" /\ UNCHANGED <<delivered, ckpt>>
      BY <1>2, <2>2 DEF Receive, PipelineFails, durable
    <3>2. NoAcknowledgedDataLoss'
      BY <3>1 DEF RowsAccounted, NoAcknowledgedDataLoss, Covers
    <3> QED
      BY <3>1, <3>2, Ends DEF Early, Active
  <2> QED
    BY <2>1, <2>2
<1>3. CASE Write
  <2>1. delivered \subseteq delivered' /\ UNCHANGED <<ckpt, encoded, highest, srcNext, srcLast>> /\ pc = "write"
    BY <1>3 DEF Write, PipelineFails, ScheduleRetry, batch, source, sourceTask
  <2>2. Transit' = Transit
    BY <1>3 DEF Write, PipelineFails, ScheduleRetry, batch, source, sourceTask, Transit
  <2>3. NoAcknowledgedDataLoss'
    BY <2>1 DEF RowsAccounted, NoAcknowledgedDataLoss, Covers
  <2>4. pc' \in {"save", "writeWait", "join"} /\ (pc' = "save" => FirstOf(Len(encoded)) \subseteq delivered')
    BY <1>3 DEF Write, PipelineFails, ScheduleRetry, Goto
  <2>5. EarlyEmpty' /\ Written'
    BY <2>1, <2>4 DEF EarlyEmpty, Early, Written, FirstOf
  <2>6. SentRows /\ TransitOrder /\ Ahead
    BY <2>1 DEF RowsAccounted, Active
  <2>7. SentRows'
    BY <2>1, <2>2, <2>6 DEF SentRows, FirstOf
  <2>8. TransitOrder' /\ Ahead'
    BY <2>1, <2>2, <2>6 DEF TransitOrder, Ahead, IsRow
  <2> QED
    BY <2>3, <2>5, <2>7, <2>8 DEF RowsAccounted
<1>4. CASE Save
  <2>1. SentRows /\ TransitOrder /\ Ahead /\ Written /\ pc = "save"
    BY <1>4 DEF Save, RowsAccounted, Active
  <2>2. Covers(delivered, highest)
    <3> SUFFICES ASSUME NEW j \in RowIndex, Log[j].pos <= highest
                 PROVE  Outputs(j) \subseteq delivered
      BY DEF Covers, RowsUpTo
    <3>1. /\ j \in DOMAIN Log /\ Log[j].row /\ Log[j].pos \in Nat /\ j \in Nat /\ j # 0
          /\ highest \in Nat /\ srcLast \in Nat /\ srcNext \in Nat
      BY LogType DEF RowIndex, TypeOK, BatchType, SourceType
    <3>2. j < srcNext
      BY <2>1, <3>1 DEF Ahead
    <3>3. CASE \E n \in 1 .. Len(Transit) : Transit[n].i = j
      <4>1. PICK n \in 1 .. Len(Transit) : Transit[n].i = j
        BY <3>3
      <4>2. Transit[n].pos = Log[j].pos /\ Transit[n].pos > highest
        BY <2>1, <3>1, <4>1 DEF TransitOrder, IsRow
      <4> QED
        BY <3>1, <4>2
    <3>4. CASE Outputs(j) \subseteq delivered \cup FirstOf(Len(encoded))
      BY <2>1, <3>4 DEF Written
    <3> QED
      BY <2>1, <3>2, <3>3, <3>4 DEF SentRows
  <2>3. delivered' = delivered /\ ckpt' \in {ckpt, NewCheckpoint}
    BY <1>4 DEF Save
  <2>4. NoAcknowledgedDataLoss'
    BY <2>2, <2>3 DEF NoAcknowledgedDataLoss, NewCheckpoint, RowsAccounted, Covers
  <2>5. CASE pc' = "join"
    BY <2>4, <2>5, Ends DEF Early, Active
  <2>6. CASE pc' # "join"
    <3>1. UNCHANGED <<batch, source>> /\ pc' = "ack"
      BY <1>4, <2>6 DEF Save, PipelineFails, Goto
    <3>2. UNCHANGED <<encoded, highest, srcNext, srcLast>> /\ Transit' = Transit
      BY <3>1 DEF batch, source, Transit
    <3>3. SentRows' /\ TransitOrder' /\ Ahead' /\ Written'
      BY <2>1, <2>3, <3>1, <3>2 DEF SentRows, TransitOrder, Ahead, Written, FirstOf, IsRow
    <3>4. EarlyEmpty'
      BY <3>1 DEF EarlyEmpty, Early
    <3> QED
      BY <2>4, <3>3, <3>4 DEF RowsAccounted
  <2> QED
    BY <2>5, <2>6
<1>5. CASE Acknowledge
  <2>1. SentRows /\ TransitOrder /\ Ahead /\ Written /\ pc = "ack"
    BY <1>5 DEF Acknowledge, RowsAccounted, Active
  <2>2. UNCHANGED durable
    BY <1>5 DEF Acknowledge
  <2>3. NoAcknowledgedDataLoss'
    BY <2>2 DEF RowsAccounted, NoAcknowledgedDataLoss, Covers, durable
  <2>4. CASE pc' = "join"
    BY <2>3, <2>4, Ends DEF Early, Active
  <2>5. CASE pc' # "join"
    <3>1. UNCHANGED source /\ pc' \in {"flush", "select"} /\ encoded' = <<>> /\ highest' = 0
      BY <1>5, <2>5 DEF Acknowledge, PipelineFails, Goto
    <3>2. UNCHANGED <<srcNext, srcLast, delivered>> /\ Transit' = Transit
      BY <2>2, <3>1 DEF source, durable, Transit
    <3>3. SentRows'
      BY <2>1, <3>2 DEF SentRows, Written
    <3>4. highest \in Nat /\ srcLast \in Nat /\ \A n \in 1 .. Len(Transit) : Transit[n].pos \in Nat
      <4>1. \A n \in 1 .. Len(Transit) : Transit[n] \in Item
        BY TransitType, ElementOfSeq DEF TypeOK
      <4> QED
        BY <4>1 DEF Item, TypeOK, BatchType, SourceType
    <3>5. TransitOrder'
      BY <2>1, <3>1, <3>2, <3>4 DEF TransitOrder, IsRow
    <3>6. Ahead'
      BY <2>1, <3>1, <3>2, <3>4 DEF Ahead
    <3>7. EarlyEmpty' /\ Written'
      BY <3>1 DEF EarlyEmpty, Early, Written
    <3> QED
      BY <2>3, <3>3, <3>5, <3>6, <3>7 DEF RowsAccounted
  <2> QED
    BY <2>4, <2>5
<1> QED
  BY <1>1, <1>2, <1>3, <1>4, <1>5 DEF Pipeline

\* RowsAccounted is inductive, for a log that keeps the contract of a connector.
LEMMA RowsStep ==
    LogOrdered /\ TypeOK /\ TypeOK' /\ RowsAccounted /\ [Next]_vars => RowsAccounted'
<1> SUFFICES ASSUME LogOrdered, TypeOK, TypeOK', RowsAccounted, [Next]_vars PROVE RowsAccounted'
  OBVIOUS
<1>1. CASE StartUp
  BY <1>1, RowsStartUp
<1>2. CASE SourceTask
  BY <1>2, RowsSourceTask
<1>3. CASE Pipeline
  BY <1>3, RowsPipeline
<1>4. CASE Crash \/ Restart
  BY <1>4, RowsVolatile DEF Crash, Restart
<1>5. CASE Retry
  <2>1. UNCHANGED <<batch, source, durable>>
    BY <1>5 DEF Retry, Backoff
  <2>2. UNCHANGED rows /\ UNCHANGED srcState
    BY <2>1 DEF rows, batch, source, durable
  <2>3. \/ pc = "validateWait" /\ pc' = "validate"
        \/ pc = "writeWait" /\ pc' = "write"
        \/ pc = "flushWait" /\ pc' = "flush"
    BY <1>5 DEF Retry, Backoff
  <2>4. pc' \in Early => pc \in Early /\ srcState' = "off"
    BY <2>2, <2>3 DEF RowsAccounted, EarlyEmpty, Early
  <2> QED
    BY <2>2, <2>3, <2>4, Quiet DEF Early, Active
<1>6. CASE Shutdown
  <2>1. UNCHANGED rows
    BY <1>6 DEF Shutdown, FlushSink, CancelBackoff, Join, JoinTimeout, Close, ScheduleRetry,
                PipelineFails, rows, batch, source, sourceTask, durable
  <2>2. pc' \in {"join", "flushWait", "close", "done"} /\ (pc' = "flushWait" => pc = "flush")
    BY <1>6 DEF Shutdown, FlushSink, CancelBackoff, Join, JoinTimeout, Close, ScheduleRetry,
                PipelineFails
  <2> QED
    BY <2>1, <2>2, Quiet DEF Early, Active
<1>7. CASE SignalChannel \/ Cancel \/ Idle \/ UNCHANGED vars
  <2>1. UNCHANGED <<rows, pc, srcState>>
    BY <1>7 DEF SignalChannel, SendSignal, CommitSignal, SignalChannelEnds, Cancel, Idle, vars,
                rows, coord, batch, source, durable
  <2>2. pc \in {"save", "ack"} => FirstOf(Len(encoded)) \subseteq delivered
    BY DEF RowsAccounted, Written, Active
  <2>3. pc' \in Early => pc \in Early /\ srcState' = "off"
    BY <2>1 DEF RowsAccounted, EarlyEmpty
  <2> QED
    BY <2>1, <2>2, <2>3, Quiet
<1> QED
  BY <1>1, <1>2, <1>3, <1>4, <1>5, <1>6, <1>7 DEF Next

\* Every row stays accounted for: at the sink, in the batch or in transit, and what
\* a checkpoint covers is at the sink (the path of a record through run_inner).
THEOREM RowsKept == ASSUME LogOrdered PROVE Spec => []RowsAccounted
<1>1. Init => TypeOK /\ RowsAccounted
  BY TypeInit, RowsInit
<1>2. TypeOK /\ RowsAccounted /\ [Next]_vars /\ TypeOK' => RowsAccounted'
  BY RowsStep
<1> QED
  BY <1>1, <1>2, TypeCorrect, PTL DEF Spec

\* No acknowledged data loss: whatever the connector's log, the batch and channel
\* sizes, the retries, failures and crashes, a checkpoint covers only rows the
\* sink holds (flush_batch saves after the write and drops the batch last).
THEOREM NoLoss == ASSUME LogOrdered PROVE Spec => []NoAcknowledgedDataLoss
<1>1. RowsAccounted => NoAcknowledgedDataLoss
  BY DEF RowsAccounted
<1> QED
  BY <1>1, RowsKept, PTL

-----------------------------------------------------------------------------
(* Failures.  An operational error leaves its mark in the result of the     *)
(* pipeline or of the source task until Close has reported it; nothing can  *)
(* fail any more then, because the source task has been awaited before.     *)

FailureKept ==
    /\ pc \in Early \cup {"close", "done"} => srcState # "running"
    /\ pc \in Early => firstErr = "none"
    /\ firstErr # "none" => IF pc = "done" THEN status = "Failed" ELSE err # "ok" \/ srcErr # "ok"

LEMMA FailureStep == FailureKept /\ [Next]_vars => FailureKept'
<1> SUFFICES ASSUME FailureKept, [Next]_vars PROVE FailureKept'
  OBVIOUS
<1> USE DEF FailureKept, Early
<1>1. CASE ValidateSource \/ ValidateSink \/ CancelValidate
  BY <1>1 DEF ValidateSource, ValidateSink, CancelValidate, ReturnEarly, ScheduleRetry, Goto,
              source, env
<1>2. CASE LoadAndSpawn
  BY <1>2 DEF LoadAndSpawn, ReturnEarly, source, env
<1>3. CASE Produce \/ Enqueue \/ TakeSignal \/ ConfirmToSource
  BY <1>3 DEF Produce, Enqueue, TakeSignal, ConfirmToSource, srcRest, coord, source, env
<1>4. CASE SourceReturns
  BY <1>4 DEF SourceReturns, coord
<1>5. CASE Retry
  BY <1>5 DEF Retry, Backoff, source, env
<1>6. CASE Tick \/ LeaveLoop
  BY <1>6 DEF Tick, LeaveLoop, Goto, FlushFrom, source, env
<1>7. CASE Receive
  BY <1>7 DEF Receive, Consume, FlushFrom, PipelineFails, sourceTask, env
<1>8. CASE Write \/ Save
  BY <1>8 DEF Write, Save, Goto, ScheduleRetry, PipelineFails, sourceTask, source, env
<1>9. CASE Acknowledge
  BY <1>9 DEF Acknowledge, Goto, PipelineFails, sourceTask, source, env
<1>10. CASE FlushSink \/ CancelBackoff \/ Join
  BY <1>10 DEF FlushSink, CancelBackoff, Join, ScheduleRetry, PipelineFails, sourceTask, source, env
<1>11. CASE JoinTimeout
  BY <1>11 DEF JoinTimeout
<1>12. CASE Close
  BY <1>12 DEF Close, FirstError, source
<1>13. CASE SignalChannel \/ Cancel \/ Idle \/ UNCHANGED vars
  BY <1>13 DEF SignalChannel, SendSignal, CommitSignal, SignalChannelEnds, Cancel, Idle, coord,
               source, env, vars
<1>14. CASE Crash \/ Restart
  BY <1>14 DEF Crash, Restart, Volatile
<1> QED
  BY <1>1, <1>2, <1>3, <1>4, <1>5, <1>6, <1>7, <1>8, <1>9, <1>10, <1>11, <1>12, <1>13, <1>14
     DEF Next, StartUp, SourceTask, Pipeline, Shutdown

\* Visible failures: whatever fails, and in whatever order the pipeline, the source
\* task and the sink end, a process that met an operational error ends Failed (the
\* cleanup path of run_inner).
THEOREM FailuresReported == Spec => []FailureVisible
<1>1. Init => FailureKept
  BY DEF Init, FailureKept, Early
<1>2. FailureKept => FailureVisible
  BY DEF FailureKept, FailureVisible
<1> QED
  BY <1>1, <1>2, FailureStep, PTL DEF Spec

-----------------------------------------------------------------------------
(* Signals.  A signal is in flight from TakeSignal to Acknowledge; only one is, *)
(* and it is followed along the way: in the record that carries the new state,  *)
(* then in the pending batch, then in the checkpoint.                           *)

\* Before the source is spawned no signal is in flight.
EarlySignals == pc \in Early => srcState = "off" /\ Transit = <<>> /\ sigacks = {} /\ srcSignals = {}

\* What the topic, the source and the checkpoint agree on, in every state.
SignalBooked ==
    /\ SignalsSurvive
    /\ srcSignals \subseteq ckpt.state \cup {sigOffset + 1}
    /\ sigState \in {"idle", "sent", "acked"} => srcSignals \subseteq ckpt.state
    /\ sigState = "acked" => sigOffset + 1 \in ckpt.state
    /\ Resnapshot => ckpt.state = {}

\* What the pending batch will save, and when it may release an acknowledgement.
BatchSignals ==
    /\ ckpt.state \subseteq connState /\ connState \subseteq srcSignals
    /\ sigacks \subseteq connState \cap {sigOffset + 1}
    /\ sigState \in {"idle", "sent", "acked"} => sigacks = {}
    /\ pc = "ack" => ckpt = NewCheckpoint

\* The record that carries a signal is the only one, and brings the whole state.
TransitSignals ==
    \A n \in 1 .. Len(Transit) :
        Transit[n].sig # 0 =>
            /\ Transit[n].sig = sigOffset + 1 /\ sigOffset + 1 \in Transit[n].state
            /\ connState \subseteq Transit[n].state /\ Transit[n].state \subseteq srcSignals
            /\ sigState \in {"taken", "off"} /\ sigacks = {}
            /\ \A k \in 1 .. n - 1 : Transit[k].sig = 0

EndsSnapshot(r) == r.i # 0 /\ Log[r.i].boundary = "SnapshotComplete"

\* No signal gets into the batch before the end of the snapshot does.
SnapshotFirst ==
    /\ HasSnapshot /\ ~snapDone => connState = {}
    /\ ckpt.snap => snapDone
    /\ \A j \in DOMAIN Log :
          Log[j].boundary = "SnapshotComplete" /\ j < srcNext =>
              snapDone \/ \E n \in 1 .. Len(Transit) : Transit[n].i = j
    /\ \A n \in 1 .. Len(Transit) :
          Transit[n].sig # 0 /\ HasSnapshot =>
              snapDone \/ \E k \in 1 .. n - 1 : EndsSnapshot(Transit[k])

SignalsFollowed ==
    /\ EarlySignals /\ SignalBooked
    /\ pc \in Active => BatchSignals /\ TransitSignals /\ SnapshotFirst

signals == <<srcSignals, sigState, ckpt, sigOffset, sigacks, connState, snapDone, srcNext,
             holding, queue>>

\* A step that moves no signal.
LEMMA SignalsQuiet ==
    ASSUME SignalsFollowed, UNCHANGED <<signals, highest>>,
           pc' \in Early => pc \in Early /\ srcState' = "off",
           pc' \in Active => pc \in Active, pc' = "ack" => pc = "ack"
    PROVE  SignalsFollowed'
<1>1. EarlySignals' /\ SignalBooked'
  BY DEF SignalsFollowed, EarlySignals, SignalBooked, SignalsSurvive, Resnapshot, SnapshotOpen,
         signals, Transit
<1>2. ASSUME pc' \in Active PROVE BatchSignals' /\ TransitSignals' /\ SnapshotFirst'
  <2>1. BatchSignals /\ TransitSignals /\ SnapshotFirst
    BY <1>2 DEF SignalsFollowed
  <2>2. BatchSignals'
    BY <2>1 DEF BatchSignals, signals, NewCheckpoint
  <2>3. TransitSignals' /\ SnapshotFirst'
    BY <2>1 DEF TransitSignals, SnapshotFirst, signals, Transit
  <2> QED
    BY <2>2, <2>3
<1> QED
  BY <1>1, <1>2 DEF SignalsFollowed

\* A step after which nothing of this process can be saved any more.
LEMMA SignalsEnd ==
    ASSUME SignalBooked', pc' \notin Active \cup Early
    PROVE  SignalsFollowed'
BY DEF SignalsFollowed, EarlySignals

LEMMA SignalsInit == Init => SignalsFollowed
BY ConcatEmptySeq, EmptySeq
   DEF Init, SignalsFollowed, EarlySignals, SignalBooked, SignalsSurvive, Transit, Early, Active

LEMMA SignalsVolatile == TypeOK /\ SignalsFollowed /\ Volatile => SignalsFollowed'
<1> SUFFICES ASSUME SignalsFollowed, Volatile PROVE SignalsFollowed'
  OBVIOUS
<1>1. EarlySignals'
  BY ConcatEmptySeq, EmptySeq DEF Volatile, EarlySignals, Transit
<1>2. SignalBooked'
  BY DEF Volatile, durable, SignalsFollowed, SignalBooked, SignalsSurvive, Resnapshot, SnapshotOpen
<1> QED
  BY <1>1, <1>2 DEF SignalsFollowed, Volatile, Active

LEMMA SignalsStartUp == TypeOK /\ SignalsFollowed /\ StartUp => SignalsFollowed'
<1> SUFFICES ASSUME TypeOK, SignalsFollowed, StartUp PROVE SignalsFollowed'
  OBVIOUS
<1>1. CASE ValidateSource \/ ValidateSink \/ CancelValidate \/ (LoadAndSpawn /\ pc' # "select")
  <2>1. UNCHANGED <<batch, source, chans, durable>> /\ pc \in Early /\ pc' \in Early \cup {"done"}
    BY <1>1 DEF ValidateSource, ValidateSink, CancelValidate, LoadAndSpawn, ReturnEarly,
                ScheduleRetry, Goto, Early
  <2>2. UNCHANGED <<signals, highest>> /\ srcState' = "off"
    BY <2>1 DEF signals, batch, source, chans, durable, SignalsFollowed, EarlySignals
  <2> QED
    BY <2>1, <2>2, SignalsQuiet DEF Early, Active
<1>2. ASSUME LoadAndSpawn, pc' = "select" PROVE SignalsFollowed'
  <2>1. /\ UNCHANGED <<holding, queue, sigacks, ckpt, sigOffset, sigState>> /\ pc = "load"
        /\ snapDone' = ckpt.snap /\ connState' = ckpt.state
    BY <1>2 DEF LoadAndSpawn, ReturnEarly
  <2>2. Transit' = <<>> /\ sigacks = {} /\ Len(Transit') = 0 /\ SignalBooked
    BY <2>1, EmptySeq DEF SignalsFollowed, EarlySignals, Early, Transit
  <2>3. \/ Resnapshot /\ srcSignals' = {} /\ srcNext' = 1 /\ ckpt.state = {}
        \/ ~Resnapshot /\ srcSignals' = ckpt.state
    BY <1>2, <2>2 DEF LoadAndSpawn, ReturnEarly, SignalBooked
  <2>4. srcSignals' = ckpt.state
    BY <2>3
  <2>5. EarlySignals' /\ SignalBooked'
    BY <1>2, <2>1, <2>2, <2>4
       DEF EarlySignals, Early, SignalBooked, SignalsSurvive, Resnapshot, SnapshotOpen
  <2>6. BatchSignals' /\ TransitSignals'
    BY <1>2, <2>1, <2>2, <2>4 DEF BatchSignals, TransitSignals
  <2>7. SnapshotFirst'
    BY <2>1, <2>2, <2>3, LogType DEF SnapshotFirst, Resnapshot, SnapshotOpen, HasSnapshot
  <2> QED
    BY <2>5, <2>6, <2>7 DEF SignalsFollowed
<1> QED
  BY <1>1, <1>2 DEF StartUp

\* A record joins the records in transit.
LEMMA SignalsSent ==
    ASSUME TypeOK, SignalsFollowed, pc \in Active, pc' = pc, NEW r \in Item,
           UNCHANGED <<sigacks, connState, snapDone, ckpt, sigOffset, highest>>,
           Transit' = Append(Transit, r), EarlySignals', SignalBooked', BatchSignals',
           srcSignals \subseteq srcSignals',
           sigState \in {"taken", "off"} => sigState' \in {"taken", "off"},
           \A j \in DOMAIN Log : j < srcNext' => j < srcNext \/ r.i = j,
           r.sig # 0 => /\ r.sig = sigOffset + 1 /\ sigOffset + 1 \in r.state
                        /\ connState \subseteq r.state /\ r.state \subseteq srcSignals'
                        /\ sigState = "sent" /\ sigState' = "taken" /\ SnapshotSent
    PROVE  SignalsFollowed'
<1>1. BatchSignals /\ TransitSignals /\ SnapshotFirst
  BY DEF SignalsFollowed
<1>2. /\ Len(Transit) \in Nat /\ Len(Transit') = Len(Transit) + 1
      /\ \A n \in 1 .. Len(Transit) : Transit'[n] = Transit[n]
      /\ Transit'[Len(Transit) + 1] = r
  BY TransitType, AppendProperties DEF TypeOK
<1>3. TransitSignals'
  <2> SUFFICES ASSUME NEW n \in 1 .. Len(Transit'), Transit'[n].sig # 0
               PROVE  /\ Transit'[n].sig = sigOffset + 1 /\ sigOffset + 1 \in Transit'[n].state
                      /\ connState \subseteq Transit'[n].state
                      /\ Transit'[n].state \subseteq srcSignals'
                      /\ sigState' \in {"taken", "off"} /\ sigacks' = {}
                      /\ \A k \in 1 .. n - 1 : Transit'[k].sig = 0
    BY DEF TransitSignals
  <2>1. CASE n \in 1 .. Len(Transit)
    <3>1. Transit'[n] = Transit[n] /\ \A k \in 1 .. n - 1 : Transit'[k] = Transit[k]
      BY <1>2, <2>1
    <3> QED
      BY <1>1, <2>1, <3>1 DEF TransitSignals
  <2>2. CASE n = Len(Transit) + 1
    <3>1. Transit'[n] = r /\ \A k \in 1 .. n - 1 : k \in 1 .. Len(Transit) /\ Transit'[k] = Transit[k]
      BY <1>2, <2>2
    <3>2. /\ r.sig = sigOffset + 1 /\ sigOffset + 1 \in r.state
          /\ connState \subseteq r.state /\ r.state \subseteq srcSignals'
          /\ sigState = "sent" /\ sigState' = "taken"
      BY <3>1
    <3>3. sigacks = {} /\ \A k \in 1 .. Len(Transit) : Transit[k].sig = 0
      BY <1>1, <3>2 DEF BatchSignals, TransitSignals
    <3> QED
      BY <3>1, <3>2, <3>3
  <2> QED
    BY <1>2, <2>1, <2>2
<1>4. SnapshotFirst'
  <2>1. (HasSnapshot /\ ~snapDone' => connState' = {}) /\ (ckpt'.snap => snapDone')
    BY <1>1 DEF SnapshotFirst
  <2>2. ASSUME NEW j \in DOMAIN Log, Log[j].boundary = "SnapshotComplete", j < srcNext'
        PROVE  snapDone' \/ \E n \in 1 .. Len(Transit') : Transit'[n].i = j
    BY <1>1, <1>2, <2>2 DEF SnapshotFirst
  <2>3. ASSUME NEW n \in 1 .. Len(Transit'), Transit'[n].sig # 0, HasSnapshot
        PROVE  snapDone' \/ \E k \in 1 .. n - 1 : EndsSnapshot(Transit'[k])
    <3>1. CASE n \in 1 .. Len(Transit)
      <4>1. Transit'[n] = Transit[n] /\ \A k \in 1 .. n - 1 : Transit'[k] = Transit[k]
        BY <1>2, <3>1
      <4> QED
        BY <1>1, <2>3, <3>1, <4>1 DEF SnapshotFirst
    <3>2. CASE n = Len(Transit) + 1
      <4>1. PICK j \in DOMAIN Log : Log[j].boundary = "SnapshotComplete" /\ j < srcNext
        BY <1>2, <2>3, <3>2 DEF HasSnapshot, SnapshotSent
      <4>2. snapDone \/ \E k \in 1 .. Len(Transit) : Transit[k].i = j
        BY <1>1, <4>1 DEF SnapshotFirst
      <4>3. j # 0
        BY LogType
      <4> QED
        BY <1>2, <3>2, <4>1, <4>2, <4>3 DEF EndsSnapshot
    <3> QED
      BY <1>2, <3>1, <3>2
  <2> QED
    BY <2>1, <2>2, <2>3 DEF SnapshotFirst
<1> QED
  BY <1>3, <1>4 DEF SignalsFollowed

LEMMA SignalsSourceTask == TypeOK /\ SignalsFollowed /\ SourceTask => SignalsFollowed'
<1> SUFFICES ASSUME TypeOK, SignalsFollowed, SourceTask PROVE SignalsFollowed'
  OBVIOUS
<1>1. /\ srcState = "running" /\ pc' = pc /\ pc \notin Early /\ EarlySignals'
      /\ UNCHANGED <<sigacks, connState, snapDone, ckpt, sigOffset, highest>>
  BY DEF SourceTask, Produce, Enqueue, TakeSignal, ConfirmToSource, SourceReturns, srcRest, coord,
         batch, durable, SignalsFollowed, EarlySignals
<1>2. SourceType /\ SignalBooked
  BY DEF TypeOK, SignalsFollowed
<1>3. srcSignals \subseteq srcSignals' /\ SignalBooked'
  <2>1. CASE UNCHANGED <<srcSignals, sigState>>
    BY <1>1, <1>2, <2>1 DEF SignalBooked, SignalsSurvive, Resnapshot, SnapshotOpen
  <2>2. CASE TakeSignal
    BY <1>1, <1>2, <2>2 DEF TakeSignal, AfterSignal, SignalBooked, SignalsSurvive, Resnapshot,
                            SnapshotOpen
  <2> QED
    BY <2>1, <2>2 DEF SourceTask, Produce, Enqueue, ConfirmToSource, SourceReturns, chans, source
<1>4. CASE pc \notin Active
  BY <1>1, <1>3, <1>4, SignalsEnd
<1>5. ASSUME pc \in Active PROVE BatchSignals' /\ BatchSignals
  <2>1. BatchSignals
    BY <1>5 DEF SignalsFollowed
  <2>2. sigState' \in {"idle", "sent", "acked"} => sigState \in {"idle", "sent", "acked"}
    BY DEF SourceTask, Produce, Enqueue, TakeSignal, ConfirmToSource, SourceReturns, chans
  <2> QED
    BY <1>1, <1>3, <2>1, <2>2 DEF BatchSignals, NewCheckpoint
<1>6. ASSUME Produce, pc \in Active PROVE SignalsFollowed'
  <2> DEFINE r == [i |-> srcNext, pos |-> Log[srcNext].pos, sig |-> 0, state |-> {}]
  <2>1. srcNext \in DOMAIN Log /\ srcNext' = srcNext + 1 /\ UNCHANGED <<sigState, srcSignals>>
    BY <1>2, <1>6, LogType DEF Produce, SourceType
  <2>2. r \in Item
    BY <2>1, LogType DEF Item
  <2>3. Transit' = Append(Transit, r)
    BY <1>2, <1>6, <2>2, TransitSent DEF Produce
  <2>4. \A j \in DOMAIN Log : j < srcNext' => j < srcNext \/ r.i = j
    BY <2>1, LogType
  <2>5. r.sig = 0
    OBVIOUS
  <2> QED
    BY <1>1, <1>3, <1>5, <1>6, <2>1, <2>2, <2>3, <2>4, <2>5, SignalsSent
<1>7. ASSUME TakeSignal, pc \in Active, ~UNCHANGED <<srcSignals, holding>> PROVE SignalsFollowed'
  <2> DEFINE s == sigOffset + 1
             r == [i |-> 0, pos |-> srcLast, sig |-> s, state |-> srcSignals']
  <2>1. /\ UNCHANGED <<srcNext, queue>> /\ holding = <<>> /\ holding' = <<r>>
        /\ sigState = "sent" /\ sigState' = "taken" /\ SnapshotSent
        /\ srcSignals' = srcSignals \cup {s}
    BY <1>7 DEF TakeSignal, AfterSignal
  <2>2. srcLast \in Nat /\ s \in Nat
    BY DEF TypeOK, SourceType, DurableType
  <2>3. srcSignals' \in SUBSET Nat
    BY <2>1, <2>2 DEF TypeOK, SourceType
  <2>4. r \in Item
    BY <2>2, <2>3 DEF Item
  <2>5. Transit' = Append(Transit, r)
    BY <1>2, <2>1, <2>4, TransitSent
  <2>6. connState \subseteq srcSignals' /\ s \in srcSignals'
    BY <1>3, <1>5, <1>7, <2>1 DEF BatchSignals
  <2>7. UNCHANGED srcNext
    BY <2>1
  <2> QED
    BY <1>1, <1>3, <1>5, <1>7, <2>1, <2>4, <2>5, <2>6, <2>7, SignalsSent
<1>8. ASSUME pc \in Active, Transit' = Transit, UNCHANGED <<srcSignals, srcNext>>,
             sigState \in {"taken", "off"} => sigState' = sigState
      PROVE  SignalsFollowed'
  <2>1. TransitSignals /\ SnapshotFirst
    BY <1>8 DEF SignalsFollowed
  <2>2. TransitSignals'
    BY <1>1, <1>8, <2>1 DEF TransitSignals
  <2>3. SnapshotFirst'
    BY <1>1, <1>8, <2>1 DEF SnapshotFirst
  <2> QED
    BY <1>1, <1>3, <1>5, <1>8, <2>2, <2>3 DEF SignalsFollowed
<1>9. ASSUME Enqueue, pc \in Active PROVE SignalsFollowed'
  <2>1. Transit' = Transit
    BY <1>2, <1>9, TransitQueued DEF Enqueue
  <2> QED
    BY <1>8, <1>9, <2>1 DEF Enqueue
<1>10. ASSUME TakeSignal, UNCHANGED <<srcSignals, holding>>, pc \in Active PROVE SignalsFollowed'
  BY <1>8, <1>10 DEF TakeSignal, Transit
<1>11. ASSUME ConfirmToSource \/ SourceReturns, pc \in Active PROVE SignalsFollowed'
  BY <1>8, <1>11 DEF ConfirmToSource, SourceReturns, Transit, source, chans
<1> QED
  BY <1>4, <1>6, <1>7, <1>9, <1>10, <1>11 DEF SourceTask

\* A record moves into the batch, its signal and the end of the snapshot with it.
LEMMA SignalsConsumed ==
    ASSUME TypeOK, SignalsFollowed, pc = "select", queue # <<>>, queue' = Tail(queue),
           UNCHANGED sourceTask, Consume(Head(queue))
    PROVE  SignalsFollowed'
<1> DEFINE r == Head(queue)
<1>1. BatchSignals /\ TransitSignals /\ SnapshotFirst /\ SignalBooked
  BY DEF SignalsFollowed, Active
<1>2. UNCHANGED <<srcNext, srcSignals, sigState, ckpt, sigOffset, srcState>>
  BY DEF Consume, sourceTask, durable, chans
<1>3. /\ Len(Transit) \in Nat /\ Len(Transit) >= 1 /\ Len(Transit') = Len(Transit) - 1
      /\ r = Transit[1] /\ r \in Item
      /\ \A n \in 1 .. Len(Transit') : n + 1 \in 1 .. Len(Transit) /\ Transit'[n] = Transit[n + 1]
  BY TransitType, TransitReceived, TypeQueue, EmptySeq DEF TypeOK, sourceTask
<1>4. pc' \in {"select", "flush", "save", "write"}
  BY DEF Consume, FlushFrom
<1>5. /\ sigacks' = IF r.sig = 0 THEN sigacks ELSE sigacks \cup {r.sig}
      /\ connState' = IF r.sig = 0 THEN connState ELSE r.state
      /\ snapDone' = (snapDone \/ BoundaryOf(r) = "SnapshotComplete")
  BY DEF Consume
<1>6. EarlySignals' /\ SignalBooked'
  BY <1>1, <1>2, <1>4 DEF EarlySignals, Early, SignalBooked, SignalsSurvive, Resnapshot, SnapshotOpen
<1>7. r.sig # 0 => /\ r.sig = sigOffset + 1 /\ r.sig \in r.state /\ connState \subseteq r.state
                   /\ r.state \subseteq srcSignals
                   /\ sigState \in {"taken", "off"} /\ sigacks = {}
  BY <1>1, <1>3 DEF TransitSignals
<1>8. \A n \in 1 .. Len(Transit') : Transit'[n].sig # 0 => r.sig = 0
  <2> SUFFICES ASSUME NEW n \in 1 .. Len(Transit'), Transit'[n].sig # 0 PROVE r.sig = 0
    OBVIOUS
  <2>1. 1 \in 1 .. (n + 1) - 1 /\ n + 1 \in 1 .. Len(Transit) /\ Transit[n + 1].sig # 0
    BY <1>3
  <2>2. Transit[1].sig = 0
    BY <1>1, <2>1 DEF TransitSignals
  <2> QED
    BY <1>3, <2>2
<1>9. BatchSignals'
  BY <1>1, <1>2, <1>4, <1>5, <1>7 DEF BatchSignals
<1>10. TransitSignals'
  <2> SUFFICES ASSUME NEW n \in 1 .. Len(Transit'), Transit'[n].sig # 0
               PROVE  /\ Transit'[n].sig = sigOffset + 1 /\ sigOffset + 1 \in Transit'[n].state
                      /\ connState' \subseteq Transit'[n].state
                      /\ Transit'[n].state \subseteq srcSignals
                      /\ sigState \in {"taken", "off"} /\ sigacks' = {}
                      /\ \A k \in 1 .. n - 1 : Transit'[k].sig = 0
    BY <1>2 DEF TransitSignals
  <2>1. sigacks' = sigacks /\ connState' = connState
    BY <1>5, <1>8
  <2>2. n + 1 \in 1 .. Len(Transit) /\ Transit'[n] = Transit[n + 1]
    BY <1>3
  <2>3. \A k \in 1 .. n - 1 : k + 1 \in 1 .. (n + 1) - 1 /\ Transit'[k] = Transit[k + 1]
    BY <1>3
  <2> QED
    BY <1>1, <2>1, <2>2, <2>3 DEF TransitSignals
<1>11. EndsSnapshot(r) => snapDone'
  BY <1>5 DEF EndsSnapshot, BoundaryOf
<1>12. SnapshotFirst'
  <2>1. ASSUME HasSnapshot, ~snapDone' PROVE connState' = {}
    <3>1. ~snapDone /\ connState = {}
      BY <1>1, <1>5, <2>1 DEF SnapshotFirst
    <3>2. 1 \in 1 .. Len(Transit) /\ 1 .. 1 - 1 = {}
      BY <1>3
    <3>3. r.sig = 0
      BY <1>1, <1>3, <2>1, <3>1, <3>2 DEF SnapshotFirst
    <3> QED
      BY <1>5, <3>1, <3>3
  <2>2. ckpt'.snap => snapDone'
    BY <1>1, <1>2, <1>5 DEF SnapshotFirst
  <2>3. ASSUME NEW j \in DOMAIN Log, Log[j].boundary = "SnapshotComplete", j < srcNext', ~snapDone'
        PROVE  \E n \in 1 .. Len(Transit') : Transit'[n].i = j
    <3>1. PICK n \in 1 .. Len(Transit) : Transit[n].i = j
      BY <1>1, <1>2, <1>5, <2>3 DEF SnapshotFirst
    <3>2. n # 1
      BY <1>3, <1>11, <2>3, <3>1, LogType DEF EndsSnapshot
    <3>3. n - 1 \in 1 .. Len(Transit') /\ Transit'[n - 1] = Transit[n]
      BY <1>3, <3>2
    <3> QED
      BY <3>1, <3>3
  <2>4. ASSUME NEW n \in 1 .. Len(Transit'), Transit'[n].sig # 0, HasSnapshot, ~snapDone'
        PROVE  \E k \in 1 .. n - 1 : EndsSnapshot(Transit'[k])
    <3>1. PICK k \in 1 .. (n + 1) - 1 : EndsSnapshot(Transit[k])
      BY <1>1, <1>3, <1>5, <2>4 DEF SnapshotFirst
    <3>2. k # 1
      BY <1>3, <1>11, <2>4, <3>1
    <3>3. k - 1 \in 1 .. n - 1 /\ Transit'[k - 1] = Transit[k]
      BY <1>3, <3>2
    <3> QED
      BY <3>1, <3>3
  <2> QED
    BY <2>1, <2>2, <2>3, <2>4 DEF SnapshotFirst
<1> QED
  BY <1>6, <1>9, <1>10, <1>12 DEF SignalsFollowed

LEMMA SignalsPipeline == TypeOK /\ SignalsFollowed /\ Pipeline => SignalsFollowed'
<1> SUFFICES ASSUME TypeOK, SignalsFollowed, Pipeline PROVE SignalsFollowed'
  OBVIOUS
<1>1. pc \in Active /\ SignalBooked /\ BatchSignals /\ TransitSignals /\ SnapshotFirst
  BY DEF Pipeline, Tick, LeaveLoop, Receive, Write, Save, Acknowledge, Active, SignalsFollowed
<1>2. CASE Tick \/ LeaveLoop
  <2>1. UNCHANGED <<batch, source, chans, durable>> /\ pc' \in {"select", "flush", "save", "write"}
    BY <1>2 DEF Tick, LeaveLoop, Goto, FlushFrom
  <2>2. UNCHANGED <<signals, highest>>
    BY <2>1 DEF signals, batch, source, chans, durable
  <2> QED
    BY <1>1, <2>1, <2>2, SignalsQuiet DEF Early
<1>3. CASE Receive
  <2>1. CASE Consume(Head(queue))
    BY <1>3, <2>1, SignalsConsumed DEF Receive
  <2>2. CASE ~Consume(Head(queue))
    <3>1. pc' = "join" /\ UNCHANGED <<sourceTask, chans, durable>>
      BY <1>3, <2>2 DEF Receive, PipelineFails
    <3>2. SignalBooked'
      BY <1>1, <3>1 DEF SignalBooked, SignalsSurvive, Resnapshot, SnapshotOpen, sourceTask, chans, durable
    <3> QED
      BY <3>1, <3>2, SignalsEnd DEF Early, Active
  <2> QED
    BY <2>1, <2>2
<1>4. CASE Write
  <2>1. UNCHANGED <<batch, source, chans, ckpt, sigOffset>>
    BY <1>4 DEF Write, ScheduleRetry, PipelineFails, source, sourceTask
  <2>2. UNCHANGED <<signals, highest>>
    BY <2>1 DEF signals, batch, source, chans
  <2>3. pc' \in {"save", "writeWait", "join"}
    BY <1>4 DEF Write, Goto, ScheduleRetry, PipelineFails
  <2> QED
    BY <1>1, <2>2, <2>3, SignalsQuiet DEF Early
<1>5. CASE Save
  <2>1. /\ UNCHANGED <<batch, source, chans, sigOffset>> /\ ckpt' \in {ckpt, NewCheckpoint}
        /\ pc' = "join" \/ (pc' = "ack" /\ ckpt' = NewCheckpoint)
    BY <1>5 DEF Save, Goto, PipelineFails, source, sourceTask
  <2>2. NewCheckpoint.state = connState /\ NewCheckpoint.snap = snapDone
    BY DEF NewCheckpoint
  <2>3. UNCHANGED <<srcSignals, sigState, sigacks, connState, snapDone, srcNext, Transit>>
    BY <2>1 DEF batch, source, chans, Transit
  <2>4. ckpt.state \subseteq ckpt'.state /\ ckpt'.state \subseteq connState
    BY <1>1, <2>1, <2>2 DEF BatchSignals
  <2>5. Resnapshot' => ckpt'.state = {}
    BY <1>1, <2>1, <2>2 DEF SignalBooked, Resnapshot, SnapshotOpen, SnapshotFirst
  <2>6. SignalBooked'
    BY <1>1, <2>1, <2>3, <2>4, <2>5 DEF SignalBooked, SignalsSurvive
  <2>7. CASE pc' = "join"
    BY <2>6, <2>7, SignalsEnd DEF Early, Active
  <2>8. CASE pc' = "ack"
    <3>1. NewCheckpoint' = NewCheckpoint
      BY <2>1 DEF batch, NewCheckpoint
    <3>2. BatchSignals' /\ TransitSignals'
      BY <1>1, <2>1, <2>3, <2>4, <2>8, <3>1 DEF BatchSignals, TransitSignals
    <3>3. SnapshotFirst' /\ EarlySignals'
      BY <1>1, <2>1, <2>2, <2>3, <2>8 DEF SnapshotFirst, EarlySignals, Early
    <3> QED
      BY <2>6, <3>2, <3>3 DEF SignalsFollowed
  <2> QED
    BY <2>1, <2>7, <2>8
<1>6. CASE Acknowledge
  <2>1. CASE PipelineFails("ackClosed") /\ UNCHANGED <<queue, chans, durable>>
    <3>1. pc' = "join" /\ UNCHANGED <<srcSignals, sigState, ckpt, sigOffset>>
      BY <2>1 DEF PipelineFails, sourceTask, chans, durable
    <3>2. SignalBooked'
      BY <1>1, <3>1 DEF SignalBooked, SignalsSurvive, Resnapshot, SnapshotOpen
    <3> QED
      BY <3>1, <3>2, SignalsEnd DEF Early, Active
  <2>2. CASE ~(PipelineFails("ackClosed") /\ UNCHANGED <<queue, chans, durable>>)
    <3>1. /\ UNCHANGED <<snapDone, connState, source, durable>> /\ sigacks' = {}
          /\ sigState' = IF sigacks # {} /\ sigState = "taken" THEN "acked" ELSE sigState
          /\ pc' \in {"flush", "select"}
      BY <1>6, <2>2 DEF Acknowledge, Goto
    <3>2. UNCHANGED <<srcSignals, ckpt, sigOffset, srcNext, Transit>>
      BY <3>1 DEF source, durable, Transit
    <3>3. sigacks # {} => sigOffset + 1 \in ckpt.state
      BY <1>1, <1>6 DEF Acknowledge, BatchSignals, NewCheckpoint
    <3>4. SignalBooked'
      BY <1>1, <3>1, <3>2, <3>3 DEF SignalBooked, SignalsSurvive, Resnapshot, SnapshotOpen
    <3>5. BatchSignals' /\ SnapshotFirst' /\ EarlySignals'
      BY <1>1, <3>1, <3>2 DEF BatchSignals, SnapshotFirst, EarlySignals, Early
    <3>6. TransitSignals'
      BY <1>1, <3>1, <3>2 DEF TransitSignals
    <3> QED
      BY <3>4, <3>5, <3>6 DEF SignalsFollowed
  <2> QED
    BY <2>1, <2>2
<1> QED
  BY <1>2, <1>3, <1>4, <1>5, <1>6 DEF Pipeline

LEMMA SignalsChannel == TypeOK /\ SignalsFollowed /\ SignalChannel => SignalsFollowed'
<1> SUFFICES ASSUME TypeOK, SignalsFollowed, SignalChannel PROVE SignalsFollowed'
  OBVIOUS
<1>1. /\ UNCHANGED <<coord, batch, source, ckpt>>
      /\ \/ UNCHANGED sigOffset /\ (sigState' = "off" \/ (sigState = "idle" /\ sigState' = "sent"))
         \/ sigState = "acked" /\ sigState' = "idle" /\ sigOffset' = sigOffset + 1
  BY DEF SignalChannel, SendSignal, CommitSignal, SignalChannelEnds, durable
<1>2. UNCHANGED <<pc, srcState, srcNext, srcSignals, sigacks, connState, snapDone, Transit>>
  BY <1>1 DEF coord, batch, source, Transit
<1>3. SignalBooked /\ sigOffset \in Nat
  BY DEF SignalsFollowed, TypeOK, DurableType
<1>4. SignalBooked' /\ EarlySignals'
  BY <1>1, <1>2, <1>3 DEF SignalBooked, SignalsSurvive, Resnapshot, SnapshotOpen, SignalsFollowed,
                          EarlySignals
<1>5. ASSUME pc \in Active PROVE BatchSignals' /\ TransitSignals' /\ SnapshotFirst'
  <2>1. BatchSignals /\ TransitSignals /\ SnapshotFirst
    BY <1>5 DEF SignalsFollowed
  <2>2. BatchSignals'
    BY <1>1, <1>2, <2>1 DEF BatchSignals, NewCheckpoint, batch
  <2>3. TransitSignals' /\ SnapshotFirst'
    BY <1>1, <1>2, <2>1 DEF TransitSignals, SnapshotFirst
  <2> QED
    BY <2>2, <2>3
<1> QED
  BY <1>2, <1>4, <1>5 DEF SignalsFollowed

LEMMA SignalsStep == TypeOK /\ SignalsFollowed /\ [Next]_vars => SignalsFollowed'
<1> SUFFICES ASSUME TypeOK, SignalsFollowed, [Next]_vars PROVE SignalsFollowed'
  OBVIOUS
<1>1. CASE Retry
  <2>1. UNCHANGED <<batch, source, chans, durable>> /\ UNCHANGED srcState
    BY <1>1 DEF Retry, Backoff, source
  <2>2. UNCHANGED <<signals, highest>>
    BY <2>1 DEF signals, batch, source, chans, durable
  <2>3. \/ pc = "validateWait" /\ pc' = "validate"
        \/ pc = "writeWait" /\ pc' = "write"
        \/ pc = "flushWait" /\ pc' = "flush"
    BY <1>1 DEF Retry, Backoff
  <2>4. pc' \in Early => pc \in Early /\ srcState' = "off"
    BY <2>1, <2>3 DEF SignalsFollowed, EarlySignals, Early
  <2> QED
    BY <2>2, <2>3, <2>4, SignalsQuiet DEF Active
<1>2. CASE Shutdown
  <2>1. UNCHANGED <<signals, highest>>
    BY <1>2 DEF Shutdown, FlushSink, CancelBackoff, Join, JoinTimeout, Close, ScheduleRetry,
                PipelineFails, signals, batch, source, sourceTask, chans, durable
  <2>2. pc' \in {"join", "flushWait", "close", "done"} /\ (pc' = "flushWait" => pc = "flush")
    BY <1>2 DEF Shutdown, FlushSink, CancelBackoff, Join, JoinTimeout, Close, ScheduleRetry,
                PipelineFails
  <2> QED
    BY <2>1, <2>2, SignalsQuiet DEF Early, Active
<1>3. CASE Cancel \/ Idle \/ UNCHANGED vars
  <2>1. UNCHANGED <<signals, highest, pc, srcState>>
    BY <1>3 DEF Cancel, Idle, vars, signals, coord, batch, source, chans, durable
  <2>2. pc' \in Early => pc \in Early /\ srcState' = "off"
    BY <2>1 DEF SignalsFollowed, EarlySignals
  <2> QED
    BY <2>1, <2>2, SignalsQuiet
<1> QED
  BY <1>1, <1>2, <1>3, SignalsStartUp, SignalsSourceTask, SignalsPipeline, SignalsChannel,
     SignalsVolatile DEF Next, Crash, Restart

\* Control offsets follow checkpoints: for any number of signals, and whatever the
\* log, the failures and the crashes, the topic knows of no signal that the saved
\* connector state does not hold (flush_batch releases the acknowledgements last).
THEOREM SignalsKept == Spec => []SignalsSurvive
<1>1. SignalsFollowed => SignalsSurvive
  BY DEF SignalsFollowed, SignalBooked
<1> QED
  BY <1>1, SignalsInit, SignalsStep, TypeCorrect, PTL DEF Spec
=============================================================================
