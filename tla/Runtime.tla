------------------------------- MODULE Runtime --------------------------------
(***************************************************************************)
(* The delivery coordinator of rustium-core (runtime.rs): one source task, *)
(* one bounded channel, one coordinator that encodes, batches, writes to   *)
(* the sink, saves a checkpoint, publishes it to the source and releases   *)
(* signal acknowledgements; with retries, cancellation, shutdown, failures *)
(* and process crashes.                                                    *)
(*                                                                         *)
(* An await point of the code is a step boundary here: between two steps   *)
(* the source task, a cancellation, the signal channel or a crash may come *)
(* in.  pc is the await the coordinator stands at.                         *)
(***************************************************************************)
EXTENDS SourceLog, Integers, FiniteSets

CONSTANTS
    ChannelCapacity,  \* runtime.channel_capacity
    MaxBatchSize,     \* runtime.max_batch_size
    MaxRetries,       \* runtime.errors_max_retries, negative for no limit
    NSignals,         \* signals waiting in the external signal topic
    MaxFaults,        \* bound on failures and cancellations
    MaxCrashes        \* bound on process crashes

ASSUME RuntimeAssumption ==
    /\ ChannelCapacity \in Nat \ {0}
    /\ MaxBatchSize \in Nat \ {0}
    /\ MaxRetries \in Int
    /\ {NSignals, MaxFaults, MaxCrashes} \subseteq Nat

VARIABLES
    \* the coordinator
    pc, draining, attempts, err, status, reason,
    \* the pending batch and what is saved with it
    encoded, highest, sigacks, snapDone, connState,
    \* the source task and the bounded channel
    srcState, srcNext, srcLast, srcSignals, holding, queue, srcErr,
    \* the watch channel of saved positions, and the signal channel
    ackPos, sigState,
    \* what survives a crash
    delivered, ckpt, confirmed, sigOffset,
    \* cancellation token, first operational error, counters of the bounds
    cancelled, firstErr, faults, crashes

coord   == <<pc, draining, attempts, err, status, reason>>
batch   == <<encoded, highest, sigacks, snapDone, connState>>
source  == <<srcState, srcNext, srcLast, srcSignals, holding, queue, srcErr>>
chans   == <<ackPos, sigState>>
durable == <<delivered, ckpt, confirmed, sigOffset>>
env     == <<cancelled, firstErr, faults, crashes>>
vars    == <<coord, batch, source, chans, durable, env>>

\* How a stage, or the whole run, ends.
Outcome == {"ok", "none", "source", "sink", "state", "encode", "backwards", "ackClosed", "timeout"}

\* A SourceRecord in transit: entry i of the log, or (i = 0) the record that
\* checkpoints the state after signal sig.
Item == [i : {0} \cup DOMAIN Log, pos : Nat, sig : Nat, state : SUBSET Nat]

\* The source has sent everything up to the end of its snapshot.
SnapshotSent == \A i \in DOMAIN Log : Log[i].boundary = "SnapshotComplete" => i < srcNext

Operational(e) == IF firstErr = "none" THEN e ELSE firstErr

Fault == faults < MaxFaults /\ faults' = faults + 1

-----------------------------------------------------------------------------
(* Start of a process: runtime.rs run_inner up to the spawn of the source.  *)

Volatile ==
    /\ pc' = "boot" /\ status' = "Starting" /\ reason' = "none" /\ err' = "ok"
    /\ draining' = FALSE /\ attempts' = 0
    /\ encoded' = <<>> /\ highest' = 0 /\ sigacks' = {}
    /\ snapDone' = FALSE /\ connState' = {}
    /\ srcState' = "off" /\ srcNext' = 1 /\ srcLast' = 0 /\ srcSignals' = {}
    /\ holding' = <<>> /\ queue' = <<>> /\ srcErr' = "ok"
    /\ ackPos' = 0 /\ sigState' = "idle"
    /\ cancelled' = FALSE /\ firstErr' = "none"
    /\ UNCHANGED durable

\* kill -9, a power failure, or a panic; a supervisor starts a new process.
Crash ==
    /\ crashes < MaxCrashes /\ crashes' = crashes + 1
    /\ Volatile /\ UNCHANGED faults

Restart ==
    /\ pc = "done"
    /\ Volatile /\ UNCHANGED <<faults, crashes>>

\* An error before the pipeline returns from run_inner at once.
ReturnEarly(e) ==
    /\ pc' = "done" /\ status' = "Failed" /\ reason' = e
    /\ firstErr' = Operational(e)
    /\ UNCHANGED <<draining, attempts, err, batch, source, chans, durable, cancelled, crashes>>

ValidateSource ==
    /\ pc = "boot"
    /\ \/ /\ pc' = "validate"
          /\ UNCHANGED <<draining, attempts, err, status, reason, batch, source, chans, durable, env>>
       \/ Fault /\ ReturnEarly("source")

Goto(next) ==
    /\ pc' = next /\ attempts' = 0
    /\ UNCHANGED <<draining, err, status, reason>>

RetryLeft == MaxRetries < 0 \/ attempts < MaxRetries

\* wait_for_sink_retry: another attempt is scheduled while some are left.
ScheduleRetry(wait) ==
    /\ RetryLeft
    /\ attempts' = IF MaxRetries < 0 THEN attempts ELSE attempts + 1
    /\ pc' = wait
    /\ UNCHANGED <<draining, err, status, reason, batch, source, chans, cancelled, firstErr, crashes>>

\* The backoff is over: try the same operation again.
Backoff(wait, again) ==
    /\ pc = wait
    /\ pc' = again
    /\ UNCHANGED <<draining, attempts, err, status, reason, batch, source, chans, durable, env>>

ValidateSink ==
    /\ pc = "validate"
    /\ \/ Goto("load") /\ UNCHANGED <<batch, source, chans, durable, env>>
       \/ Fault /\ ScheduleRetry("validateWait") /\ UNCHANGED durable
       \/ Fault /\ ReturnEarly("sink")

\* Err(Cancelled) before the pipeline leaves run without a status transition.
CancelValidate ==
    /\ pc = "validateWait" /\ cancelled
    /\ pc' = "done"
    /\ UNCHANGED <<draining, attempts, err, status, reason, batch, source, chans, durable, env>>

Resnapshot == SnapshotOpen(ckpt)

\* Loads the checkpoint, seeds the watch channel with it and spawns the source;
\* a store error or a foreign fingerprint returns.
LoadAndSpawn ==
    /\ pc = "load"
    /\ \/ /\ pc' = "select" /\ attempts' = 0 /\ status' = "Streaming"
          /\ snapDone' = ckpt.snap /\ connState' = ckpt.state /\ ackPos' = ckpt.pos
          /\ srcState' = "running"
          /\ \/ /\ Resnapshot
                /\ srcNext' = 1 /\ srcLast' = 0 /\ srcSignals' = {} /\ confirmed' = 0
             \/ /\ ~Resnapshot
                /\ srcNext' \in 1 .. Len(Log) + 1 /\ ResumeIndex(srcNext', ckpt.pos)
                /\ srcLast' = ckpt.pos /\ srcSignals' = ckpt.state /\ UNCHANGED confirmed
          /\ UNCHANGED <<draining, err, reason, encoded, highest, sigacks, holding, queue,
                         srcErr, sigState, delivered, ckpt, sigOffset, env>>
       \/ Fault /\ ReturnEarly("state")

-----------------------------------------------------------------------------
(* The source task.  A send waits for room and is not raced against the     *)
(* cancellation token; everything else the source waits for is.             *)

Blocked == holding # <<>> /\ Len(queue) = ChannelCapacity

srcRest == <<coord, batch, ackPos, durable, env>>

\* The connector makes its next record and starts to send it.
Produce ==
    /\ srcState = "running" /\ holding = <<>> /\ srcNext <= Len(Log)
    /\ holding' = <<[i |-> srcNext, pos |-> Log[srcNext].pos, sig |-> 0, state |-> {}]>>
    /\ srcNext' = srcNext + 1
    /\ srcLast' = Log[srcNext].pos
    /\ UNCHANGED <<srcRest, srcState, srcSignals, queue, srcErr, sigState>>

\* Faulty variant: an unbounded channel.
EnqueueUnbounded ==
    /\ srcState = "running" /\ holding # <<>>
    /\ queue' = Append(queue, holding[1]) /\ holding' = <<>>
    /\ UNCHANGED <<srcRest, srcState, srcNext, srcLast, srcSignals, srcErr, sigState>>

Enqueue ==
    /\ srcState = "running" /\ holding # <<>> /\ Len(queue) < ChannelCapacity
    /\ queue' = Append(queue, holding[1]) /\ holding' = <<>>
    /\ UNCHANGED <<srcRest, srcState, srcNext, srcLast, srcSignals, srcErr, sigState>>

BetweenTransactions == srcNext > 1 => Log[srcNext - 1].boundary # "Data"

\* Faulty variant: the acknowledgement of a signal that changes nothing is lost.
AfterSignalNoAck(s) == "taken"

\* Whether the acknowledgement is released at once or travels with a record.
AfterSignal(s) == IF s \in srcSignals THEN "acked" ELSE "taken"

\* A signal changes the connector state, which goes out as a record of its own
\* at the last position, with the acknowledgement attached; a signal that
\* changes nothing is acknowledged at once.
TakeSignal ==
    LET s == sigOffset + 1 IN
    /\ srcState = "running" /\ holding = <<>> /\ sigState = "sent"
    /\ SnapshotSent /\ BetweenTransactions /\ srcLast > 0
    /\ sigState' = AfterSignal(s)
    /\ \/ s \in srcSignals /\ UNCHANGED <<srcSignals, holding>>
       \/ /\ s \notin srcSignals
          /\ srcSignals' = srcSignals \cup {s}
          /\ holding' = <<[i |-> 0, pos |-> srcLast, sig |-> s, state |-> srcSignals']>>
    /\ UNCHANGED <<srcRest, srcState, srcNext, srcLast, queue, srcErr>>

\* The streaming loop reads the watch channel and confirms the saved position
\* to the source protocol.
ConfirmToSource ==
    /\ srcState = "running" /\ holding = <<>> /\ SnapshotSent
    /\ confirmed # ackPos /\ confirmed' = ackPos
    /\ UNCHANGED <<coord, batch, source, chans, delivered, ckpt, sigOffset, env>>

\* The task returns and drops its ends of all channels.  The snapshot does not
\* look at the cancellation token.
SourceReturns ==
    /\ srcState = "running" /\ holding = <<>>
    /\ srcState' = "returned"
    /\ \/ cancelled /\ SnapshotSent /\ UNCHANGED <<srcErr, firstErr, faults>>
       \/ Fault /\ srcErr' = "source" /\ firstErr' = Operational("source")
    /\ UNCHANGED <<coord, batch, srcNext, srcLast, srcSignals, holding, queue, chans,
                   durable, cancelled, crashes>>

-----------------------------------------------------------------------------
(* The coordinator: the loop of run_inner, consume_record and flush_batch.  *)

sourceTask == <<srcState, srcNext, srcLast, srcSignals, holding, srcErr>>

\* Faulty variant: the position is saved without the batch it covers.
FlushFromSaveOnly(enc, high, drain) ==
    IF high = 0 THEN IF drain THEN "flush" ELSE "select" ELSE "save"

\* Where flush_batch goes first: nothing pending, only a position, or a batch.
FlushFrom(enc, high, drain) ==
    IF high = 0 THEN IF drain THEN "flush" ELSE "select"
    ELSE IF enc = <<>> THEN "save" ELSE "write"

\* An error leaves the loop; what is pending is dropped with it.
PipelineFails(e) ==
    /\ pc' = "join" /\ err' = e /\ cancelled' = TRUE
    /\ UNCHANGED <<draining, attempts, status, reason, batch, sourceTask, crashes>>

Tick ==
    /\ pc = "select" /\ highest # 0
    /\ Goto(FlushFrom(encoded, highest, FALSE))
    /\ UNCHANGED <<batch, source, chans, durable, env>>

\* Cancellation, or the channel is closed and drained: one last flush.
LeaveLoop ==
    /\ pc = "select"
    /\ cancelled \/ (srcState = "returned" /\ queue = <<>>)
    /\ draining' = TRUE
    /\ pc' = FlushFrom(encoded, highest, TRUE)
    /\ UNCHANGED <<attempts, err, status, reason, batch, source, chans, durable, env>>

BoundaryOf(r) == IF r.i = 0 THEN "TransactionCommit" ELSE Log[r.i].boundary

ForcesFlush(b, enc) ==
    \/ b \in {"SnapshotComplete", "TransactionCommit"}
    \/ b = "Data" /\ Len(enc) >= MaxBatchSize
    \/ b = "Heartbeat" /\ enc = <<>>

Regressed(r) == highest # 0 /\ r.pos < highest

Consume(r) ==
    LET b == BoundaryOf(r)
        snapshotRow == r.i # 0 /\ Log[r.i].snap
    IN  /\ encoded' = IF r.i = 0 THEN encoded ELSE encoded \o Encode(r.i)
        /\ highest' = r.pos
        /\ sigacks' = IF r.sig = 0 THEN sigacks ELSE sigacks \cup {r.sig}
        /\ connState' = IF r.sig = 0 THEN connState ELSE r.state
        /\ snapDone' = (snapDone \/ b = "SnapshotComplete")
        /\ status' = IF b = "SnapshotComplete" THEN "Streaming"
                     ELSE IF snapshotRow THEN "Snapshotting" ELSE status
        /\ pc' = IF ForcesFlush(b, encoded') THEN FlushFrom(encoded', r.pos, FALSE) ELSE "select"
        /\ attempts' = 0
        /\ UNCHANGED <<draining, err, reason, chans, durable, env>>

Receive ==
    /\ pc = "select" /\ queue # <<>>
    /\ queue' = Tail(queue) /\ UNCHANGED sourceTask
    /\ LET r == Head(queue) IN
       \/ ~Regressed(r) /\ Consume(r)
       \/ /\ Regressed(r) /\ PipelineFails("backwards")
          /\ firstErr' = Operational("backwards") /\ UNCHANGED <<chans, durable, faults>>
       \/ /\ ~Regressed(r) /\ r.i # 0 /\ Log[r.i].outs > 0
          /\ Fault /\ PipelineFails("encode")
          /\ firstErr' = Operational("encode") /\ UNCHANGED <<chans, durable>>

\* Faulty variant: the messages of a batch are sent in any order.
LastOf(k) == {encoded[n] : n \in Len(encoded) + 1 - k .. Len(encoded)}

\* The sink takes the messages of a batch one after another; a failed write
\* leaves a prefix behind, and a retry writes the whole batch again.
FirstOf(k) == {encoded[n] : n \in 1 .. k}

Write ==
    /\ pc = "write" /\ UNCHANGED <<ckpt, confirmed, sigOffset>>
    /\ \/ /\ delivered' = delivered \cup FirstOf(Len(encoded))
          /\ Goto("save") /\ UNCHANGED <<batch, source, chans, env>>
       \/ \E k \in 0 .. Len(encoded) :
             /\ Fault /\ delivered' = delivered \cup FirstOf(k)
             /\ \/ ScheduleRetry("writeWait")
                \/ /\ PipelineFails("sink") /\ firstErr' = Operational("sink")
                   /\ UNCHANGED <<queue, chans>>

\* Faulty variant: the connector state is not saved with its position.
CheckpointWithoutState == [pos |-> highest, snap |-> snapDone, state |-> ckpt.state]

NewCheckpoint == [pos |-> highest, snap |-> snapDone, state |-> connState]

\* A save that reports an error may or may not have committed.
Save ==
    /\ pc = "save" /\ UNCHANGED <<delivered, confirmed, sigOffset>>
    /\ \/ /\ ckpt' = NewCheckpoint
          /\ Goto("ack") /\ UNCHANGED <<batch, source, chans, env>>
       \/ /\ Fault /\ ckpt' \in {ckpt, NewCheckpoint}
          /\ PipelineFails("state") /\ firstErr' = Operational("state")
          /\ UNCHANGED <<queue, chans>>

\* Publishing fails when the source task is gone and its receiver with it; the
\* signal acknowledgements are then dropped.
Acknowledge ==
    /\ pc = "ack"
    /\ \/ /\ srcState # "returned" /\ ackPos' = highest
          /\ sigState' = IF sigacks # {} /\ sigState = "taken" THEN "acked" ELSE sigState
          /\ encoded' = <<>> /\ highest' = 0 /\ sigacks' = {}
          /\ Goto(IF draining THEN "flush" ELSE "select")
          /\ UNCHANGED <<snapDone, connState, source, durable, env>>
       \/ /\ srcState = "returned" /\ PipelineFails("ackClosed")
          /\ UNCHANGED <<queue, chans, durable, firstErr, faults>>

-----------------------------------------------------------------------------
(* Shutdown: the end of run_inner.                                          *)

\* flush_sink_with_retry after the last batch.
FlushSink ==
    /\ pc = "flush"
    /\ \/ /\ pc' = "join" /\ status' = "Stopping" /\ cancelled' = TRUE
          /\ UNCHANGED <<draining, attempts, err, reason, batch, source, chans, durable,
                         firstErr, faults, crashes>>
       \/ Fault /\ ScheduleRetry("flushWait") /\ UNCHANGED durable
       \/ /\ Fault /\ PipelineFails("sink") /\ firstErr' = Operational("sink")
          /\ UNCHANGED <<queue, chans, durable>>

\* Cancellation interrupts a backoff; the pipeline then counts as successful.
CancelBackoff ==
    /\ pc \in {"writeWait", "flushWait"} /\ cancelled
    /\ pc' = "join" /\ status' = "Stopping"
    /\ UNCHANGED <<draining, attempts, err, reason, batch, source, chans, durable, env>>

\* Faulty variant: the source is awaited without a timeout.
JoinForever == FALSE

\* The source gets shutdown_timeout to return; a source that waits for room in
\* a channel nobody reads, or that is slow, is aborted.
Join ==
    /\ pc = "join" /\ srcState = "returned"
    /\ pc' = "close"
    /\ UNCHANGED <<draining, attempts, err, status, reason, batch, source, chans, durable, env>>

JoinTimeout ==
    /\ pc = "join" /\ srcState = "running"
    /\ srcState' = "returned" /\ srcErr' = "timeout" /\ pc' = "close"
    /\ \/ Blocked /\ UNCHANGED <<firstErr, faults>>
       \/ Fault /\ firstErr' = Operational("timeout")
    /\ UNCHANGED <<draining, attempts, err, status, reason, batch, srcNext, srcLast,
                   srcSignals, holding, queue, chans, durable, cancelled, crashes>>

\* Faulty variant: only the result of the pipeline is looked at.
PipelineErrorOnly(pipeline, task, shutdown) == pipeline

FirstError(pipeline, task, shutdown) ==
    IF pipeline # "ok" THEN pipeline ELSE IF task # "ok" THEN task ELSE shutdown

\* Sink::shutdown runs on every path; then the errors are reported in the order
\* pipeline, source, sink.
Close ==
    /\ pc = "close" /\ pc' = "done"
    /\ \E shutdownErr \in {"ok", "sink"} :
          /\ \/ shutdownErr = "ok" /\ UNCHANGED <<firstErr, faults>>
             \/ shutdownErr = "sink" /\ Fault /\ firstErr' = Operational("sink")
          /\ LET e == FirstError(err, srcErr, shutdownErr) IN
                IF e = "ok" THEN status' = "Stopped" /\ reason' = "none"
                ELSE status' = "Failed" /\ reason' = e
    /\ UNCHANGED <<draining, attempts, err, batch, source, chans, durable, cancelled, crashes>>

\* SIGTERM, or the failure of the signal channel (Service.tla has who cancels what).
Cancel ==
    /\ pc # "done" /\ ~cancelled
    /\ Fault /\ cancelled' = TRUE
    /\ UNCHANGED <<coord, batch, source, chans, durable, firstErr, crashes>>

-----------------------------------------------------------------------------
(* The external signal channel (rustium-signal-kafka): one signal at a time *)
(* waits for its acknowledgement before its offset is committed.            *)

SendSignal ==
    /\ sigState = "idle" /\ pc # "done" /\ ~cancelled /\ sigOffset < NSignals
    /\ sigState' = "sent"
    /\ UNCHANGED <<coord, batch, source, ackPos, durable, env>>

CommitSignal ==
    /\ sigState = "acked"
    /\ sigState' = "idle" /\ sigOffset' = sigOffset + 1
    /\ UNCHANGED <<coord, batch, source, ackPos, delivered, ckpt, confirmed, env>>

\* The channel ends with the process, when the acknowledgement can no longer
\* come, or when committing fails; the last two cancel the process.
SignalChannelEnds ==
    /\ sigState # "off" /\ sigState' = "off" /\ cancelled' = TRUE
    /\ \/ cancelled /\ UNCHANGED faults
       \/ sigState = "sent" /\ srcState = "returned" /\ UNCHANGED faults
       \/ sigState = "acked" /\ Fault
    /\ UNCHANGED <<coord, batch, source, ackPos, durable, firstErr, crashes>>

-----------------------------------------------------------------------------
Init ==
    /\ pc = "boot" /\ status = "Starting" /\ reason = "none" /\ err = "ok"
    /\ draining = FALSE /\ attempts = 0
    /\ encoded = <<>> /\ highest = 0 /\ sigacks = {}
    /\ snapDone = FALSE /\ connState = {}
    /\ srcState = "off" /\ srcNext = 1 /\ srcLast = 0 /\ srcSignals = {}
    /\ holding = <<>> /\ queue = <<>> /\ srcErr = "ok"
    /\ ackPos = 0 /\ sigState = "idle"
    /\ delivered = {} /\ ckpt = [pos |-> 0, snap |-> FALSE, state |-> {}]
    /\ confirmed = 0 /\ sigOffset = 0
    /\ cancelled = FALSE /\ firstErr = "none" /\ faults = 0 /\ crashes = 0

StartUp == ValidateSource \/ ValidateSink \/ CancelValidate \/ LoadAndSpawn
SourceTask == Produce \/ Enqueue \/ TakeSignal \/ ConfirmToSource \/ SourceReturns
Retry ==
    \/ Backoff("validateWait", "validate")
    \/ Backoff("writeWait", "write")
    \/ Backoff("flushWait", "flush")
Pipeline == Tick \/ LeaveLoop \/ Receive \/ Write \/ Save \/ Acknowledge
Shutdown == FlushSink \/ CancelBackoff \/ Join \/ JoinTimeout \/ Close
SignalChannel == SendSignal \/ CommitSignal \/ SignalChannelEnds

\* Nothing is left to do until the database or an operator does something.
Idle ==
    /\ pc = "select" /\ highest = 0 /\ queue = <<>> /\ ~cancelled
    /\ srcState = "running" /\ holding = <<>> /\ srcNext > Len(Log) /\ confirmed = ackPos
    /\ sigState = "idle" /\ sigOffset = NSignals
    /\ UNCHANGED vars

Next ==
    \/ StartUp \/ SourceTask \/ Retry \/ Pipeline \/ Shutdown \/ SignalChannel
    \/ Cancel \/ Crash \/ Restart \/ Idle

Spec == Init /\ [][Next]_vars

(***************************************************************************)
(* The tokio scheduler runs every task that can run, tokio::select! picks  *)
(* its ready branches at random, timers fire, the sink and the store       *)
(* answer, and a supervisor (the Helm chart's Deployment) restarts a       *)
(* process that ended.  Nothing is assumed of cancellations and crashes.   *)
(***************************************************************************)
Fairness ==
    /\ WF_vars(StartUp) /\ WF_vars(SourceTask) /\ WF_vars(Retry) /\ WF_vars(Pipeline)
    /\ WF_vars(Shutdown) /\ WF_vars(SignalChannel) /\ WF_vars(Restart)

FairSpec == Spec /\ Fairness

-----------------------------------------------------------------------------
(* Properties.                                                              *)

Checkpoints == [pos : Nat, snap : BOOLEAN, state : SUBSET Nat]

CoordType ==
    /\ pc \in {"boot", "validate", "validateWait", "load", "select", "write", "writeWait",
              "save", "ack", "flush", "flushWait", "join", "close", "done"}
    /\ draining \in BOOLEAN /\ attempts \in Nat /\ err \in Outcome /\ reason \in Outcome
    /\ status \in {"Starting", "Snapshotting", "Streaming", "Stopping", "Stopped", "Failed"}

BatchType ==
    /\ encoded \in Seq(AllOutputs) /\ highest \in Nat /\ sigacks \in SUBSET Nat
    /\ snapDone \in BOOLEAN /\ connState \in SUBSET Nat

SourceType ==
    /\ srcState \in {"off", "running", "returned"} /\ srcErr \in Outcome
    /\ srcNext \in 1 .. Len(Log) + 1 /\ srcLast \in Nat /\ srcSignals \in SUBSET Nat
    /\ holding \in Seq(Item) /\ Len(holding) <= 1
    /\ queue \in Seq(Item) /\ Len(queue) <= ChannelCapacity

ChannelType == ackPos \in Nat /\ sigState \in {"idle", "sent", "taken", "acked", "off"}

DurableType ==
    /\ delivered \in SUBSET AllOutputs /\ ckpt \in Checkpoints
    /\ confirmed \in Nat /\ sigOffset \in Nat

EnvType ==
    /\ cancelled \in BOOLEAN /\ firstErr \in Outcome /\ faults \in Nat /\ crashes \in Nat

\* Every variable has its type; the queue is at most as long as the channel
\* capacity of runtime.channel_capacity and a send in progress holds one record.
TypeOK == CoordType /\ BatchType /\ SourceType /\ ChannelType /\ DurableType /\ EnvType

\* No acknowledged data loss (flush_batch writes before it saves, over crashes,
\* retries, partial writes and restarts): a checkpoint covers only rows whose
\* messages the sink holds, all of them.
NoAcknowledgedDataLoss == Covers(delivered, ckpt.pos)

\* Control offsets follow checkpoints (flush_batch releases the acknowledgements
\* it drained only after save): a signal whose offset is committed in the topic
\* is part of the checkpointed connector state, whatever crashed in between.
SignalsSurvive == 1 .. sigOffset \subseteq ckpt.state

\* A process does not write a row again that the checkpoint it started from or
\* saved itself already covers (the resume position and the batch reset of
\* flush_batch), once the snapshot is complete.
NoStaleRedelivery ==
    (pc \in {"select", "write", "writeWait", "save"} /\ ckpt.snap) =>
        \A n \in DOMAIN encoded :
            Log[encoded[n][1]].row => Log[encoded[n][1]].pos > ckpt.pos

\* Visible failures: an operational error of any stage, even one met while the
\* runtime shuts down, ends with status Failed (the cleanup path of run_inner).
FailureVisible == (pc = "done" /\ firstErr # "none") => status = "Failed"

\* The runtime implements the promises of AtLeastOnce: order at the sink,
\* checkpoints that cover and never go back, and a source and a signal topic
\* that never know more than is safe (run_inner and flush_batch).
Promise == INSTANCE AtLeastOnce
             WITH delivered <- delivered, ckpt <- ckpt, confirmed <- confirmed, sigOffset <- sigOffset
PromiseKept == Promise!Spec

\* Every row reaches the sink, and a checkpoint comes to cover it, however the
\* bounded failures, cancellations and crashes fall (the loop of run_inner).
EveryRowCheckpointed == <>[](Covers(delivered, ckpt.pos) /\ RowsUpTo(ckpt.pos) = RowIndex)

\* A cancelled process ends (run_inner: no wait of the coordinator outlives the
\* cancellation, the source is aborted after shutdown_timeout).
CancelEnds == cancelled ~> (pc = "done" \/ ~cancelled)

\* The topic moves on: a signal sent to the connector is committed in the end
\* (send_and_wait of signal.rs returns once the checkpoint that holds it is saved).
SignalsCommitted == <>(sigOffset = NSignals)

(***************************************************************************)
(* Why no row is lost: the invariant that is inductive.                    *)
(***************************************************************************)
\* A process that has not spawned its source yet holds nothing.
Early  == {"boot", "validate", "validateWait", "load"}

\* The coordinator may still save a checkpoint.
Active == {"select", "write", "writeWait", "save", "ack", "flush", "flushWait"}

\* The records between the source and the coordinator, oldest first.
Transit == queue \o holding

IsRow(r) == r.i # 0 /\ Log[r.i].row

EarlyEmpty ==
    pc \in Early => srcState = "off" /\ Transit = <<>> /\ encoded = <<>> /\ highest = 0

\* A row the source has sent is at the sink, in the pending batch or in transit.
SentRows ==
    \A j \in RowIndex :
        j < srcNext =>
            \/ Outputs(j) \subseteq delivered \cup FirstOf(Len(encoded))
            \/ \E n \in 1 .. Len(Transit) : Transit[n].i = j

\* A row in transit is later than everything before it and than the batch.
TransitOrder ==
    \A n \in 1 .. Len(Transit) :
        /\ Transit[n].pos <= srcLast
        /\ Transit[n].i # 0 => Transit[n].pos = Log[Transit[n].i].pos
        /\ IsRow(Transit[n]) => /\ Transit[n].pos > highest
                                /\ \A k \in 1 .. n - 1 : Transit[k].pos < Transit[n].pos

\* What the source has not sent yet is later than what it has sent.
Ahead ==
    /\ highest <= srcLast
    /\ \A j \in DOMAIN Log :
          j >= srcNext => Log[j].pos >= srcLast /\ (Log[j].row => Log[j].pos > srcLast)

Written == pc \in {"save", "ack"} => FirstOf(Len(encoded)) \subseteq delivered

\* A row is never lost from sight between the source and the checkpoint, given a
\* log that is LogOrdered (the path of a record through run_inner).
RowsAccounted ==
    /\ NoAcknowledgedDataLoss
    /\ EarlyEmpty
    /\ pc \in Active => SentRows /\ TransitOrder /\ Ahead /\ Written

=============================================================================
