----------------------------- MODULE RuntimePromise -----------------------------
(***************************************************************************)
(* Proofs about Runtime: over a log that keeps the contract of a connector *)
(* it implements AtLeastOnce, and writes no row again that its checkpoint  *)
(* covers.  RowsAccounted and SignalsFollowed carry most of the weight;    *)
(* what is added here is the order of messages and of positions.           *)
(***************************************************************************)
EXTENDS RuntimeProofs

-----------------------------------------------------------------------------
\* Message a comes before message m.
Before(a, m) == a[1] < m[1] \/ (a[1] = m[1] /\ a[2] < m[2])

RowMessages == UNION {Outputs(i) : i \in RowIndex}

\* The entries of the log are in transit in the order of the log.
TransitIndexed ==
    \A n \in 1 .. Len(Transit) :
        /\ Transit[n].i < srcNext
        /\ Transit[n].i # 0 => \A k \in 1 .. n - 1 : Transit[k].i < Transit[n].i

\* What comes before a message of the batch is at the sink or further ahead in it.
BatchOrdered ==
    \A n \in 1 .. Len(encoded) :
        Log[encoded[n][1]].row =>
            \A a \in RowMessages : Before(a, encoded[n]) => a \in delivered \cup FirstOf(n - 1)

\* Nothing in transit is behind the batch, and records are in order of position.
TransitForward ==
    \A n \in 1 .. Len(Transit) :
        /\ highest <= Transit[n].pos
        /\ \A k \in 1 .. n - 1 : Transit[k].pos <= Transit[n].pos

SnapshotEnds == {j \in DOMAIN Log : Log[j].boundary = "SnapshotComplete"}

\* A checkpoint to come is not behind the last one, unless the snapshot is repeated;
\* the one that completes the snapshot is past its end.
BatchForward ==
    /\ pc \in {"write", "writeWait", "save", "ack"} => highest # 0
    /\ ~Resnapshot => /\ ckpt.pos <= srcLast
                      /\ highest # 0 => ckpt.pos <= highest
                      /\ \A n \in 1 .. Len(Transit) : ckpt.pos <= Transit[n].pos
    /\ Resnapshot /\ snapDone => highest # 0 /\ \E j \in SnapshotEnds : Log[j].pos <= highest

\* Rows that are still on their way are later than the checkpoint.
RowsFresh ==
    ~Resnapshot =>
        /\ pc # "ack" => \A n \in 1 .. Len(encoded) :
                            Log[encoded[n][1]].row => Log[encoded[n][1]].pos > ckpt.pos
        /\ \A n \in 1 .. Len(Transit) : IsRow(Transit[n]) => Transit[n].pos > ckpt.pos
        /\ \A j \in RowIndex : j >= srcNext => Log[j].pos > ckpt.pos

\* The position in the watch channel may be confirmed, now and after the next save.
AckSafe ==
    /\ Covers(delivered, ackPos)
    /\ Resnapshot \/ ackPos <= ckpt.pos
    /\ Resnapshot => \A j \in SnapshotEnds : ckpt.pos <= Log[j].pos /\ ackPos <= Log[j].pos

OrderKept ==
    /\ InOrder(delivered) /\ AckSafe
    /\ pc \in Active => TransitIndexed /\ BatchOrdered /\ TransitForward /\ BatchForward /\ RowsFresh

\* A set of messages is in order when it holds everything before a message of a row.
LEMMA InOrderClosed ==
    ASSUME NEW d, d \subseteq AllOutputs
    PROVE  InOrder(d) <=>
              \A m \in d : Log[m[1]].row => \A a \in RowMessages : Before(a, m) => a \in d
<1>1. ASSUME InOrder(d), NEW m \in d, Log[m[1]].row, NEW a \in RowMessages, Before(a, m)
      PROVE  a \in d
  <2>1. PICK j \in DOMAIN Log : \E l \in 1 .. Log[j].outs : m = <<j, l>>
    BY DEF AllOutputs, Outputs
  <2>2. PICK i \in RowIndex : \E k \in 1 .. Log[i].outs : a = <<i, k>>
    BY DEF RowMessages, Outputs
  <2>3. j \in RowIndex
    BY <1>1, <2>1 DEF RowIndex
  <2>4. CASE i < j
    <3>1. m \in Outputs(j) \cap d /\ a \in Outputs(i)
      BY <2>1, <2>2 DEF Outputs
    <3> QED
      BY <1>1, <2>3, <2>4, <3>1 DEF InOrder
  <2>5. CASE i = j /\ a[2] < m[2]
    BY <1>1, <2>1, <2>2, <2>3, <2>5 DEF InOrder
  <2> QED
    BY <1>1, <2>1, <2>2, <2>4, <2>5 DEF Before
<1>2. ASSUME \A m \in d : Log[m[1]].row => \A a \in RowMessages : Before(a, m) => a \in d
      PROVE  InOrder(d)
  <2> SUFFICES ASSUME NEW i \in RowIndex, NEW j \in RowIndex
               PROVE  /\ i < j /\ Outputs(j) \cap d # {} => Outputs(i) \subseteq d
                      /\ \A k, l \in 1 .. Log[i].outs : k < l /\ <<i, l>> \in d => <<i, k>> \in d
    BY DEF InOrder
  <2>1. ASSUME i < j, NEW m \in Outputs(j) \cap d, NEW a \in Outputs(i) PROVE a \in d
    <3>1. m[1] = j /\ a[1] = i /\ a \in RowMessages
      BY <2>1 DEF Outputs, RowMessages
    <3>2. Log[m[1]].row /\ Before(a, m)
      BY <2>1, <3>1 DEF Before, RowIndex
    <3> QED
      BY <1>2, <3>1, <3>2
  <2>2. ASSUME NEW k \in 1 .. Log[i].outs, NEW l \in 1 .. Log[i].outs, k < l, <<i, l>> \in d
        PROVE  <<i, k>> \in d
    <3>1. <<i, k>> \in RowMessages /\ Log[i].row /\ Before(<<i, k>>, <<i, l>>)
      BY <2>2 DEF Outputs, RowMessages, RowIndex, Before
    <3> QED
      BY <1>2, <2>2, <3>1
  <2> QED
    BY <2>1, <2>2
<1> QED
  BY <1>1, <1>2

ordered == <<rows, snapDone, ackPos>>

\* A step that moves no record and publishes nothing.
LEMMA OrderQuiet ==
    ASSUME OrderKept, UNCHANGED ordered,
           pc' \in Active => \/ pc' = pc
                             \/ pc \in Active \ {"ack"} /\ pc' # "ack"
                                /\ (pc' \in {"write", "writeWait", "save"} => highest # 0)
    PROVE  OrderKept'
<1>1. InOrder(delivered)' /\ AckSafe'
  BY DEF OrderKept, AckSafe, ordered, rows, Covers, Resnapshot, SnapshotOpen
<1>2. ASSUME pc' \in Active
      PROVE  TransitIndexed' /\ BatchOrdered' /\ TransitForward' /\ BatchForward' /\ RowsFresh'
  <2>1. TransitIndexed /\ BatchOrdered /\ TransitForward /\ BatchForward /\ RowsFresh
    BY <1>2 DEF OrderKept
  <2>2. Transit' = Transit /\ UNCHANGED rows /\ UNCHANGED snapDone
    BY DEF ordered, rows, Transit
  <2>3. TransitIndexed' /\ TransitForward'
    BY <2>1, <2>2 DEF TransitIndexed, TransitForward, rows
  <2>4. BatchOrdered'
    BY <2>1, <2>2 DEF BatchOrdered, rows, FirstOf
  <2>5. BatchForward'
    BY <1>2, <2>1, <2>2 DEF BatchForward, rows, Resnapshot, SnapshotOpen
  <2>6. RowsFresh'
    BY <1>2, <2>1, <2>2 DEF RowsFresh, rows, Resnapshot, SnapshotOpen, IsRow
  <2> QED
    BY <2>3, <2>4, <2>5, <2>6
<1> QED
  BY <1>1, <1>2 DEF OrderKept

\* A step after which nothing of this process can be saved any more.
LEMMA OrderEnds ==
    ASSUME InOrder(delivered)', AckSafe', pc' \notin Active
    PROVE  OrderKept'
BY DEF OrderKept

LEMMA OrderInit == Init => OrderKept
<1> SUFFICES ASSUME Init PROVE OrderKept
  OBVIOUS
<1>1. InOrder(delivered)
  BY DEF Init, InOrder
<1>2. AckSafe
  BY LogType DEF Init, AckSafe, Covers, RowsUpTo, RowIndex, SnapshotEnds
<1> QED
  BY <1>1, <1>2 DEF Init, OrderKept, Active

LEMMA OrderVolatile == TypeOK /\ OrderKept /\ Volatile => OrderKept'
<1> SUFFICES ASSUME TypeOK, OrderKept, Volatile PROVE OrderKept'
  OBVIOUS
<1>1. UNCHANGED <<delivered, ckpt>> /\ ackPos' = 0 /\ ckpt.pos \in Nat
  BY DEF Volatile, durable, TypeOK, DurableType, Checkpoints
<1>2. InOrder(delivered)'
  BY <1>1 DEF OrderKept
<1>3. Covers(delivered, ackPos)'
  BY <1>1, LogType DEF Covers, RowsUpTo, RowIndex
<1>4. AckSafe'
  BY <1>1, <1>3, LogType DEF OrderKept, AckSafe, Resnapshot, SnapshotOpen, SnapshotEnds
<1> QED
  BY <1>2, <1>4 DEF OrderKept, Volatile, Active

LEMMA OrderStartUp ==
    TypeOK /\ RowsAccounted /\ RowsAccounted' /\ OrderKept /\ StartUp => OrderKept'
<1> SUFFICES ASSUME TypeOK, RowsAccounted, RowsAccounted', OrderKept, StartUp PROVE OrderKept'
  OBVIOUS
<1>1. CASE ValidateSource \/ ValidateSink \/ CancelValidate \/ (LoadAndSpawn /\ pc' # "select")
  <2>1. UNCHANGED <<batch, source, chans, durable>> /\ pc' \notin Active
    BY <1>1 DEF ValidateSource, ValidateSink, CancelValidate, LoadAndSpawn, ReturnEarly,
                ScheduleRetry, Goto, Active
  <2>2. UNCHANGED ordered
    BY <2>1 DEF ordered, rows, batch, source, chans, durable
  <2> QED
    BY <2>1, <2>2, OrderQuiet
<1>2. ASSUME LoadAndSpawn, pc' = "select" PROVE OrderKept'
  <2>1. /\ UNCHANGED <<encoded, highest, holding, queue, delivered, ckpt>> /\ pc = "load"
        /\ snapDone' = ckpt.snap /\ ackPos' = ckpt.pos
    BY <1>2 DEF LoadAndSpawn, ReturnEarly
  <2>2. Transit' = <<>> /\ encoded' = <<>> /\ highest' = 0
    BY <2>1 DEF RowsAccounted, EarlyEmpty, Early, Transit
  <2>3. Len(Transit') = 0 /\ Len(encoded') = 0
    BY <2>2, EmptySeq
  <2>4. InOrder(delivered)'
    BY <2>1 DEF OrderKept
  <2>5. ckpt.pos \in Nat /\ Covers(delivered, ckpt.pos)
    BY DEF RowsAccounted, NoAcknowledgedDataLoss, TypeOK, DurableType, Checkpoints
  <2>6. AckSafe'
    BY <2>1, <2>5 DEF OrderKept, AckSafe, Covers, Resnapshot, SnapshotOpen
  <2>7. TransitIndexed' /\ BatchOrdered' /\ TransitForward'
    BY <2>3 DEF TransitIndexed, BatchOrdered, TransitForward
  <2>8. Resnapshot' = Resnapshot /\ (~Resnapshot => srcLast' = ckpt.pos)
    BY <1>2, <2>1 DEF LoadAndSpawn, ReturnEarly, Resnapshot, SnapshotOpen
  <2>9. BatchForward'
    BY <1>2, <2>1, <2>2, <2>3, <2>5, <2>8 DEF BatchForward, Resnapshot, SnapshotOpen
  <2>10. RowsFresh'
    <3>1. Ahead'
      BY <1>2 DEF RowsAccounted, Active
    <3>2. ~Resnapshot => \A j \in RowIndex : j >= srcNext' => Log[j].pos > ckpt'.pos
      BY <2>1, <2>8, <3>1 DEF Ahead, RowIndex
    <3>3. \A n \in 1 .. Len(encoded') : FALSE
      BY <2>3
    <3>4. \A n \in 1 .. Len(Transit') : FALSE
      BY <2>3
    <3> QED
      BY <2>8, <3>2, <3>3, <3>4 DEF RowsFresh
  <2> QED
    BY <2>4, <2>6, <2>7, <2>9, <2>10 DEF OrderKept
<1> QED
  BY <1>1, <1>2 DEF StartUp

\* A record joins the records in transit.
LEMMA OrderSent ==
    ASSUME TypeOK, TypeOK', RowsAccounted, OrderKept, pc \in Active, pc' = pc, NEW r \in Item,
           UNCHANGED <<encoded, highest, delivered, ckpt, snapDone, ackPos>>,
           Transit' = Append(Transit, r), r.pos = srcLast', srcLast' >= srcLast,
           \/ r.i = 0 /\ srcNext' = srcNext
           \/ r.i = srcNext /\ srcNext' = srcNext + 1 /\ r.i \in DOMAIN Log /\ r.pos = Log[r.i].pos
    PROVE  OrderKept'
<1>1. /\ TransitIndexed /\ BatchOrdered /\ TransitForward /\ BatchForward /\ RowsFresh
      /\ TransitOrder /\ Ahead
  BY DEF OrderKept, RowsAccounted
<1>2. /\ Transit \in Seq(Item) /\ Len(Transit) \in Nat /\ Len(Transit') = Len(Transit) + 1
      /\ \A n \in 1 .. Len(Transit) : Transit'[n] = Transit[n]
      /\ Transit'[Len(Transit) + 1] = r
  BY TransitType, AppendProperties DEF TypeOK
<1>3. /\ srcLast \in Nat /\ srcLast' \in Nat /\ highest \in Nat /\ srcNext \in Nat /\ srcNext' \in Nat
      /\ ckpt.pos \in Nat
      /\ \A n \in 1 .. Len(Transit) : Transit[n].pos \in Nat
  <2>1. \A n \in 1 .. Len(Transit) : Transit[n] \in Item
    BY <1>2, ElementOfSeq
  <2> QED
    BY <2>1, LogType DEF TypeOK, SourceType, BatchType, DurableType, Checkpoints, Item
<1>4. InOrder(delivered)' /\ AckSafe' /\ Resnapshot' = Resnapshot
  BY DEF OrderKept, AckSafe, Covers, Resnapshot, SnapshotOpen
<1>5. BatchOrdered'
  BY <1>1 DEF BatchOrdered, FirstOf
<1>6. ASSUME NEW n \in 1 .. Len(Transit')
      PROVE  \/ n \in 1 .. Len(Transit) /\ Transit'[n] = Transit[n]
             \/ n = Len(Transit) + 1 /\ Transit'[n] = r
  BY <1>2
<1>7. \A n \in 1 .. Len(Transit') : \A k \in 1 .. n - 1 : k \in 1 .. Len(Transit) /\ Transit'[k] = Transit[k]
  BY <1>2
<1>8. TransitIndexed'
  <2> SUFFICES ASSUME NEW n \in 1 .. Len(Transit')
               PROVE  /\ Transit'[n].i < srcNext'
                      /\ Transit'[n].i # 0 => \A k \in 1 .. n - 1 : Transit'[k].i < Transit'[n].i
    BY DEF TransitIndexed
  <2>1. CASE n \in 1 .. Len(Transit) /\ Transit'[n] = Transit[n]
    <3>1. Transit[n].i \in {0} \cup DOMAIN Log
      BY <1>2, <2>1, ElementOfSeq DEF Item
    <3>2. Transit[n].i \in Nat
      BY <3>1, LogType
    <3>3. Transit[n].i < srcNext'
      BY <1>1, <1>3, <2>1, <3>2 DEF TransitIndexed
    <3> QED
      BY <1>1, <1>7, <2>1, <3>3 DEF TransitIndexed
  <2>2. CASE n = Len(Transit) + 1 /\ Transit'[n] = r
    <3>1. \A k \in 1 .. n - 1 : Transit'[k].i < srcNext
      BY <1>1, <1>7 DEF TransitIndexed
    <3>2. r.i < srcNext' /\ (r.i # 0 => r.i = srcNext)
      BY <1>3, LogType DEF TypeOK, SourceType
    <3> QED
      BY <2>2, <3>1, <3>2
  <2> QED
    BY <1>6, <2>1, <2>2
<1>9. TransitForward'
  <2> SUFFICES ASSUME NEW n \in 1 .. Len(Transit')
               PROVE  /\ highest <= Transit'[n].pos
                      /\ \A k \in 1 .. n - 1 : Transit'[k].pos <= Transit'[n].pos
    BY DEF TransitForward
  <2>1. CASE n \in 1 .. Len(Transit) /\ Transit'[n] = Transit[n]
    BY <1>1, <1>7, <2>1 DEF TransitForward
  <2>2. CASE n = Len(Transit) + 1 /\ Transit'[n] = r
    <3>1. \A k \in 1 .. n - 1 : Transit'[k].pos <= srcLast /\ Transit'[k].pos \in Nat
      BY <1>1, <1>3, <1>7 DEF TransitOrder
    <3>2. highest <= srcLast
      BY <1>1 DEF Ahead
    <3> QED
      BY <1>3, <2>2, <3>1, <3>2
  <2> QED
    BY <1>6, <2>1, <2>2
<1>10. ~Resnapshot => /\ ckpt.pos <= srcLast'
                      /\ \A n \in 1 .. Len(Transit') : ckpt.pos <= Transit'[n].pos
  BY <1>1, <1>3, <1>6 DEF BatchForward
<1>11. BatchForward'
  BY <1>1, <1>4, <1>10 DEF BatchForward
<1>12. RowsFresh'
  <2>1. ~Resnapshot /\ IsRow(r) => r.pos > ckpt.pos
    BY <1>1, <1>3 DEF RowsFresh, IsRow, RowIndex
  <2>2. ~Resnapshot => \A n \in 1 .. Len(Transit') : IsRow(Transit'[n]) => Transit'[n].pos > ckpt.pos
    BY <1>1, <1>6, <2>1 DEF RowsFresh
  <2>3. ~Resnapshot => \A j \in RowIndex : j >= srcNext' => Log[j].pos > ckpt.pos
    BY <1>1, <1>3, LogType DEF RowsFresh, RowIndex
  <2> QED
    BY <1>1, <1>4, <2>2, <2>3 DEF RowsFresh, IsRow
<1> QED
  BY <1>4, <1>5, <1>8, <1>9, <1>11, <1>12 DEF OrderKept

LEMMA OrderSourceTask ==
    TypeOK /\ TypeOK' /\ RowsAccounted /\ OrderKept /\ SourceTask => OrderKept'
<1> SUFFICES ASSUME TypeOK, TypeOK', RowsAccounted, OrderKept, SourceTask PROVE OrderKept'
  OBVIOUS
<1>1. /\ srcState = "running" /\ pc' = pc
      /\ UNCHANGED <<encoded, highest, delivered, ckpt, snapDone, ackPos>>
  BY DEF SourceTask, Produce, Enqueue, TakeSignal, ConfirmToSource, SourceReturns, srcRest, coord,
         batch, durable, chans
<1>2. SourceType
  BY DEF TypeOK
<1>3. InOrder(delivered)' /\ AckSafe'
  BY <1>1 DEF OrderKept, AckSafe, Covers, Resnapshot, SnapshotOpen
<1>4. CASE pc \notin Active
  BY <1>1, <1>3, <1>4, OrderEnds
<1>5. ASSUME Produce, pc \in Active PROVE OrderKept'
  <2> DEFINE r == [i |-> srcNext, pos |-> Log[srcNext].pos, sig |-> 0, state |-> {}]
  <2>1. srcNext \in DOMAIN Log /\ srcNext' = srcNext + 1 /\ srcLast' = Log[srcNext].pos
    BY <1>2, <1>5, LogType DEF Produce, SourceType
  <2>2. r \in Item
    BY <2>1, LogType DEF Item
  <2>3. Transit' = Append(Transit, r)
    BY <1>2, <1>5, <2>2, TransitSent DEF Produce
  <2>4. srcLast' >= srcLast
    <3>1. Ahead
      BY <1>5 DEF RowsAccounted
    <3>2. srcNext >= srcNext
      BY <2>1, LogType
    <3> QED
      BY <2>1, <3>1, <3>2 DEF Ahead
  <2> QED
    BY <1>1, <1>5, <2>1, <2>2, <2>3, <2>4, OrderSent
<1>6. ASSUME TakeSignal, pc \in Active, ~UNCHANGED <<srcSignals, holding>> PROVE OrderKept'
  <2> DEFINE r == [i |-> 0, pos |-> srcLast, sig |-> sigOffset + 1, state |-> srcSignals']
  <2>1. UNCHANGED <<srcNext, srcLast, queue>> /\ holding = <<>> /\ holding' = <<r>>
    BY <1>6 DEF TakeSignal
  <2>2. srcLast \in Nat /\ sigOffset + 1 \in Nat /\ srcSignals' \in SUBSET Nat
    BY DEF TypeOK, SourceType, DurableType
  <2>3. r \in Item
    BY <2>2 DEF Item
  <2>4. Transit' = Append(Transit, r)
    BY <1>2, <2>1, <2>3, TransitSent
  <2>5. r.pos = srcLast' /\ srcLast' >= srcLast /\ r.i = 0 /\ srcNext' = srcNext
    BY <2>1, <2>2
  <2> QED
    BY <1>1, <1>6, <2>3, <2>4, <2>5, OrderSent
<1>7. ASSUME Enqueue, pc \in Active PROVE OrderKept'
  <2>1. Transit' = Transit /\ UNCHANGED <<srcNext, srcLast>>
    BY <1>2, <1>7, TransitQueued DEF Enqueue
  <2>2. TransitIndexed /\ BatchOrdered /\ TransitForward /\ BatchForward /\ RowsFresh
    BY <1>7 DEF OrderKept
  <2>3. TransitIndexed' /\ BatchOrdered' /\ TransitForward'
    BY <1>1, <2>1, <2>2 DEF TransitIndexed, BatchOrdered, TransitForward, FirstOf
  <2>4. BatchForward' /\ RowsFresh'
    BY <1>1, <2>1, <2>2 DEF BatchForward, RowsFresh, Resnapshot, SnapshotOpen, IsRow
  <2> QED
    BY <1>3, <2>3, <2>4 DEF OrderKept
<1>8. ASSUME TakeSignal, UNCHANGED <<srcSignals, holding>> PROVE OrderKept'
  <2>1. UNCHANGED ordered
    BY <1>1, <1>8 DEF TakeSignal, ordered, rows
  <2> QED
    BY <1>1, <2>1, OrderQuiet
<1>9. ASSUME ConfirmToSource \/ SourceReturns PROVE OrderKept'
  <2>1. UNCHANGED ordered
    BY <1>1, <1>9 DEF ConfirmToSource, SourceReturns, batch, source, ordered, rows
  <2> QED
    BY <1>1, <2>1, OrderQuiet
<1> QED
  BY <1>4, <1>5, <1>6, <1>7, <1>8, <1>9 DEF SourceTask

\* What the batch holds after a record is added to it.
LEMMA BatchGrows ==
    ASSUME TypeOK, NEW i \in DOMAIN Log, encoded' = encoded \o Encode(i)
    PROVE  /\ Len(encoded) \in Nat /\ Len(encoded') = Len(encoded) + Log[i].outs /\ Log[i].outs \in Nat
           /\ \A n \in 1 .. Len(encoded) : encoded'[n] = encoded[n]
           /\ \A k \in 1 .. Log[i].outs : encoded'[Len(encoded) + k] = <<i, k>>
           /\ \A n \in 1 .. Len(encoded') :
                 n \in 1 .. Len(encoded) \/ \E k \in 1 .. Log[i].outs : n = Len(encoded) + k
<1>1. /\ encoded \in Seq(AllOutputs) /\ Encode(i) \in Seq(AllOutputs)
      /\ Len(encoded) \in Nat /\ Len(Encode(i)) = Log[i].outs /\ Log[i].outs \in Nat
  BY EncodeType, LogType, LenProperties DEF TypeOK, BatchType
<1>2. /\ Len(encoded') = Len(encoded) + Log[i].outs
      /\ \A n \in 1 .. Len(encoded) : encoded'[n] = encoded[n]
      /\ \A k \in 1 .. Log[i].outs : encoded'[Len(encoded) + k] = Encode(i)[k]
  <2>1. /\ Len(encoded') = Len(encoded) + Log[i].outs
        /\ \A n \in 1 .. Len(encoded) + Len(Encode(i)) :
              encoded'[n] = IF n <= Len(encoded) THEN encoded[n] ELSE Encode(i)[n - Len(encoded)]
    BY <1>1, ConcatProperties
  <2>2. \A n \in 1 .. Len(encoded) : n \in 1 .. Len(encoded) + Len(Encode(i)) /\ n <= Len(encoded)
    BY <1>1
  <2>3. \A k \in 1 .. Log[i].outs :
           /\ Len(encoded) + k \in 1 .. Len(encoded) + Len(Encode(i))
           /\ ~(Len(encoded) + k <= Len(encoded)) /\ Len(encoded) + k - Len(encoded) = k
    BY <1>1
  <2> QED
    BY <2>1, <2>2, <2>3
<1>3. ASSUME NEW n \in 1 .. Len(encoded'), n \notin 1 .. Len(encoded)
      PROVE  \E k \in 1 .. Log[i].outs : n = Len(encoded) + k
  <2>1. n - Len(encoded) \in 1 .. Log[i].outs /\ n = Len(encoded) + (n - Len(encoded))
    BY <1>1, <1>2, <1>3
  <2> QED
    BY <2>1
<1> QED
  BY <1>1, <1>2, <1>3, EncodeType

\* A record moves into the batch, and its row behind everything that comes before it.
LEMMA OrderConsumed ==
    ASSUME TypeOK, TypeOK', RowsAccounted, OrderKept, pc = "select", queue # <<>>,
           queue' = Tail(queue), UNCHANGED sourceTask, Consume(Head(queue))
    PROVE  OrderKept'
<1> DEFINE r == Head(queue)
<1>1. /\ TransitIndexed /\ BatchOrdered /\ TransitForward /\ BatchForward /\ RowsFresh
      /\ SentRows /\ TransitOrder
  BY DEF OrderKept, RowsAccounted, Active
<1>2. UNCHANGED <<srcNext, srcLast, holding, delivered, ckpt, ackPos>>
  BY DEF Consume, sourceTask, durable, chans
<1>3. /\ Transit \in Seq(Item) /\ Len(Transit) \in Nat /\ Len(Transit) >= 1
      /\ Len(Transit') = Len(Transit) - 1 /\ r = Transit[1] /\ r \in Item /\ 1 \in 1 .. Len(Transit)
      /\ \A n \in 1 .. Len(Transit') : n + 1 \in 1 .. Len(Transit) /\ Transit'[n] = Transit[n + 1]
  BY <1>2, TransitType, TransitReceived, TypeQueue, EmptySeq DEF TypeOK
<1>4. /\ encoded' = (IF r.i = 0 THEN encoded ELSE encoded \o Encode(r.i)) /\ highest' = r.pos
      /\ snapDone' = (snapDone \/ BoundaryOf(r) = "SnapshotComplete")
      /\ pc' \in {"select", "flush"} \/ (pc' \in {"save", "write"} /\ highest' # 0)
  BY DEF Consume, FlushFrom
<1>5. /\ highest \in Nat /\ r.pos \in Nat /\ ckpt.pos \in Nat /\ r.i \in {0} \cup DOMAIN Log
      /\ r.i # 0 => r.pos = Log[r.i].pos
  BY <1>1, <1>3 DEF TypeOK, BatchType, DurableType, Checkpoints, Item, TransitOrder
<1>6. InOrder(delivered)' /\ AckSafe' /\ Resnapshot' = Resnapshot
  BY <1>2 DEF OrderKept, AckSafe, Covers, Resnapshot, SnapshotOpen
<1>7. ASSUME NEW n \in 1 .. Len(Transit')
      PROVE  \A k \in 1 .. n - 1 : k + 1 \in 1 .. (n + 1) - 1 /\ Transit'[k] = Transit[k + 1]
  BY <1>3
<1>8. TransitIndexed'
  BY <1>1, <1>2, <1>3, <1>7 DEF TransitIndexed
<1>9. TransitForward'
  <2> SUFFICES ASSUME NEW n \in 1 .. Len(Transit')
               PROVE  /\ r.pos <= Transit'[n].pos
                      /\ \A k \in 1 .. n - 1 : Transit'[k].pos <= Transit'[n].pos
    BY <1>4 DEF TransitForward
  <2>1. 1 \in 1 .. (n + 1) - 1 /\ n + 1 \in 1 .. Len(Transit) /\ Transit'[n] = Transit[n + 1]
    BY <1>3
  <2>2. \A k \in 1 .. (n + 1) - 1 : Transit[k].pos <= Transit[n + 1].pos
    BY <1>1, <2>1 DEF TransitForward
  <2> QED
    BY <1>3, <1>7, <2>1, <2>2
<1>10. BatchForward'
  <2>1. highest <= r.pos /\ (~Resnapshot => ckpt.pos <= r.pos)
    BY <1>1, <1>3 DEF TransitForward, BatchForward
  <2>2. ASSUME ~Resnapshot
        PROVE  ckpt.pos <= srcLast /\ \A n \in 1 .. Len(Transit') : ckpt.pos <= Transit'[n].pos
    BY <1>1, <1>3, <2>2 DEF BatchForward
  <2>3. ASSUME Resnapshot, snapDone'
        PROVE  r.pos # 0 /\ \E j \in SnapshotEnds : Log[j].pos <= r.pos
    <3>1. CASE snapDone
      <4>1. highest # 0 /\ \E j \in SnapshotEnds : Log[j].pos <= highest
        BY <1>1, <2>3, <3>1 DEF BatchForward
      <4>2. \A j \in SnapshotEnds : Log[j].pos \in Nat
        BY LogType DEF SnapshotEnds
      <4> QED
        BY <1>5, <2>1, <4>1, <4>2
    <3>2. CASE ~snapDone
      <4>1. r.i \in SnapshotEnds
        BY <1>4, <1>5, <2>3, <3>2 DEF BoundaryOf, SnapshotEnds
      <4>2. r.pos = Log[r.i].pos /\ r.pos > 0
        BY <1>5, <4>1, LogType DEF SnapshotEnds
      <4> QED
        BY <1>5, <4>1, <4>2
    <3> QED
      BY <3>1, <3>2
  <2> QED
    BY <1>2, <1>4, <1>6, <2>1, <2>2, <2>3 DEF BatchForward
<1>11. CASE r.i = 0
  <2>1. encoded' = encoded
    BY <1>4, <1>11
  <2>2. BatchOrdered'
    BY <1>1, <1>2, <2>1 DEF BatchOrdered, FirstOf
  <2>3. RowsFresh'
    BY <1>1, <1>2, <1>3, <1>6, <2>1 DEF RowsFresh, IsRow
  <2> QED
    BY <1>6, <1>8, <1>9, <1>10, <2>2, <2>3 DEF OrderKept
<1>12. CASE r.i # 0
  <2>1. r.i \in DOMAIN Log /\ encoded' = encoded \o Encode(r.i)
    BY <1>4, <1>5, <1>12
  <2>2. /\ Len(encoded) \in Nat /\ Len(encoded') = Len(encoded) + Log[r.i].outs
        /\ Log[r.i].outs \in Nat
        /\ \A n \in 1 .. Len(encoded) : encoded'[n] = encoded[n]
        /\ \A k \in 1 .. Log[r.i].outs : encoded'[Len(encoded) + k] = <<r.i, k>>
        /\ \A n \in 1 .. Len(encoded') :
              n \in 1 .. Len(encoded) \/ \E k \in 1 .. Log[r.i].outs : n = Len(encoded) + k
    BY <2>1, BatchGrows
  <2>3. RowsFresh'
    <3>1. IsRow(r) /\ ~Resnapshot => Log[r.i].pos > ckpt.pos
      BY <1>1, <1>3, <1>5 DEF RowsFresh, IsRow
    <3>2. ASSUME ~Resnapshot, NEW n \in 1 .. Len(encoded'), Log[encoded'[n][1]].row
          PROVE  Log[encoded'[n][1]].pos > ckpt.pos
      <4>1. CASE n \in 1 .. Len(encoded)
        BY <1>1, <2>2, <3>2, <4>1 DEF RowsFresh
      <4>2. CASE \E k \in 1 .. Log[r.i].outs : n = Len(encoded) + k
        BY <1>12, <2>2, <3>1, <3>2, <4>2 DEF IsRow
      <4> QED
        BY <2>2, <4>1, <4>2
    <3>3. ~Resnapshot => \A n \in 1 .. Len(Transit') : IsRow(Transit'[n]) => Transit'[n].pos > ckpt.pos
      BY <1>1, <1>3 DEF RowsFresh
    <3> QED
      BY <1>1, <1>2, <1>6, <3>2, <3>3 DEF RowsFresh, IsRow
  <2>4. BatchOrdered'
    <3> SUFFICES ASSUME NEW n \in 1 .. Len(encoded'), Log[encoded'[n][1]].row,
                        NEW a \in RowMessages, Before(a, encoded'[n])
                 PROVE  a \in delivered \/ \E m \in 1 .. n - 1 : a = encoded'[m]
      BY <1>2 DEF BatchOrdered, FirstOf
    <3>1. CASE n \in 1 .. Len(encoded)
      <4>1. a \in delivered \cup FirstOf(n - 1)
        BY <1>1, <2>2, <3>1 DEF BatchOrdered
      <4>2. \A m \in 1 .. n - 1 : encoded'[m] = encoded[m]
        BY <2>2, <3>1
      <4> QED
        BY <4>1, <4>2 DEF FirstOf
    <3>2. CASE \E k \in 1 .. Log[r.i].outs : n = Len(encoded) + k
      <4>1. PICK k \in 1 .. Log[r.i].outs : n = Len(encoded) + k
        BY <3>2
      <4>2. encoded'[n] = <<r.i, k>> /\ n - 1 >= Len(encoded) /\ n - 1 = Len(encoded) + (k - 1)
        BY <2>2, <4>1
      <4>3. PICK i \in RowIndex : \E l \in 1 .. Log[i].outs : a = <<i, l>>
        BY DEF RowMessages, Outputs
      <4>4. i \in Nat /\ i # 0 /\ r.i \in Nat /\ Log[i].outs \in Nat
        BY <2>1, LogType DEF RowIndex
      <4>5. CASE i < r.i
        <5>1. i < srcNext
          <6>1. r.i < srcNext /\ srcNext \in Nat
            BY <1>1, <1>3, LogType DEF TransitIndexed, TypeOK, SourceType
          <6> QED
            BY <4>4, <4>5, <6>1
        <5>2. ~\E m \in 1 .. Len(Transit) : Transit[m].i = i
          <6> SUFFICES ASSUME NEW m \in 1 .. Len(Transit), Transit[m].i = i PROVE FALSE
            OBVIOUS
          <6>1. m # 1
            BY <1>3, <4>4, <4>5
          <6>2. 1 \in 1 .. m - 1
            BY <1>3, <6>1
          <6>3. r.i < i
            BY <1>1, <1>3, <4>4, <6>2 DEF TransitIndexed
          <6> QED
            BY <4>4, <4>5, <6>3
        <5>3. Outputs(i) \subseteq delivered \cup FirstOf(Len(encoded))
          BY <1>1, <5>1, <5>2 DEF SentRows
        <5>4. a \in delivered \cup FirstOf(Len(encoded))
          BY <4>3, <5>3 DEF Outputs
        <5>5. \A m \in 1 .. Len(encoded) : m \in 1 .. n - 1 /\ encoded'[m] = encoded[m]
          BY <2>2, <4>2
        <5> QED
          BY <5>4, <5>5 DEF FirstOf
      <4>6. CASE i = r.i
        <5>1. PICK l \in 1 .. Log[i].outs : a = <<i, l>>
          BY <4>3
        <5>2. l < k /\ l \in 1 .. Log[r.i].outs
          BY <4>2, <4>4, <4>6, <5>1 DEF Before
        <5>3. encoded'[Len(encoded) + l] = a
          BY <2>2, <4>6, <5>1, <5>2
        <5>4. Len(encoded) + l \in 1 .. n - 1
          BY <2>2, <4>2, <5>2
        <5> QED
          BY <5>3, <5>4
      <4> QED
        BY <4>2, <4>3, <4>5, <4>6 DEF Before
    <3> QED
      BY <2>2, <3>1, <3>2
  <2> QED
    BY <1>6, <1>8, <1>9, <1>10, <2>3, <2>4 DEF OrderKept
<1> QED
  BY <1>11, <1>12

\* A prefix of the batch, written whole or in part, leaves the sink in order.
LEMMA OrderWrite == TypeOK /\ TypeOK' /\ OrderKept /\ Write => OrderKept'
<1> SUFFICES ASSUME TypeOK, TypeOK', OrderKept, Write PROVE OrderKept'
  OBVIOUS
<1>1. /\ UNCHANGED <<encoded, highest, snapDone, source, chans, ckpt>> /\ pc = "write"
      /\ pc' \in {"save", "writeWait", "join"}
  BY DEF Write, Goto, ScheduleRetry, PipelineFails, batch, source, sourceTask
<1>2. PICK k \in 0 .. Len(encoded) : delivered' = delivered \cup FirstOf(k)
  <2>1. Len(encoded) \in 0 .. Len(encoded)
    BY LenProperties DEF TypeOK, BatchType
  <2> QED
    BY <2>1 DEF Write
<1>3. InOrder(delivered) /\ AckSafe
      /\ TransitIndexed /\ BatchOrdered /\ TransitForward /\ BatchForward /\ RowsFresh
  BY <1>1 DEF OrderKept, Active
<1>4. delivered \subseteq AllOutputs /\ delivered' \subseteq AllOutputs
  BY DEF TypeOK, DurableType
<1>5. InOrder(delivered')
  <2> SUFFICES ASSUME NEW m \in delivered', Log[m[1]].row, NEW a \in RowMessages, Before(a, m)
               PROVE  a \in delivered'
    BY <1>4, InOrderClosed
  <2>1. CASE m \in delivered
    BY <1>2, <1>3, <1>4, <2>1, InOrderClosed
  <2>2. CASE m \in FirstOf(k)
    <3>1. PICK n \in 1 .. k : m = encoded[n]
      BY <2>2 DEF FirstOf
    <3>2. n \in 1 .. Len(encoded) /\ 1 .. n - 1 \subseteq 1 .. k
      BY <1>2, <3>1, LenProperties DEF TypeOK, BatchType
    <3>3. a \in delivered \cup FirstOf(n - 1)
      BY <1>3, <3>1, <3>2 DEF BatchOrdered
    <3> QED
      BY <1>2, <3>2, <3>3 DEF FirstOf
  <2> QED
    BY <1>2, <2>1, <2>2
<1>6. UNCHANGED <<srcNext, srcLast, ackPos, Transit>> /\ delivered \subseteq delivered'
  BY <1>1, <1>2 DEF source, chans, Transit
<1>7. AckSafe'
  BY <1>1, <1>3, <1>6 DEF AckSafe, Covers, Resnapshot, SnapshotOpen
<1>8. TransitIndexed' /\ TransitForward' /\ BatchForward'
  BY <1>1, <1>3, <1>6 DEF TransitIndexed, TransitForward, BatchForward, Resnapshot, SnapshotOpen
<1>9. BatchOrdered'
  BY <1>1, <1>3, <1>6 DEF BatchOrdered, FirstOf
<1>10. RowsFresh'
  BY <1>1, <1>3, <1>6 DEF RowsFresh, IsRow, Resnapshot, SnapshotOpen
<1> QED
  BY <1>5, <1>7, <1>8, <1>9, <1>10 DEF OrderKept

\* What a save may put in the place of checkpoint ckpt.
LEMMA SaveForward ==
    ASSUME TypeOK, RowsAccounted, SignalsFollowed, OrderKept, pc = "save"
    PROVE  /\ Resnapshot \/ ckpt.pos <= highest
           /\ ckpt.snap => snapDone
           /\ ckpt.state \subseteq connState
           /\ HasSnapshot /\ ~snapDone => \A j \in SnapshotEnds : highest <= Log[j].pos
           /\ Resnapshot /\ snapDone => ackPos <= highest
<1>1. /\ SnapshotFirst /\ BatchSignals /\ Ahead /\ TransitOrder
      /\ AckSafe /\ TransitForward /\ BatchForward
  BY DEF SignalsFollowed, OrderKept, RowsAccounted, Active
<1>2. highest \in Nat /\ srcLast \in Nat /\ ackPos \in Nat /\ \A j \in DOMAIN Log : Log[j].pos \in Nat
  BY LogType DEF TypeOK, BatchType, SourceType, ChannelType
<1>3. Resnapshot \/ ckpt.pos <= highest
  BY <1>1 DEF BatchForward
<1>4. ASSUME HasSnapshot, ~snapDone, NEW j \in SnapshotEnds PROVE highest <= Log[j].pos
  <2>1. j \in DOMAIN Log /\ Log[j].boundary = "SnapshotComplete" /\ j \in Nat /\ j # 0 /\ srcNext \in Nat
    BY LogType DEF SnapshotEnds, TypeOK, SourceType
  <2>2. CASE j < srcNext
    <3>1. PICK n \in 1 .. Len(Transit) : Transit[n].i = j
      BY <1>1, <1>4, <2>1, <2>2 DEF SnapshotFirst
    <3>2. Transit[n].pos = Log[j].pos /\ highest <= Transit[n].pos
      BY <1>1, <2>1, <3>1 DEF TransitOrder, TransitForward
    <3> QED
      BY <3>2
  <2>3. CASE j >= srcNext
    <3>1. Log[j].pos >= srcLast /\ highest <= srcLast
      BY <1>1, <2>1, <2>3 DEF Ahead
    <3> QED
      BY <1>2, <2>1, <3>1
  <2> QED
    BY <2>1, <2>2, <2>3
<1>5. ASSUME Resnapshot, snapDone PROVE ackPos <= highest
  <2>1. PICK j \in SnapshotEnds : Log[j].pos <= highest
    BY <1>1, <1>5 DEF BatchForward
  <2>2. ackPos <= Log[j].pos /\ Log[j].pos \in Nat
    BY <1>1, <1>2, <1>5 DEF AckSafe, SnapshotEnds
  <2> QED
    BY <1>2, <2>1, <2>2
<1> QED
  BY <1>1, <1>3, <1>4, <1>5 DEF SnapshotFirst, BatchSignals

LEMMA OrderSave ==
    TypeOK /\ RowsAccounted /\ SignalsFollowed /\ OrderKept /\ Save => OrderKept'
<1> SUFFICES ASSUME TypeOK, RowsAccounted, SignalsFollowed, OrderKept, Save PROVE OrderKept'
  OBVIOUS
<1>1. /\ UNCHANGED <<batch, srcNext, srcLast, holding, queue, ackPos, delivered>> /\ pc = "save"
      /\ \/ pc' = "ack" /\ ckpt' = NewCheckpoint
         \/ pc' = "join" /\ ckpt' \in {ckpt, NewCheckpoint}
  BY DEF Save, Goto, PipelineFails, source, sourceTask, chans
<1>2. /\ InOrder(delivered) /\ AckSafe /\ TransitOrder /\ Ahead
      /\ TransitIndexed /\ BatchOrdered /\ TransitForward /\ BatchForward /\ RowsFresh
  BY <1>1 DEF OrderKept, RowsAccounted, Active
<1>3. /\ UNCHANGED <<encoded, highest, snapDone, Transit>>
      /\ NewCheckpoint.pos = highest /\ NewCheckpoint.snap = snapDone
  BY <1>1 DEF batch, Transit, NewCheckpoint
<1>4. /\ highest \in Nat /\ srcLast \in Nat /\ ackPos \in Nat /\ ckpt.pos \in Nat
      /\ \A j \in DOMAIN Log : Log[j].pos \in Nat
  BY LogType DEF TypeOK, BatchType, SourceType, ChannelType, DurableType, Checkpoints
<1>5. CASE ckpt' = ckpt /\ pc' = "join"
  <2>1. UNCHANGED ordered
    BY <1>1, <1>3, <1>5 DEF ordered, rows
  <2> QED
    BY <1>5, <2>1, OrderQuiet DEF Active
<1>6. CASE ckpt' = NewCheckpoint
  <2>1. ckpt'.pos = highest /\ ckpt'.snap = snapDone
    BY <1>3, <1>6
  <2>2. AckSafe'
    <3>1. Covers(delivered, ackPos)'
      BY <1>1, <1>2 DEF AckSafe, Covers
    <3>2. Resnapshot' \/ ackPos' <= ckpt'.pos
      <4>1. CASE Resnapshot
        BY <1>1, <2>1, <4>1, SaveForward DEF Resnapshot, SnapshotOpen
      <4>2. CASE ~Resnapshot
        <5>1. ackPos <= ckpt.pos /\ ckpt.pos <= highest
          BY <1>1, <1>2, <4>2, SaveForward DEF AckSafe
        <5> QED
          BY <1>1, <1>4, <2>1, <5>1
      <4> QED
        BY <4>1, <4>2
    <3>3. ASSUME Resnapshot', NEW j \in SnapshotEnds PROVE ckpt'.pos <= Log[j].pos /\ ackPos' <= Log[j].pos
      <4>1. HasSnapshot /\ ~snapDone /\ Resnapshot
        BY <1>1, <2>1, <3>3, SaveForward DEF Resnapshot, SnapshotOpen
      <4> QED
        BY <1>1, <1>2, <2>1, <4>1, SaveForward DEF AckSafe
    <3> QED
      BY <3>1, <3>2, <3>3 DEF AckSafe
  <2>3. InOrder(delivered)'
    BY <1>1, <1>2
  <2>4. CASE pc' = "join"
    BY <2>2, <2>3, <2>4, OrderEnds DEF Active
  <2>5. CASE pc' = "ack"
    <3>1. TransitIndexed' /\ BatchOrdered' /\ TransitForward'
      BY <1>1, <1>2, <1>3 DEF TransitIndexed, BatchOrdered, TransitForward, FirstOf
    <3>2. highest <= srcLast /\ \A n \in 1 .. Len(Transit) : highest <= Transit[n].pos
      BY <1>2 DEF Ahead, TransitForward
    <3>3. BatchForward'
      BY <1>1, <1>2, <1>3, <1>4, <2>1, <2>5, <3>2 DEF BatchForward, Resnapshot, SnapshotOpen
    <3>4. \A j \in RowIndex : j >= srcNext => Log[j].pos > highest
      <4> SUFFICES ASSUME NEW j \in RowIndex, j >= srcNext PROVE Log[j].pos > highest
        OBVIOUS
      <4>1. Log[j].pos > srcLast /\ Log[j].pos \in Nat
        BY <1>2, <1>4 DEF Ahead, RowIndex
      <4> QED
        BY <1>4, <3>2, <4>1
    <3>5. \A n \in 1 .. Len(Transit) : IsRow(Transit[n]) => Transit[n].pos > highest
      BY <1>2 DEF TransitOrder
    <3>6. RowsFresh'
      BY <1>1, <1>3, <2>1, <2>5, <3>4, <3>5 DEF RowsFresh, IsRow
    <3> QED
      BY <2>2, <2>3, <3>1, <3>3, <3>6 DEF OrderKept
  <2> QED
    BY <1>1, <2>4, <2>5
<1> QED
  BY <1>1, <1>5, <1>6

\* What is published is the position just saved.
LEMMA OrderAcknowledge ==
    TypeOK /\ RowsAccounted /\ SignalsFollowed /\ OrderKept /\ Acknowledge => OrderKept'
<1> SUFFICES ASSUME TypeOK, RowsAccounted, SignalsFollowed, OrderKept, Acknowledge PROVE OrderKept'
  OBVIOUS
<1>1. UNCHANGED <<durable, srcNext, srcLast, holding, queue, snapDone>> /\ pc = "ack"
  BY DEF Acknowledge, PipelineFails, source, sourceTask, batch
<1>2. /\ InOrder(delivered) /\ AckSafe /\ TransitIndexed /\ BatchForward /\ RowsFresh
      /\ TransitOrder /\ ckpt = NewCheckpoint /\ Covers(delivered, ckpt.pos)
  BY <1>1 DEF OrderKept, RowsAccounted, NoAcknowledgedDataLoss, SignalsFollowed, BatchSignals, Active
<1>3. UNCHANGED <<delivered, ckpt, Transit>> /\ ckpt.pos = highest /\ ckpt.snap = snapDone
  BY <1>1, <1>2 DEF durable, Transit, NewCheckpoint
<1>4. InOrder(delivered)'
  BY <1>2, <1>3
<1>5. CASE pc' = "join"
  <2>1. UNCHANGED ackPos
    BY <1>5 DEF Acknowledge, Goto, chans
  <2>2. AckSafe'
    BY <1>2, <1>3, <2>1 DEF AckSafe, Covers, Resnapshot, SnapshotOpen
  <2> QED
    BY <1>4, <1>5, <2>2, OrderEnds DEF Active
<1>6. CASE pc' # "join"
  <2>1. encoded' = <<>> /\ highest' = 0 /\ ackPos' = highest /\ pc' \in {"flush", "select"}
    BY <1>6 DEF Acknowledge, Goto, PipelineFails
  <2>2. /\ ckpt.pos \in Nat /\ \A j \in DOMAIN Log : Log[j].pos \in Nat
        /\ \A n \in 1 .. Len(Transit) : Transit[n].pos \in Nat
    <3>1. \A n \in 1 .. Len(Transit) : Transit[n] \in Item
      BY TransitType, ElementOfSeq DEF TypeOK
    <3> QED
      BY <3>1, LogType DEF TypeOK, DurableType, Checkpoints, Item
  <2>3. AckSafe'
    BY <1>2, <1>3, <2>1, <2>2 DEF AckSafe, Covers, Resnapshot, SnapshotOpen
  <2>4. Len(encoded') = 0
    BY <2>1, EmptySeq
  <2>5. TransitIndexed' /\ BatchOrdered'
    BY <1>1, <1>2, <1>3, <2>4 DEF TransitIndexed, BatchOrdered
  <2>6. TransitForward'
    <3>1. TransitForward
      BY <1>1 DEF OrderKept, Active
    <3> QED
      BY <1>3, <2>1, <2>2, <3>1 DEF TransitForward
  <2>7. BatchForward'
    BY <1>1, <1>2, <1>3, <2>1 DEF BatchForward, Resnapshot, SnapshotOpen
  <2>8. RowsFresh'
    BY <1>1, <1>2, <1>3, <2>4 DEF RowsFresh, IsRow, Resnapshot, SnapshotOpen
  <2> QED
    BY <1>4, <2>3, <2>5, <2>6, <2>7, <2>8 DEF OrderKept
<1> QED
  BY <1>5, <1>6

Known == TypeOK /\ RowsAccounted /\ SignalsFollowed

LEMMA OrderPipeline == Known /\ Known' /\ OrderKept /\ Pipeline => OrderKept'
<1> SUFFICES ASSUME Known, Known', OrderKept, Pipeline PROVE OrderKept'
  OBVIOUS
<1> USE DEF Known
<1>1. CASE Tick \/ LeaveLoop
  <2>1. UNCHANGED <<batch, source, chans, durable>> /\ pc = "select"
    BY <1>1 DEF Tick, LeaveLoop
  <2>2. UNCHANGED ordered
    BY <2>1 DEF ordered, rows, batch, source, chans, durable
  <2>3. pc' \in {"select", "flush"} \/ (pc' \in {"save", "write"} /\ highest # 0)
    BY <1>1 DEF Tick, LeaveLoop, Goto, FlushFrom
  <2> QED
    BY <2>1, <2>2, <2>3, OrderQuiet DEF Active
<1>2. CASE Receive
  <2>1. CASE Consume(Head(queue))
    BY <1>2, <2>1, OrderConsumed DEF Receive
  <2>2. CASE ~Consume(Head(queue))
    <3>1. pc' = "join" /\ UNCHANGED <<chans, durable>>
      BY <1>2, <2>2 DEF Receive, PipelineFails
    <3>2. InOrder(delivered)' /\ AckSafe'
      BY <3>1 DEF OrderKept, AckSafe, Covers, Resnapshot, SnapshotOpen, chans, durable
    <3> QED
      BY <3>1, <3>2, OrderEnds DEF Active
  <2> QED
    BY <2>1, <2>2
<1> QED
  BY <1>1, <1>2, OrderWrite, OrderSave, OrderAcknowledge DEF Pipeline

LEMMA OrderStep == Known /\ Known' /\ OrderKept /\ [Next]_vars => OrderKept'
<1> SUFFICES ASSUME Known, Known', OrderKept, [Next]_vars PROVE OrderKept'
  OBVIOUS
<1> USE DEF Known
<1>1. CASE Retry
  <2>1. UNCHANGED <<batch, source, chans, durable>>
    BY <1>1 DEF Retry, Backoff
  <2>2. UNCHANGED ordered
    BY <2>1 DEF ordered, rows, batch, source, chans, durable
  <2>3. \/ pc = "validateWait" /\ pc' = "validate"
        \/ pc = "writeWait" /\ pc' = "write"
        \/ pc = "flushWait" /\ pc' = "flush"
    BY <1>1 DEF Retry, Backoff
  <2>4. pc = "writeWait" => highest # 0
    BY DEF OrderKept, BatchForward, Active
  <2> QED
    BY <2>2, <2>3, <2>4, OrderQuiet DEF Active
<1>2. CASE Shutdown
  <2>1. UNCHANGED ordered
    BY <1>2 DEF Shutdown, FlushSink, CancelBackoff, Join, JoinTimeout, Close, ScheduleRetry,
                PipelineFails, ordered, rows, batch, source, sourceTask, chans, durable
  <2>2. pc' \in {"join", "flushWait", "close", "done"} /\ (pc' = "flushWait" => pc = "flush")
    BY <1>2 DEF Shutdown, FlushSink, CancelBackoff, Join, JoinTimeout, Close, ScheduleRetry,
                PipelineFails
  <2> QED
    BY <2>1, <2>2, OrderQuiet DEF Active
<1>3. CASE SignalChannel \/ Cancel \/ Idle \/ UNCHANGED vars
  <2>1. UNCHANGED <<ordered, pc>>
    BY <1>3 DEF SignalChannel, SendSignal, CommitSignal, SignalChannelEnds, Cancel, Idle, vars,
                ordered, rows, coord, batch, source, chans, durable
  <2> QED
    BY <2>1, OrderQuiet
<1> QED
  BY <1>1, <1>2, <1>3, OrderStartUp, OrderSourceTask, OrderPipeline, OrderVolatile
     DEF Next, Crash, Restart

THEOREM OrderInvariant == ASSUME LogOrdered PROVE Spec => [](Known /\ OrderKept)
<1>1. Init => Known /\ OrderKept
  BY TypeInit, RowsInit, SignalsInit, OrderInit DEF Known
<1>2. Known /\ OrderKept /\ TypeOK' /\ [Next]_vars => (Known /\ OrderKept)'
  BY RowsStep, SignalsStep, OrderStep DEF Known
<1> QED
  BY <1>1, <1>2, TypeCorrect, PTL DEF Spec

\* No stale redelivery: once the snapshot is complete, a process writes no row that
\* its checkpoint covers, after any crash and for any batch size (the resume position
\* of the source and the reset of the batch in flush_batch).
THEOREM NothingStale == ASSUME LogOrdered PROVE Spec => []NoStaleRedelivery
<1>1. OrderKept => NoStaleRedelivery
  <2> SUFFICES ASSUME OrderKept, pc \in {"select", "write", "writeWait", "save"}, ckpt.snap
               PROVE  \A n \in 1 .. Len(encoded) :
                         Log[encoded[n][1]].row => Log[encoded[n][1]].pos > ckpt.pos
    BY DEF NoStaleRedelivery
  <2> QED
    BY DEF OrderKept, RowsFresh, Active, Resnapshot, SnapshotOpen
<1> QED
  BY <1>1, OrderInvariant, PTL

-----------------------------------------------------------------------------
(* The runtime implements AtLeastOnce: each of its steps is one of the four *)
(* steps of the promise, or changes nothing of what is promised.            *)

LEMMA PromiseStep ==
    Known /\ Known' /\ OrderKept /\ OrderKept' /\ [Next]_vars => [Promise!Next]_(Promise!promises)
<1> SUFFICES ASSUME Known, Known', OrderKept, OrderKept', [Next]_vars
             PROVE  Promise!Next \/ UNCHANGED Promise!promises
  OBVIOUS
<1> USE DEF Known
<1>1. CASE UNCHANGED durable
  BY <1>1 DEF durable, Promise!promises
<1>2. CASE Write
  <2>1. UNCHANGED <<ckpt, confirmed, sigOffset>> /\ delivered \subseteq delivered'
    BY <1>2 DEF Write
  <2>2. delivered' \in SUBSET AllOutputs /\ InOrder(delivered')
    BY DEF TypeOK, DurableType, OrderKept
  <2> QED
    BY <2>1, <2>2 DEF Promise!Next, Promise!Deliver, Promise!InOrder, Promise!AllOutputs,
                      Promise!Outputs, Promise!RowIndex, InOrder, AllOutputs, Outputs, RowIndex
<1>3. CASE Save
  <2>1. /\ UNCHANGED <<delivered, confirmed, sigOffset>> /\ ckpt' \in {ckpt, NewCheckpoint}
        /\ pc = "save"
    BY <1>3 DEF Save
  <2>2. CASE ckpt' = ckpt
    BY <2>1, <2>2 DEF Promise!promises
  <2>3. CASE ckpt' = NewCheckpoint
    <3>1. ckpt'.pos = highest /\ ckpt'.snap = snapDone /\ ckpt'.state = connState
      BY <2>3 DEF NewCheckpoint
    <3>2. Covers(delivered, ckpt'.pos)
      BY <2>1 DEF RowsAccounted, NoAcknowledgedDataLoss, Covers
    <3>3. highest \in Nat /\ ckpt.pos \in Nat
      BY DEF TypeOK, BatchType, DurableType, Checkpoints
    <3>4. (ckpt.snap => ckpt'.snap) /\ ckpt.state \subseteq ckpt'.state
      BY <2>1, <3>1, SaveForward
    <3>5. SnapshotOpen(ckpt) \/ ckpt'.pos >= ckpt.pos
      BY <2>1, <3>1, <3>3, SaveForward DEF Resnapshot
    <3> QED
      BY <2>1, <3>2, <3>4, <3>5
         DEF Promise!Next, Promise!Checkpoint, Promise!Covers, Promise!RowsUpTo, Promise!RowIndex,
             Promise!Outputs, Promise!SnapshotOpen, Promise!HasSnapshot, Covers, RowsUpTo, RowIndex,
             Outputs, SnapshotOpen, HasSnapshot
  <2> QED
    BY <2>1, <2>2, <2>3
<1>4. ASSUME UNCHANGED <<delivered, ckpt, sigOffset>>, confirmed' \in Nat,
             Covers(delivered, confirmed'), SnapshotOpen(ckpt) \/ confirmed' <= ckpt.pos
      PROVE  Promise!Next
  BY <1>4 DEF Promise!Next, Promise!Confirm, Promise!Covers, Promise!RowsUpTo, Promise!RowIndex,
              Promise!Outputs, Promise!SnapshotOpen, Promise!HasSnapshot, Covers, RowsUpTo, RowIndex,
              Outputs, SnapshotOpen, HasSnapshot
<1>5. CASE ConfirmToSource
  <2>1. UNCHANGED <<delivered, ckpt, sigOffset>> /\ confirmed' = ackPos
    BY <1>5 DEF ConfirmToSource
  <2>2. ackPos \in Nat /\ Covers(delivered, ackPos) /\ (SnapshotOpen(ckpt) \/ ackPos <= ckpt.pos)
    BY DEF TypeOK, ChannelType, OrderKept, AckSafe, Resnapshot
  <2> QED
    BY <1>4, <2>1, <2>2
<1>6. CASE LoadAndSpawn
  <2>1. UNCHANGED <<delivered, ckpt, sigOffset>> /\ (confirmed' = confirmed \/ (Resnapshot /\ confirmed' = 0))
    BY <1>6 DEF LoadAndSpawn, ReturnEarly, durable
  <2>2. CASE confirmed' = confirmed
    BY <2>1, <2>2 DEF Promise!promises
  <2>3. CASE Resnapshot /\ confirmed' = 0
    <3>1. Covers(delivered, 0)
      BY LogType DEF Covers, RowsUpTo, RowIndex
    <3> QED
      BY <1>4, <2>1, <2>3, <3>1 DEF Resnapshot
  <2> QED
    BY <2>1, <2>2, <2>3
<1>7. CASE CommitSignal
  <2>1. UNCHANGED <<delivered, ckpt, confirmed>> /\ sigOffset' = sigOffset + 1 /\ sigState = "acked"
    BY <1>7 DEF CommitSignal
  <2>2. sigOffset + 1 \in ckpt.state
    BY <2>1 DEF SignalsFollowed, SignalBooked
  <2> QED
    BY <2>1, <2>2 DEF Promise!Next, Promise!CommitSignal
<1>8. CASE ValidateSource \/ ValidateSink \/ CancelValidate \/ Retry
  <2>1. UNCHANGED durable
    BY <1>8 DEF ValidateSource, ValidateSink, CancelValidate, ReturnEarly, ScheduleRetry, Goto,
                Retry, Backoff
  <2> QED
    BY <1>1, <2>1
<1>9. CASE Produce \/ Enqueue \/ TakeSignal \/ SourceReturns \/ SendSignal \/ SignalChannelEnds
  <2>1. UNCHANGED durable
    BY <1>9 DEF Produce, Enqueue, TakeSignal, SourceReturns, SendSignal, SignalChannelEnds, srcRest
  <2> QED
    BY <1>1, <2>1
<1>10. CASE Tick \/ LeaveLoop \/ Receive \/ Acknowledge
  <2>1. UNCHANGED durable
    BY <1>10 DEF Tick, LeaveLoop, Receive, Consume, Acknowledge
  <2> QED
    BY <1>1, <2>1
<1>11. CASE Shutdown
  <2>1. UNCHANGED durable
    BY <1>11 DEF Shutdown, FlushSink, CancelBackoff, Join, JoinTimeout, Close
  <2> QED
    BY <1>1, <2>1
<1>12. CASE Cancel \/ Crash \/ Restart \/ Idle \/ UNCHANGED vars
  <2>1. UNCHANGED durable
    BY <1>12 DEF Cancel, Crash, Restart, Volatile, Idle, vars
  <2> QED
    BY <1>1, <2>1
<1> QED
  BY <1>2, <1>3, <1>5, <1>6, <1>7, <1>8, <1>9, <1>10, <1>11, <1>12
     DEF Next, StartUp, SourceTask, Pipeline, SignalChannel

\* The delivery promise: for every log that keeps the contract of a connector, every
\* behaviour of run_inner is one that AtLeastOnce allows.
THEOREM PromiseHeld == ASSUME LogOrdered PROVE Spec => PromiseKept
<1>1. Init => Promise!Init
  BY DEF Init, Promise!Init
<1> QED
  BY <1>1, PromiseStep, OrderInvariant, PTL DEF Spec, PromiseKept, Promise!Spec
=============================================================================
