------------------------------ MODULE PgStreaming ------------------------------
(***************************************************************************)
(* The PostgreSQL source of Rustium (rustium-postgresql, source.rs): the   *)
(* managed replication slot, the initial and the recovery snapshot, the    *)
(* conversion of pgoutput events into positioned records, the replay       *)
(* filter, the reconciliation of slot and checkpoint, heartbeats, slot     *)
(* feedback and the orderly stop.                                          *)
(*                                                                         *)
(* The server is external and modelled by what source.rs reads from it: it *)
(* appends to a write-ahead log, decodes it from the slot on, and sends a  *)
(* transaction when it commits, or piecewise before that when it streams   *)
(* it.  Each change touches a row of its own and is named by its index in  *)
(* the log.  The runtime is Runtime, reduced to what a connector can tell: *)
(* it takes records in order, checkpoints at a commit or at any other      *)
(* record, and publishes the checkpointed position.                        *)
(***************************************************************************)
EXTENDS Naturals, Sequences, SequencesExt

CONSTANTS
    Setups,    \* databases and configurations to run with, records of the fields below
    Capacity   \* runtime.channel_capacity, which bounds the records on their way

WalKinds == {"change", "commit", "abort", "message"}
WalRecord == [kind : WalKinds, lsn : Nat \ {0}, end : Nat, xid : Nat]

IsWal(w) ==
    /\ w \in Seq(WalRecord)
    /\ \A i \in DOMAIN w : w[i].lsn < w[i].end
    /\ \A i, j \in DOMAIN w : i < j => w[i].lsn <= w[j].lsn

ASSUME PgAssumption ==
    /\ Capacity \in Nat \ {0}
    /\ \A s \in Setups :
        /\ IsWal(s.wal)
        /\ s.mode \in {"Initial", "WhenNeeded", "Never"}
        /\ s.strategy \in {"NoValidation", "TrustOffset", "TrustSlot", "TrustGreaterLsn"}
        /\ s.flush \in {"Connector", "Manual", "ConnectorAndDriver"}
        /\ s.drop \in BOOLEAN /\ s.heartbeats \in BOOLEAN
        /\ s.streamed \subseteq Nat /\ s.stops \in Nat /\ s.losses \in Nat

VARIABLES
    \* the database and the configuration, chosen once
    setup,
    \* the server: records written, the slot, where the one created last began
    walEnd, slot, since,
    \* what survives a crash of the connector: sink and checkpoint
    delivered, ckpt,
    \* the connector task
    phase, reason, resume, lastSafe, txn, previousLsn, eventSerial, dirty,
    \* its replication connection: decoding start, records decoded, events to come
    from, decoded, wire,
    \* the snapshot in progress: rows still to send, its anchor and the ordinal
    snapRows, snapLsn,
    \* the runtime: records on their way, pending batch, state, saved position
    flight, batch, highest, rtSnap, rtState, acked,
    \* counters of the bounds
    stops, losses

server    == <<walEnd, slot, since>>
durable   == <<delivered, ckpt>>
connector == <<phase, reason, resume, lastSafe, txn, previousLsn, eventSerial, dirty>>
conn      == <<from, decoded, wire>>
snapshot  == <<snapRows, snapLsn>>
runtime   == <<flight, batch, highest, rtSnap, rtState, acked>>
bounds    == <<setup, stops, losses>>
vars      == <<server, durable, connector, conn, snapshot, runtime, bounds>>

Wal            == setup.wal        \* what the database writes: records [kind, lsn, end, xid]
Streamed       == setup.streamed   \* transactions the server sends while they are in progress
SnapshotMode   == setup.mode       \* snapshot.mode
Strategy       == setup.strategy   \* source.offset_mismatch_strategy
FlushMode      == setup.flush      \* source.lsn_flush_mode
DropSlotOnStop == setup.drop       \* source.drop_slot_on_stop
Heartbeats     == setup.heartbeats \* heartbeat.interval is positive
MaxStops       == setup.stops      \* bound on crashes and stops
MaxSlotLosses  == setup.losses     \* bound on slots lost while the connector is down

-----------------------------------------------------------------------------
(* Positions.                                                               *)

\* PostgresPosition; 0 stands for an absent commit_lsn or transaction_id.
None == [lsn |-> 0, commit |-> 0, xid |-> 0, serial |-> 0, snap |-> FALSE]

\* The order of sort_key: LSN, snapshot rows first, serial.
IsAfter(p, q) ==
    \/ p.lsn > q.lsn
    \/ p.lsn = q.lsn /\ q.snap /\ ~p.snap
    \/ p.lsn = q.lsn /\ p.snap = q.snap /\ p.serial > q.serial

IsAtOrBefore(p, q) == p = q \/ IsAfter(q, p)

StreamingPosition(lsn) == [None EXCEPT !.lsn = lsn, !.commit = lsn]

\* The LSN a checkpoint acknowledges to the slot.
FlushLsn(p) == IF p.commit # 0 THEN p.commit ELSE p.lsn

NoCheckpoint == [pos |-> None, snap |-> FALSE, state |-> FALSE]

-----------------------------------------------------------------------------
(* The database and its decoding (external).                                *)

Written == 1 .. walEnd

CommitOf(x) == {i \in DOMAIN Wal : Wal[i].kind = "commit" /\ Wal[i].xid = x}

\* A transaction has written and not ended; creating a slot waits for its end.
InProgress ==
    \E i \in Written : /\ Wal[i].kind = "change"
                       /\ ~\E j \in Written : Wal[j].kind \in {"commit", "abort"} /\ Wal[j].xid = Wal[i].xid

Committed(i, n) ==
    \/ Wal[i].kind = "change" /\ \E c \in CommitOf(Wal[i].xid) : c <= n
    \/ Wal[i].kind = "message" /\ i <= n

\* Changes and messages the database holds as committed, n records written.
CommittedBy(n) == {i \in 1 .. n : Committed(i, n)}

\* What a snapshot can read of them: rows of tables, no messages.
RowsBy(n) == {i \in CommittedBy(n) : Wal[i].kind = "change"}

\* A finite set of indices in log order: the n-th one has n at or before it.
InLogOrder(S) == [n \in 1 .. Cardinality(S) |-> CHOOSE i \in S : Cardinality({j \in S : j <= i}) = n]

\* The changes of transaction x among the indices in S.
ChangesOf(x, S) == InLogOrder({i \in S : Wal[i].kind = "change" /\ Wal[i].xid = x})

Event(kind, i) == [kind |-> kind, i |-> i]

Changes(x, S) == LET c == ChangesOf(x, S) IN [n \in DOMAIN c |-> Event("Change", c[n])]

\* The part of streamed transaction x that was sent before record i.
StreamedBefore(x, i, start) ==
    IF \E j \in 1 .. i - 1 : Wal[j].kind = "change" /\ Wal[j].xid = x /\ Wal[j].lsn >= start
    THEN 1 .. i - 1 ELSE {}

\* What the server sends for record i on a connection that starts at LSN start.
Decode(i, start) ==
    LET r == Wal[i]
        chunk == 1 .. i \ StreamedBefore(r.xid, i, start)
        started == StreamedBefore(r.xid, i, start) # {}
    IN  IF r.lsn < start THEN <<>>
        ELSE
          CASE r.kind = "message" -> <<Event("Message", i)>>
            [] r.kind = "change" /\ r.xid \notin Streamed -> <<>>
            [] r.kind = "change" /\ r.xid \in Streamed ->
                  <<Event("StreamStart", i)>> \o Changes(r.xid, chunk) \o <<Event("StreamStop", i)>>
            [] r.kind = "commit" /\ r.xid \in Streamed /\ started -> <<Event("StreamCommit", i)>>
            [] r.kind = "commit" /\ ~(r.xid \in Streamed /\ started) ->
                  <<Event("Begin", i)>> \o Changes(r.xid, 1 .. i) \o <<Event("Commit", i)>>
            [] r.kind = "abort" ->
                  IF r.xid \in Streamed /\ started THEN <<Event("StreamAbort", i)>> ELSE <<>>

Write ==
    /\ walEnd < Len(Wal)
    /\ walEnd' = walEnd + 1
    /\ UNCHANGED <<slot, since, durable, connector, conn, snapshot, runtime, bounds>>

Send ==
    /\ phase = "streaming" /\ wire = <<>> /\ decoded < walEnd
    /\ wire' = Decode(decoded + 1, from)
    /\ decoded' = decoded + 1
    /\ UNCHANGED <<server, durable, connector, from, snapshot, runtime, bounds>>

\* The slot is dropped or its WAL removed while the connector is down.
LoseSlot ==
    /\ phase = "down" /\ slot.exists /\ losses < MaxSlotLosses
    /\ slot' = [slot EXCEPT !.exists = FALSE]
    /\ losses' = losses + 1
    /\ UNCHANGED <<walEnd, since, durable, connector, conn, snapshot, runtime, setup, stops>>

\* LSN of the next record the database would write.
WalLsn == IF walEnd = 0 THEN 1 ELSE Wal[walEnd].end

-----------------------------------------------------------------------------
(* The start of PostgresSource::run.                                        *)

idleConn ==
    /\ from' = 0 /\ decoded' = 0 /\ wire' = <<>>
    /\ snapRows' = <<>> /\ snapLsn' = 0

\* The runtime starts from the checkpoint; the batch of an earlier process is gone.
RuntimeStarts ==
    /\ flight' = <<>> /\ batch' = {} /\ highest' = None
    /\ rtSnap' = ckpt.snap /\ rtState' = ckpt.state /\ acked' = ckpt.pos

FailsWith(e) ==
    /\ phase' = "failed" /\ reason' = e
    /\ UNCHANGED <<resume, lastSafe, txn, previousLsn, eventSerial, dirty>>

\* prepare_snapshot_slot drops a managed slot that is left over.
PrepareSnapshotSlot ==
    /\ slot' = [slot EXCEPT !.exists = FALSE]
    /\ phase' = "prepared" /\ reason' = "none"
    /\ resume' = None /\ lastSafe' = None /\ dirty' = FALSE
    /\ UNCHANGED <<txn, previousLsn, eventSerial>>

SnapshotNeeded == SnapshotMode # "Never" /\ ~ckpt.snap

HasCheckpoint == ckpt # NoCheckpoint

\* Faulty variant: a checkpoint behind the slot is used under any strategy.
DecisionLenient == "UseCheckpoint"

\* resume_slot_decision, and the mid-transaction check of resolve_resume_slot.
Decision ==
    LET checkpointLsn == FlushLsn(ckpt.pos) IN
    CASE checkpointLsn = slot.confirmed \/ Strategy = "NoValidation" -> "UseCheckpoint"
      [] checkpointLsn > slot.confirmed /\ Strategy = "TrustSlot" -> "UseCheckpoint"
      [] checkpointLsn > slot.confirmed /\ Strategy \in {"TrustOffset", "TrustGreaterLsn"} ->
            IF ckpt.pos.xid # 0 /\ ckpt.pos.commit = 0 THEN "Refuse" ELSE "AdvanceSlot"
      [] checkpointLsn < slot.confirmed /\ Strategy = "TrustOffset" -> "Refuse"
      [] checkpointLsn < slot.confirmed /\ Strategy \in {"TrustSlot", "TrustGreaterLsn"} -> "UseSlot"

\* The connection starts at LSN lsn, and the replay filter at position p.
Attach(lsn, p, stateDirty) ==
    /\ phase' = "attached" /\ reason' = "none"
    /\ from' = lsn /\ decoded' = 0 /\ wire' = <<>> /\ snapRows' = <<>> /\ snapLsn' = 0
    /\ resume' = p
    /\ lastSafe' = IF p = None \/ p.snap THEN StreamingPosition(lsn) ELSE p
    /\ txn' = 0 /\ previousLsn' = 0 /\ eventSerial' = 0 /\ dirty' = stateDirty

\* A State error starts a recovery snapshot under when_needed and fails otherwise.
Unresumable(e) ==
    /\ idleConn
    /\ \/ SnapshotMode = "WhenNeeded" /\ PrepareSnapshotSlot
       \/ SnapshotMode # "WhenNeeded" /\ FailsWith(e) /\ UNCHANGED slot

\* A checkpoint with its slot: resolve_resume_slot.
Resume ==
    \/ Decision = "UseCheckpoint" /\ Attach(ckpt.pos.lsn, ckpt.pos, FALSE) /\ UNCHANGED slot
    \/ /\ Decision = "UseSlot" /\ UNCHANGED slot
       /\ Attach(slot.confirmed, StreamingPosition(slot.confirmed), TRUE)
    \/ /\ Decision = "AdvanceSlot"
       /\ slot' = [slot EXCEPT !.confirmed = FlushLsn(ckpt.pos)]
       /\ Attach(ckpt.pos.lsn, ckpt.pos, FALSE)
    \/ Decision = "Refuse" /\ Unresumable("mismatch")

Boot ==
    /\ phase = "down"
    /\ RuntimeStarts
    /\ \/ SnapshotNeeded /\ PrepareSnapshotSlot /\ idleConn
       \/ ~SnapshotNeeded /\ HasCheckpoint /\ ~ckpt.state /\ Unresumable("noState")
       \/ ~SnapshotNeeded /\ HasCheckpoint /\ ckpt.state /\ ~slot.exists /\ Unresumable("noSlot")
       \/ ~SnapshotNeeded /\ HasCheckpoint /\ ckpt.state /\ slot.exists /\ Resume
       \/ ~SnapshotNeeded /\ ~HasCheckpoint /\ Attach(0, None, TRUE) /\ UNCHANGED slot
    /\ UNCHANGED <<walEnd, since, durable, bounds>>

\* ensure_replication_slot creates a managed slot at the end of the log; an
\* existing one decodes from its confirmed LSN or from the requested one.
StartStream ==
    /\ phase = "attached" /\ phase' = "streaming"
    /\ slot.exists \/ ~InProgress
    /\ slot' = IF slot.exists THEN slot ELSE [exists |-> TRUE, confirmed |-> WalLsn]
    /\ since' = IF slot.exists THEN since ELSE WalLsn
    /\ LET start == IF from = 0 THEN slot'.confirmed ELSE from IN
         /\ from' = IF start > slot'.confirmed THEN start ELSE slot'.confirmed
         /\ lastSafe' = IF from = 0 /\ resume = None THEN StreamingPosition(start) ELSE lastSafe
    /\ UNCHANGED <<walEnd, durable, reason, resume, txn, previousLsn, eventSerial, dirty,
                   decoded, wire, snapshot, runtime, bounds>>

-----------------------------------------------------------------------------
(* run_snapshot: the slot exports the snapshot its rows are read from.      *)

CreateSnapshotSlot ==
    /\ phase = "prepared" /\ phase' = "snapshot" /\ ~InProgress
    /\ slot' = [exists |-> TRUE, confirmed |-> WalLsn] /\ since' = WalLsn
    /\ snapRows' = InLogOrder(RowsBy(walEnd))
    /\ snapLsn' = WalLsn
    /\ eventSerial' = 0
    /\ UNCHANGED <<walEnd, durable, reason, resume, lastSafe, txn, previousLsn, dirty, conn,
                   runtime, bounds>>

\* A record enters the bounded channel.
Emit(pos, boundary, i, state) ==
    /\ Len(flight) < Capacity
    /\ flight' = Append(flight, [pos |-> pos, boundary |-> boundary, i |-> i, state |-> state])
    /\ UNCHANGED <<batch, highest, rtSnap, rtState, acked>>

SnapshotPosition(serial) == [lsn |-> snapLsn, commit |-> snapLsn, xid |-> 0, serial |-> serial, snap |-> TRUE]

SendSnapshotRow ==
    /\ phase = "snapshot" /\ snapRows # <<>>
    /\ eventSerial' = eventSerial + 1
    /\ Emit(SnapshotPosition(eventSerial'), "Data", Head(snapRows), FALSE)
    /\ snapRows' = Tail(snapRows)
    /\ UNCHANGED <<server, durable, phase, reason, resume, lastSafe, txn, previousLsn, dirty, conn,
                   snapLsn, bounds>>

CompleteSnapshot ==
    /\ phase = "snapshot" /\ snapRows = <<>>
    /\ Emit(SnapshotPosition(eventSerial + 1), "SnapshotComplete", 0, TRUE)
    /\ Attach(snapLsn, None, FALSE)
    /\ UNCHANGED <<server, durable, bounds>>

-----------------------------------------------------------------------------
(* StreamingState: one event of the stream becomes at most one record.      *)

\* Faulty variant: the serial does not count.
NextSerialConstant(lsn) == previousLsn' = lsn /\ eventSerial' = 1

\* next_serial counts the events at the LSN of the event before.
NextSerial(lsn) ==
    /\ previousLsn' = lsn
    /\ eventSerial' = IF previousLsn = lsn THEN eventSerial + 1 ELSE 1

\* Faulty variants: the record at the checkpoint goes out again; the filter is
\* never over.
ShouldSkipBefore(p) == resume # None /\ IsAfter(resume, p)
ShouldSkipAll(p) == resume # None

\* should_skip, which is over with the first record that is not skipped.
ShouldSkip(p) == resume # None /\ IsAtOrBefore(p, resume)

\* Faulty variant: the last safe position stays where it was.
RecordStale(p, boundary, i) ==
    \/ /\ ShouldSkip(p)
       /\ UNCHANGED <<resume, lastSafe, dirty, runtime>>
    \/ /\ ~ShouldSkip(p)
       /\ resume' = None /\ dirty' = FALSE
       /\ Emit(p, boundary, i, dirty) /\ UNCHANGED lastSafe

\* The record at position p is dropped by the replay filter or goes out, with
\* the schema state when that has changed.
Record(p, boundary, i) ==
    \/ /\ ShouldSkip(p)
       /\ UNCHANGED <<resume, lastSafe, dirty, runtime>>
    \/ /\ ~ShouldSkip(p)
       /\ resume' = None /\ lastSafe' = p /\ dirty' = FALSE
       /\ Emit(p, boundary, i, dirty)

NoRecord == UNCHANGED <<resume, lastSafe, dirty, previousLsn, eventSerial, runtime>>

Rest == UNCHANGED <<server, durable, phase, reason, from, decoded, snapshot, bounds>>

Take(kind) == phase = "streaming" /\ wire # <<>> /\ Head(wire).kind = kind /\ wire' = Tail(wire)

Begin ==
    /\ Take("Begin") /\ Rest /\ NoRecord
    /\ txn' = Wal[Head(wire).i].xid

\* get_or_insert: a chunk of another transaction does not replace the open one.
StreamStart ==
    /\ Take("StreamStart") /\ Rest /\ NoRecord
    /\ txn' = IF txn = 0 THEN Wal[Head(wire).i].xid ELSE txn

StreamStop == Take("StreamStop") /\ Rest /\ NoRecord /\ UNCHANGED txn

StreamAbort == Take("StreamAbort") /\ Rest /\ NoRecord /\ txn' = 0

\* data_record
DataRecord ==
    /\ Take("Change") /\ Rest /\ UNCHANGED txn
    /\ LET i == Head(wire).i
           lsn == Wal[i].lsn
       IN  /\ NextSerial(lsn)
           /\ Record([lsn |-> lsn, commit |-> 0, xid |-> txn, serial |-> eventSerial',
                      snap |-> FALSE], "Data", i)

\* commit_record
CommitRecord ==
    /\ Take("Commit") \/ Take("StreamCommit")
    /\ Rest /\ txn' = 0
    /\ LET r == Wal[Head(wire).i]
           id == IF txn = 0 THEN r.xid ELSE txn
       IN  /\ NextSerial(r.end)
           /\ Record([lsn |-> r.end, commit |-> r.end, xid |-> id, serial |-> eventSerial',
                      snap |-> FALSE], "TransactionCommit", 0)

\* logical_decoding_message_record, for a message outside of any transaction
MessageRecord ==
    /\ Take("Message") /\ Rest /\ UNCHANGED txn
    /\ LET i == Head(wire).i
           lsn == Wal[i].end
       IN  /\ NextSerial(lsn)
           /\ Record([lsn |-> lsn, commit |-> lsn, xid |-> 0, serial |-> eventSerial',
                      snap |-> FALSE], "TransactionCommit", i)

\* A heartbeat at the last position sent; it carries no connector state.
Heartbeat ==
    /\ Heartbeats /\ phase = "streaming" /\ lastSafe # None
    /\ Emit(lastSafe, "Heartbeat", 0, FALSE)
    /\ UNCHANGED <<server, durable, connector, conn, snapshot, bounds>>

\* The slot confirms up to LSN lsn, and never moves back.
Confirm(lsn) ==
    /\ phase = "streaming" /\ lsn > slot.confirmed
    /\ slot' = [slot EXCEPT !.confirmed = lsn]
    /\ UNCHANGED <<walEnd, since, durable, connector, conn, snapshot, runtime, bounds>>

\* Faulty variant: feedback does not wait for the checkpoint.
FeedbackUnsaved ==
    IF FlushMode = "Connector" THEN Confirm(FlushLsn(lastSafe)) ELSE FALSE

\* The saved position goes to the slot; with the driver's feedback everything
\* received does, and with manual feedback nothing.
Feedback ==
    \/ FlushMode = "Connector" /\ Confirm(FlushLsn(acked))
    \/ /\ FlushMode = "ConnectorAndDriver" /\ decoded > 0 /\ wire = <<>>
       /\ Confirm(Wal[decoded].end)

-----------------------------------------------------------------------------
(* The runtime, as a connector meets it (Runtime has the whole of it).      *)

rtRest == <<server, resume, lastSafe, txn, previousLsn, eventSerial, dirty, conn, snapshot, bounds>>

Regresses(p) == highest # None /\ ~IsAfter(p, highest) /\ p # highest

\* One record joins the batch, and the batch may be written and checkpointed;
\* at a transaction commit or the end of the snapshot it must be.
Consume ==
    /\ flight # <<>> /\ flight' = Tail(flight)
    /\ LET r == Head(flight)
           ids == batch \cup ({r.i} \ {0})
           snap == rtSnap \/ r.boundary = "SnapshotComplete"
           state == rtState \/ r.state
       IN  /\ ~Regresses(r.pos)
           /\ rtSnap' = snap /\ rtState' = state
           /\ \/ /\ delivered' = delivered \cup ids
                 /\ ckpt' = [pos |-> r.pos, snap |-> snap, state |-> state]
                 /\ acked' = r.pos /\ batch' = {} /\ highest' = None
              \/ /\ r.boundary \in {"Data", "Heartbeat"}
                 /\ batch' = ids /\ highest' = r.pos
                 /\ UNCHANGED <<durable, acked>>
    /\ UNCHANGED <<phase, reason, rtRest>>

\* "source position moved backwards": the process fails.
ConsumeRegressed ==
    /\ flight # <<>> /\ Regresses(Head(flight).pos)
    /\ phase' = "failed" /\ reason' = "backwards"
    /\ UNCHANGED <<durable, runtime, rtRest>>

\* The flush interval.
Flush ==
    /\ highest # None
    /\ delivered' = delivered \cup batch
    /\ ckpt' = [pos |-> highest, snap |-> rtSnap, state |-> rtState]
    /\ acked' = highest /\ batch' = {} /\ highest' = None
    /\ UNCHANGED <<phase, reason, flight, rtSnap, rtState, rtRest>>

-----------------------------------------------------------------------------
(* Stops.                                                                   *)

StopsNow ==
    /\ phase' = "down" /\ reason' = "none"
    /\ resume' = None /\ lastSafe' = None /\ txn' = 0
    /\ previousLsn' = 0 /\ eventSerial' = 0 /\ dirty' = FALSE
    /\ idleConn
    /\ flight' = <<>> /\ batch' = {} /\ highest' = None
    /\ rtSnap' = FALSE /\ rtState' = FALSE /\ acked' = None

\* A crash, possibly after the sink took the batch and before the checkpoint.
Crash ==
    /\ phase \notin {"down", "failed"} /\ stops < MaxStops /\ stops' = stops + 1
    /\ delivered' \in {delivered, delivered \cup batch}
    /\ StopsNow
    /\ UNCHANGED <<server, ckpt, setup, losses>>

\* stop_stream_on_orderly_shutdown: the last feedback, then the slot is dropped.
\* The runtime flushes its batch before, or fails to and keeps the checkpoint.
OrderlyStop ==
    /\ phase = "streaming" /\ stops < MaxStops /\ stops' = stops + 1
    /\ \/ UNCHANGED durable
       \/ /\ highest # None /\ delivered' = delivered \cup batch
          /\ ckpt' = [pos |-> highest, snap |-> rtSnap, state |-> rtState]
    /\ slot' = [exists |-> ~DropSlotOnStop,
                confirmed |-> IF FlushMode = "Connector" /\ FlushLsn(acked) > slot.confirmed
                              THEN FlushLsn(acked) ELSE slot.confirmed]
    /\ StopsNow
    /\ UNCHANGED <<walEnd, since, setup, losses>>

\* A supervisor starts a failed process again.
Restart ==
    /\ phase = "failed" /\ stops < MaxStops /\ stops' = stops + 1
    /\ StopsNow
    /\ UNCHANGED <<server, durable, setup, losses>>

-----------------------------------------------------------------------------
Init ==
    /\ setup \in Setups
    /\ walEnd = 0 /\ slot = [exists |-> FALSE, confirmed |-> 0] /\ since = 0
    /\ delivered = {} /\ ckpt = NoCheckpoint
    /\ phase = "down" /\ reason = "none" /\ resume = None /\ lastSafe = None
    /\ txn = 0 /\ previousLsn = 0 /\ eventSerial = 0 /\ dirty = FALSE
    /\ from = 0 /\ decoded = 0 /\ wire = <<>> /\ snapRows = <<>> /\ snapLsn = 0
    /\ flight = <<>> /\ batch = {} /\ highest = None
    /\ rtSnap = FALSE /\ rtState = FALSE /\ acked = None
    /\ stops = 0 /\ losses = 0

Database == Write \/ Send
Startup == Boot \/ StartStream \/ CreateSnapshotSlot \/ SendSnapshotRow \/ CompleteSnapshot
Convert ==
    \/ Begin \/ StreamStart \/ StreamStop \/ StreamAbort
    \/ DataRecord \/ CommitRecord \/ MessageRecord
Pipeline == Consume \/ ConsumeRegressed \/ Flush

Next ==
    \/ Database \/ LoseSlot \/ Startup \/ Convert \/ Heartbeat \/ Feedback \/ Pipeline
    \/ Crash \/ OrderlyStop \/ Restart

Spec == Init /\ [][Next]_vars

(***************************************************************************)
(* The database writes on, the server sends, the connector task and the    *)
(* runtime run.  select! takes its ready branches in a random order, so    *)
(* that heartbeats and feedback cannot keep an event from its turn for     *)
(* ever: strong fairness of Convert; the flush interval is a branch of its *)
(* own.  Nothing is assumed of heartbeats, stops and lost slots.           *)
(***************************************************************************)
Fairness ==
    /\ WF_vars(Database) /\ WF_vars(Startup)
    /\ SF_vars(Convert) /\ WF_vars(Feedback)
    /\ WF_vars(Consume) /\ WF_vars(Flush)

FairSpec == Spec /\ Fairness

-----------------------------------------------------------------------------
(* Properties.                                                              *)

\* Committed rows and messages.  What was written before the slot is owed where a
\* snapshot can read it: a row is, unless none is taken, and a message never.
Owed ==
    {i \in CommittedBy(walEnd) :
        \/ Wal[i].kind = "message" /\ Wal[i].lsn >= since
        \/ Wal[i].kind = "change" /\ SnapshotMode # "Never"
        \/ \E c \in CommitOf(Wal[i].xid) : Wal[c].lsn >= since}

\* The rows of transactions that ended before LSN l.
EndedBefore(l) ==
    {i \in Owed : \E c \in CommitOf(Wal[i].xid) : Wal[c].lsn < l}

InTransit == {r.i : r \in Range(flight)} \ {0}

\* Feedback that outruns the checkpoint and a slot that is trusted skip history
\* on purpose (design.md, section 9.3, lsn.flush.mode).
SkipsOnPurpose ==
    FlushMode = "ConnectorAndDriver" /\ Strategy \in {"TrustSlot", "TrustGreaterLsn"}

\* No transaction writes while another one is open.
SerialLog ==
    \A i, j, k \in DOMAIN Wal : i < j /\ j < k /\ Wal[i].xid = Wal[k].xid => Wal[j].xid = Wal[i].xid

\* Once the connector has read the whole log and nothing is in transit, every
\* committed row has been delivered, by the snapshot or by the stream, and every
\* message written since the slot was created, whatever stopped it before: snapshot
\* handoff, replay filter and slot leave none out.
CaughtUpComplete ==
    ~SkipsOnPurpose /\ phase = "streaming" /\ decoded = walEnd
    /\ wire = <<>> /\ flight = <<>> /\ highest = None
        => Owed \subseteq delivered

\* The slot confirms, and so lets the server forget, only transactions whose rows
\* have been delivered: the connector's feedback follows the checkpoint.
SlotCoversDelivered ==
    FlushMode = "Connector" /\ SnapshotMode = "Initial" /\ ckpt.snap /\ slot.exists
        => EndedBefore(slot.confirmed) \subseteq delivered

\* A connection never starts behind a gap: the rows of a transaction that ended
\* before its decoding start are delivered or on their way; where slot and
\* checkpoint disagree, resolve_resume_slot keeps it or refuses.
NoGap ==
    ~SkipsOnPurpose /\ phase = "streaming"
        => EndedBefore(from) \subseteq delivered \cup batch \cup InTransit

\* Replay is exact: a row the stream sends lies after the checkpoint in force, so
\* that none goes out again that the checkpoint covers, inside a transaction too.
ReplayExact ==
    SerialLog /\ phase = "streaming"
        => \A r \in Range(flight) : r.i # 0 /\ ~r.pos.snap => IsAfter(r.pos, acked)

\* design.md, section 3: the records of one connector remain ordered by their typed
\* source position, so that the runtime refuses none for going back.
NeverBackwards == SerialLog => reason # "backwards"

\* A start may refuse to go on for good: history was lost with the slot, confirmed
\* by the driver, or never checkpointed with its schema.
MayRefuse == MaxSlotLosses > 0 \/ FlushMode = "ConnectorAndDriver" \/ SnapshotMode = "Never"

\* Every committed row, and every message written since the slot was created, is
\* delivered in the end, whatever a finite number of crashes and stops interrupts: the snapshot and the select loop get through, and
\* the runtime refuses no record of a serial log.
EventuallyDelivered ==
    <>[](\/ SkipsOnPurpose
         \/ phase = "failed" /\ (IF reason = "backwards" THEN ~SerialLog ELSE MayRefuse)
         \/ walEnd = Len(Wal) /\ Owed \subseteq delivered)
=============================================================================
