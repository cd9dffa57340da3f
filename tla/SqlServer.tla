------------------------------- MODULE SqlServer -------------------------------
(***************************************************************************)
(* The SQL Server source (rustium-sqlserver, source.rs and state.rs): the  *)
(* snapshot and its anchor, polls of the CDC change tables in batches that *)
(* cut transactions and update pairs, retention, signals, and incremental  *)
(* snapshots between watermark rows of the signal table.                   *)
(*                                                                         *)
(* The server is external.  Its log holds whole transactions in commit     *)
(* order, a transaction's place being its commit LSN; the capture job      *)
(* copies them to the change tables some time later and the cleanup job    *)
(* removes them.  The runtime is reduced to batches, as in MySql.          *)
(***************************************************************************)
EXTENDS Integers, FiniteSets, SequencesExt

CONSTANTS
    Setups,        \* transactions, tables, signals and configurations to run with
    Capacity,      \* bound on records sent and not yet consumed
    MaxCompleted   \* MAX_COMPLETED_SIGNAL_IDS

ASSUME SqlServerAssumption ==
    /\ {Capacity, MaxCompleted} \subseteq Nat \ {0}
    /\ \A s \in Setups :
        /\ s.mode \in {"initial", "when_needed", "never"} /\ s.channel \in {"kafka", "file"}
        /\ s.isolation \in {"snapshot", "read_committed"}
        /\ {s.heartbeats, s.cuts, s.signalTable} \subseteq BOOLEAN
        /\ s.fetchSize \in Nat \ {0} /\ s.chunkSize \in 1 .. Capacity - 1
        /\ {s.stops, s.breaks, s.cleanups, s.retries} \subseteq Nat

VARIABLES
    setup,       \* chosen once
    \* the server: transactions, the rows behind them (0: no row), versions of the columns
    \* (the change tables keep the first), how many of the script, captured, oldest kept
    log, table, layout, wrote, captured, cleaned,
    \* what survives a crash: rows and changes at the sink, checkpoint, signals done;
    \* since is where capture began
    view, delivered, ckpt, offset, since,
    \* the source task: phase and why it failed, columns of each table, last safe
    \* position, poll attempts, StreamingState, entries of the poll yet to be handled
    phase, reason, fields, lastSafe, attempts, conv, batch,
    \* snapshot in progress, incremental snapshots, chunk being read, external signal
    snapshot, inc, prep, ext,
    flight,      \* records sent and not yet consumed
    stops, breaks

server  == <<log, table, layout, wrote, captured, cleaned>>
durable == <<view, delivered, ckpt, offset, since>>
task    == <<phase, reason, fields, lastSafe, attempts, conv, batch>>
side    == <<snapshot, inc, prep, ext>>
bounds  == <<stops, breaks>>
vars    == <<setup, server, durable, task, side, flight, bounds>>

Script     == setup.script      \* transactions, each a sequence of changes
External   == setup.external    \* signals of the topic or the file
FetchSize  == setup.fetchSize   \* streaming.fetch.size
ChunkSize  == setup.chunkSize   \* incremental.snapshot.chunk.size
Heartbeats == setup.heartbeats  \* heartbeat.interval is positive
Keys       == DOMAIN setup.rows
Tables     == {key.table : key \in Keys}

-----------------------------------------------------------------------------
(* The server (external).                                                   *)

NoKey == [table |-> "none", k |-> 0]
NoChange == [op |-> "none", table |-> "none", k |-> 0, val |-> 0, id |-> 0, signal |-> NoKey]
Alter(t) == [NoChange EXCEPT !.op = "alter", !.table = t]

Business(op) == op \in {"c", "u", "d"}

Apply(txn) ==
    /\ log' = Append(log, txn)
    /\ table' = FoldLeft(LAMBDA t, c : IF Business(c.op) THEN [t EXCEPT ![[table |-> c.table, k |-> c.k]] = c.val]
                                     ELSE t, table, txn)
    /\ layout' = [t \in Tables |-> layout[t] + Cardinality({m \in DOMAIN txn : txn[m] = Alter(t)})]

Write ==
    /\ wrote < Len(Script) /\ wrote' = wrote + 1 /\ Apply(Script[wrote'])
    /\ UNCHANGED <<setup, captured, cleaned, durable, task, side, flight, bounds>>

\* The capture job.
Capture ==
    /\ captured < Len(log) /\ captured' = captured + 1
    /\ UNCHANGED <<setup, log, table, layout, wrote, cleaned, durable, task, side, flight, bounds>>

\* The cleanup job; it does not run between validate_retention and the read behind it.
Cleanup ==
    /\ cleaned < captured /\ cleaned <= setup.cleanups /\ cleaned' = cleaned + 1
    /\ UNCHANGED <<setup, log, table, layout, wrote, captured, durable, task, side, flight, bounds>>

-----------------------------------------------------------------------------
(* Positions (SqlServerPosition) and cursors (CdcCursor).                   *)

Top == 99            \* max_lsn_bytes
CommitSerial == 5    \* COMMIT_SERIAL

Position(commit, change, serial, snap) == [commit |-> commit, change |-> change, serial |-> serial, snap |-> snap]
None == Position(0, 0, 0, FALSE)

SortKey(p) == <<p.commit, p.change, IF p.snap THEN 0 ELSE 1, p.serial>>

Before(a, b) == \E n \in DOMAIN a : a[n] < b[n] /\ \A m \in 1 .. n - 1 : a[m] = b[m]

IsAfter(p, q) == Before(SortKey(q), SortKey(p))

IsAtOrBefore(p, q) == p = q \/ IsAfter(q, p)

Cursor(commit, change, code) == [commit |-> commit, change |-> change, code |-> code]

AtSnapshot(commit) == Cursor(commit, Top, CommitSerial)

CommitComplete(c) == c.change = Top /\ c.code = CommitSerial

\* safe_position
SafePosition(c) == Position(c.commit, c.change, CommitSerial, FALSE)

\* What transactions are made of: less changes than an LSN can tell apart, and those of
\* rows change rows there are.
Signals == [type : {"execute", "stop", "pause", "resume", "invalid"}, id : Nat, tables : Seq(STRING)]
TableNames == {"none", "signal"} \cup UNION {{key.table : key \in DOMAIN s.rows} : s \in Setups}
Changes ==
    [op : {"c", "u", "d", "alter", "signal", "open", "close"}, table : TableNames, k : Nat, val : Nat, id : Nat,
     signal : {NoKey} \cup Signals]

ASSUME ScriptAssumption ==
    \A s \in Setups :
        /\ IsFiniteSet(DOMAIN s.rows) /\ NoKey \notin DOMAIN s.rows
        /\ s.script \in Seq(Seq(Changes)) /\ s.external \in Seq(Signals)
        /\ \A n \in DOMAIN s.script :
            /\ Len(s.script[n]) < Top
            /\ \A m \in DOMAIN s.script[n] :
                LET c == s.script[n][m] IN Business(c.op) => [table |-> c.table, k |-> c.k] \in DOMAIN s.rows

\* The elements of a finite set, from the least on.  (SetToSortSeq chooses among all
\* permutations, which no proof can reach.)
InOrder(S, Less(_, _)) ==
    [n \in 1 .. Cardinality(S) |-> CHOOSE x \in S : Cardinality({y \in S : Less(y, x)}) = n - 1]

-----------------------------------------------------------------------------
(* Records and connector state.                                             *)

NoProgress == [id |-> 0, tables |-> <<>>, current |-> 1, last |-> 0, max |-> 0, paused |-> FALSE]
NoWindow == [id |-> 0, table |-> "none", rows |-> {}, max |-> 0, last |-> 0, count |-> 0, closeAt |-> 0]

\* Faulty variant: a restart takes a window of its progress to be opening still.
StillOpening(progress, completed) ==
    [progress |-> progress, completed |-> completed, opening |-> progress.id, window |-> NoWindow, serial |-> 0,
     dirty |-> FALSE]

\* SqlServerIncrementalSnapshot::new
NewIncremental(progress, completed) ==
    [progress |-> progress, completed |-> completed, opening |-> 0, window |-> NoWindow, serial |-> 0,
     dirty |-> FALSE]

\* encode_connector_state; NoState is a record without any.
State(c) == [progress |-> c.progress, completed |-> c.completed]
NoState == State(NewIncremental(NoProgress, <<0>>))

\* at: the change it is; order: total_order of its transaction; paired: an update has
\* its before image.
Item(pos, key, val) ==
    [pos |-> pos, key |-> key, val |-> val, at |-> <<0, 0>>, order |-> 0, paired |-> TRUE, commit |-> FALSE,
     snapshotEnd |-> FALSE, state |-> NoState, ack |-> FALSE]
Mark(pos, commit, state) == [Item(pos, NoKey, 0) EXCEPT !.commit = commit, !.state = state]

Room(n) == Len(flight) + n <= Capacity

\* The end of the source task with an error.
Fails(why) == phase' = "failed" /\ reason' = why

-----------------------------------------------------------------------------
(* SqlServerIncrementalSnapshot: signals.                                   *)

Active(c) == c.progress # NoProgress

\* discard_window
Discard(c) == [c EXCEPT !.opening = 0, !.window = NoWindow]

RememberCompleted(ids, id) ==
    LET all == Append(SelectSeq(ids, LAMBDA other : other # id), id)
    IN  IF Len(all) > MaxCompleted THEN Tail(all) ELSE all

\* A signal that cannot be parsed, an execute without a signal table to write
\* watermarks to, or one whose collections match no table.
Refused(c, s) ==
    \/ s.type = "invalid"
    \/ /\ s.type = "execute" /\ s.id \notin Range(c.completed) /\ ~Active(c)
       /\ ~setup.signalTable \/ Range(s.tables) \cap Tables = {}

Execute(c, s) ==
    IF s.id \in Range(c.completed) \/ Active(c) THEN c
    ELSE [c EXCEPT !.progress = [NoProgress EXCEPT !.id = s.id, !.tables = s.tables], !.dirty = TRUE]

\* The window goes whichever collection is stopped; the index falls on what follows.
Stop(c, s) ==
    LET p == c.progress
        Matches(t) == s.tables = <<>> \/ t \in Range(s.tables)
        rest == SelectSeq(p.tables, LAMBDA t : ~Matches(t))
        before == Len(SelectSeq(SubSeq(p.tables, 1, p.current - 1), LAMBDA t : ~Matches(t)))
        next == [p EXCEPT !.tables = rest, !.current = before + 1]
    IN  IF ~Active(c) \/ rest = p.tables THEN c
        ELSE IF before >= Len(rest)
        THEN [Discard(c) EXCEPT !.progress = NoProgress, !.dirty = TRUE,
                                !.completed = RememberCompleted(c.completed, p.id)]
        ELSE [Discard(c) EXCEPT !.dirty = TRUE,
                                !.progress = IF Matches(p.tables[p.current])
                                             THEN [next EXCEPT !.last = 0, !.max = 0] ELSE next]

SetPaused(c, paused) ==
    IF Active(c) /\ c.progress.paused # paused
    THEN [c EXCEPT !.progress.paused = paused, !.dirty = TRUE] ELSE c

\* handle_signal
Handle(c, s) ==
    CASE s.type = "execute" -> Execute(c, s)
      [] s.type = "stop" -> Stop(c, s)
      [] s.type = "pause" -> SetPaused(c, TRUE)
      [] s.type = "resume" -> SetPaused(c, FALSE)
      [] OTHER -> c

-----------------------------------------------------------------------------
(* StreamingState and read_change_batch.                                    *)

NoTxn == [commit |-> 0, order |-> 0]
NewConversion(c, resume) == [cursor |-> c, txn |-> NoTxn, pending |-> {}, resume |-> resume]

\* The rows of the change tables, and behind them the end of their transaction: an
\* update is an operation 3 and an operation 4.
CodesOf(op) == CASE op = "u" -> {3, 4} [] op = "d" -> {1} [] op = "alter" -> {} [] OTHER -> {2}

RowsOf(n) ==
    {r \in [commit : {n}, change : DOMAIN log[n], code : 1 .. 4] : r.code \in CodesOf(log[n][r.change].op)}

EntriesOf(n) == RowsOf(n) \cup {AtSnapshot(t) : t \in {r.commit : r \in RowsOf(n)}}

Precedes(a, b) == Before(<<a.commit, a.change, a.code>>, <<b.commit, b.change, b.code>>)

\* change_query: what is behind the cursor, up to the largest captured LSN.
EntriesAfter(c) == {e \in UNION {EntriesOf(n) : n \in 1 .. captured} : Precedes(c, e)}

\* Faulty variant: the row looked ahead is not compared.
AlwaysComplete(rows, last) ==
    \A r \in rows : Precedes(last, r) /\ r.commit = last.commit =>
        Cardinality({o \in rows : Precedes(o, r)}) >= FetchSize

\* Row last ends its transaction: the next one, maybe the row looked ahead, is of
\* another.
LastOfTxn(rows, last) == \A r \in rows : Precedes(last, r) => r.commit # last.commit

\* The entries of a batch: fetch-size rows, and the end of each complete transaction.
ToBatch(rows) ==
    LET read == {r \in rows : Cardinality({o \in rows : Precedes(o, r)}) < FetchSize}
        ended == {AtSnapshot(r.commit) : r \in {x \in read : LastOfTxn(rows, x)}}
    IN  InOrder(read \cup ended, Precedes)

\* Faulty variant: the order starts again with each batch.
OrderInBatch(txn, n) == [commit |-> n, order |-> 1]

\* transaction_metadata
OrderInTxn(txn, n) == [commit |-> n, order |-> IF txn.commit = n THEN txn.order + 1 ELSE 1]

ShouldSkip(p) == conv.resume # None /\ IsAtOrBefore(p, conv.resume)

-----------------------------------------------------------------------------
(* Start: validate_source, then the decisions of SqlServerSource::run.      *)

Mode == IF stops = 0 THEN setup.mode ELSE setup.restartMode

NoCheckpoint == [pos |-> None, snap |-> FALSE, state |-> NoState]

SnapshotNeeded == Mode # "never" /\ ~ckpt.snap

\* from_position: with connector state, any position is taken for a commit's.
ResumeCursor ==
    LET p == ckpt.pos
    IN  IF p.snap \/ p.serial = CommitSerial \/ ckpt.state # NoState THEN AtSnapshot(p.commit)
        ELSE Cursor(p.commit, 0, 0)

Resume == IF CommitComplete(ResumeCursor) THEN None ELSE ckpt.pos

\* validate_retention
Retained(c) == c.commit >= cleaned

StreamFrom(c, resume, safe) ==
    /\ phase' = "streaming" /\ conv' = NewConversion(c, resume) /\ batch' = <<>> /\ lastSafe' = safe

\* The columns of the captured tables are discovered.
Validate ==
    /\ phase = "down" /\ phase' = "starting" /\ fields' = layout
    /\ UNCHANGED <<setup, server, durable, reason, lastSafe, attempts, conv, batch, side, flight, bounds>>

\* run_snapshot: the anchor is read first. Under snapshot isolation all reads are of
\* that moment, otherwise each is of its own. recovery: no retention check follows.
BeginSnapshot(recovery) ==
    /\ phase' = "snapshot" /\ since' = captured
    /\ snapshot' = [anchor |-> captured, ordinal |-> 1, recovery |-> recovery,
                    moment |-> table,
                    rows |-> InOrder(Keys, LAMBDA a, b : setup.order[a] < setup.order[b])]
    /\ inc' = NewIncremental(NoProgress, <<>>)
    /\ UNCHANGED <<reason, lastSafe, conv, batch>>

StartSnapshot ==
    /\ phase = "starting" /\ SnapshotNeeded /\ BeginSnapshot(FALSE)
    /\ UNCHANGED <<setup, server, view, delivered, ckpt, offset, fields, attempts, prep, ext, flight, bounds>>

\* From the checkpoint; a position the cleanup job has passed is refused, or replaced
\* by a recovery snapshot.
StartFromCheckpoint ==
    /\ phase = "starting" /\ ~SnapshotNeeded /\ ckpt.pos # None
    /\ \/ /\ Retained(ResumeCursor)
          /\ StreamFrom(ResumeCursor, Resume, IF ckpt.pos.snap THEN SafePosition(ResumeCursor) ELSE ckpt.pos)
          /\ inc' = IF ckpt.state = NoState THEN NewIncremental(NoProgress, <<>>)
                    ELSE NewIncremental(ckpt.state.progress, ckpt.state.completed)
          /\ UNCHANGED <<since, reason, snapshot>>
       \/ ~Retained(ResumeCursor) /\ Mode = "when_needed" /\ BeginSnapshot(TRUE)
       \/ /\ ~Retained(ResumeCursor) /\ Mode # "when_needed" /\ Fails("retention")
          /\ UNCHANGED <<since, lastSafe, conv, batch, snapshot, inc>>
    /\ UNCHANGED <<setup, server, view, delivered, ckpt, offset, fields, attempts, prep, ext, flight, bounds>>

\* snapshot.mode never: from the largest captured LSN.
StartAtEnd ==
    /\ phase = "starting" /\ ~SnapshotNeeded /\ ckpt.pos = None
    /\ since' = captured /\ inc' = NewIncremental(NoProgress, <<>>)
    /\ StreamFrom(AtSnapshot(captured), None, SafePosition(AtSnapshot(captured)))
    /\ UNCHANGED <<setup, server, view, delivered, ckpt, offset, reason, fields, attempts, snapshot,
                   prep, ext, flight, bounds>>

Start == StartSnapshot \/ StartFromCheckpoint \/ StartAtEnd

\* snapshot_table, one row at a time.
SnapshotRow ==
    /\ phase = "snapshot" /\ snapshot.rows # <<>> /\ Room(1)
    /\ LET key == Head(snapshot.rows)
           val == (IF setup.isolation = "snapshot" THEN snapshot.moment ELSE table)[key]
           row == Item(Position(snapshot.anchor, 0, snapshot.ordinal, TRUE), key, val)
       IN  \/ val = 0 /\ UNCHANGED flight /\ snapshot' = [snapshot EXCEPT !.rows = Tail(@)]
           \/ /\ val # 0 /\ flight' = Append(flight, row)
              /\ snapshot' = [snapshot EXCEPT !.rows = Tail(@), !.ordinal = @ + 1]
    /\ UNCHANGED <<setup, server, durable, task, inc, prep, ext, bounds>>

SnapshotEnd ==
    /\ phase = "snapshot" /\ snapshot.rows = <<>> /\ Room(1)
    /\ flight' = Append(flight, [Mark(Position(snapshot.anchor, 0, snapshot.ordinal, TRUE), TRUE, NoState)
                                 EXCEPT !.snapshotEnd = TRUE])
    /\ LET c == AtSnapshot(snapshot.anchor)
       IN  \/ (snapshot.recovery \/ Retained(c)) /\ StreamFrom(c, None, SafePosition(c)) /\ UNCHANGED reason
           \/ /\ ~snapshot.recovery /\ ~Retained(c) /\ Fails("retention") /\ UNCHANGED <<conv, batch, lastSafe>>
    /\ UNCHANGED <<setup, server, durable, fields, attempts, side, bounds>>

Snapshot == SnapshotRow \/ SnapshotEnd

-----------------------------------------------------------------------------
(* poll_change_batch_with_retry; nothing else is done before it is over.    *)

\* The select! of run.
Idle == phase = "streaming" /\ batch = <<>> /\ prep.step = "none"
Ready == Idle /\ attempts = 0
BetweenTxns == conv.txn = NoTxn /\ CommitComplete(conv.cursor)

pollRest == <<setup, server, durable, fields, lastSafe, side, flight>>

PollFails ==
    /\ Idle /\ breaks < setup.breaks /\ breaks' = breaks + 1
    /\ \/ attempts < setup.retries /\ attempts' = attempts + 1 /\ UNCHANGED <<phase, reason>>
       \/ attempts >= setup.retries /\ Fails("retries") /\ UNCHANGED attempts
    /\ UNCHANGED <<pollRest, conv, batch, stops>>

Nothing == captured = conv.cursor.commit /\ CommitComplete(conv.cursor)

\* Reconnected, and nothing has been captured.
PollNothing ==
    /\ Idle /\ attempts > 0 /\ Nothing /\ attempts' = 0
    /\ UNCHANGED <<pollRest, phase, reason, conv, batch, bounds>>

\* Cleaned up behind the cursor, or columns the change tables do not have.
PollRefused ==
    /\ Idle /\ ~Nothing
    /\ \/ ~Retained(conv.cursor) /\ Fails("retention")
       \/ Retained(conv.cursor) /\ (\E t \in Tables : fields[t] # 1) /\ Fails("columns")
    /\ UNCHANGED <<pollRest, attempts, conv, batch, bounds>>

\* read_change_batch. Its rows are converted one by one as they are sent, here; the
\* task does nothing else meanwhile.
Poll ==
    /\ Idle /\ ~Nothing /\ Retained(conv.cursor) /\ \A t \in Tables : fields[t] = 1
    /\ attempts' = 0
    /\ LET rows == {e \in EntriesAfter(conv.cursor) : e.change # Top}
       IN  batch' = IF rows = {} THEN <<AtSnapshot(captured)>> ELSE ToBatch(rows)
    /\ UNCHANGED <<pollRest, phase, reason, conv, bounds>>

-----------------------------------------------------------------------------
(* The rows of a batch, one after another.                                  *)

Handling == phase = "streaming" /\ prep.step = "none" /\ batch # <<>> /\ batch' = Tail(batch)
Row(e) == e.change # Top
End(e) == e.change = Top /\ e.commit = conv.txn.commit

ChangeAt(e) == log[e.commit][e.change]
PositionAt(e) == Position(e.commit, e.change, e.code, FALSE)
Half(e) == <<e.commit, e.change>>

handlingRest == <<setup, server, durable, fields, attempts, snapshot, ext, bounds>>

\* Behind a row, and behind a transaction.
RowRead(e) ==
    conv' = [conv EXCEPT !.cursor = e, !.txn = OrderInTxn(conv.txn, e.commit), !.pending = @ \ {Half(e)},
                         !.resume = IF ShouldSkip(PositionAt(e)) THEN @ ELSE None]
TxnRead(e) ==
    conv' = [conv EXCEPT !.cursor = e, !.txn = NoTxn, !.resume = IF ShouldSkip(PositionAt(e)) THEN @ ELSE None]

Behind(p) == lastSafe' = IF p = lastSafe \/ IsAfter(p, lastSafe) THEN p ELSE lastSafe

\* The first half of an update waits for the second.
TakeHalf(e) ==
    /\ Row(e) /\ e.code = 3
    /\ conv' = [conv EXCEPT !.cursor = e, !.pending = @ \cup {Half(e)}]
    /\ UNCHANGED <<handlingRest, phase, reason, lastSafe, inc, prep, flight>>

\* What the connector that wrote the checkpoint had sent.
Skip(e) ==
    /\ Row(e) /\ e.code # 3 /\ ShouldSkip(PositionAt(e)) /\ RowRead(e)
    /\ UNCHANGED <<handlingRest, phase, reason, lastSafe, inc, prep, flight>>

\* Faulty variant: changes leave the window as it is.
ObserveNot(c, change) == c

\* observe_record: until the window closes, a changed key leaves it.
Observe(c, change) ==
    IF c.window.table = change.table /\ c.window.closeAt = 0
    THEN [c EXCEPT !.window.rows = {r \in @ : r.key.k # change.k}] ELSE c

Taken(e, op) == Row(e) /\ e.code # 3 /\ ~ShouldSkip(PositionAt(e)) /\ ChangeAt(e).op = op /\ RowRead(e)

TakeRow(e) ==
    /\ (\E op \in {"c", "u", "d"} : Taken(e, op)) /\ Room(1)
    /\ LET c == ChangeAt(e)
           item == Item(PositionAt(e), [table |-> c.table, k |-> c.k], c.val)
       IN  /\ flight' = Append(flight, [item EXCEPT !.at = Half(e), !.order = conv'.txn.order,
                                                    !.paired = (e.code # 4 \/ Half(e) \in conv.pending)])
           /\ inc' = Observe(inc, c) /\ Behind(PositionAt(e))
    /\ UNCHANGED <<handlingRest, phase, reason, prep>>

\* A poll that found nothing but a later LSN.
TakeIdle(e) ==
    /\ ~Row(e) /\ ~End(e) /\ Room(1)
    /\ conv' = [conv EXCEPT !.cursor = e]
    /\ LET p == SafePosition(e)
       IN  flight' = Append(flight, Mark(p, FALSE, NoState)) /\ Behind(p)
    /\ UNCHANGED <<handlingRest, phase, reason, inc, prep>>

ClosesAt(c, commit) == c.window # NoWindow /\ c.window.closeAt = commit

\* The connector state goes along with a commit when it has changed.
TakeCommit(e) ==
    /\ End(e) /\ ~ClosesAt(inc, e.commit) /\ TxnRead(e) /\ Room(1)
    /\ flight' = Append(flight, Mark(PositionAt(e), TRUE, IF inc.dirty THEN State(inc) ELSE NoState))
    /\ inc' = [inc EXCEPT !.dirty = FALSE] /\ Behind(PositionAt(e))
    /\ UNCHANGED <<handlingRest, phase, reason, prep>>

Opens(e) == inc.opening # 0 /\ ChangeAt(e).id = inc.opening
Closes(e) == inc.window # NoWindow /\ ChangeAt(e).id = inc.window.id

\* handle_internal_signal: watermarks of this run's window; others are ignored.
TakeOpen(e) ==
    /\ Taken(e, "open")
    /\ \/ Opens(e) /\ inc' = [inc EXCEPT !.opening = 0] /\ prep' = [prep EXCEPT !.step = "max", !.id = inc.opening]
       \/ ~Opens(e) /\ UNCHANGED <<inc, prep>>
    /\ UNCHANGED <<handlingRest, phase, reason, lastSafe, flight>>

\* Columns are compared again before the window closes.
TakeClose(e) ==
    /\ Taken(e, "close")
    /\ \/ /\ Closes(e) /\ layout[inc.window.table] = fields[inc.window.table]
          /\ inc' = [inc EXCEPT !.window.closeAt = e.commit] /\ UNCHANGED <<phase, reason>>
       \/ Closes(e) /\ layout[inc.window.table] # fields[inc.window.table] /\ Fails("schema") /\ UNCHANGED inc
       \/ ~Closes(e) /\ UNCHANGED <<phase, reason, inc>>
    /\ UNCHANGED <<handlingRest, lastSafe, flight, prep>>

\* A row somebody inserted into the signal table.
TakeSignal(e) ==
    /\ Taken(e, "signal")
    /\ LET s == ChangeAt(e).signal
       IN  \/ Refused(inc, s) /\ Fails("signal") /\ UNCHANGED inc
           \/ ~Refused(inc, s) /\ inc' = Handle(inc, s) /\ UNCHANGED <<phase, reason>>
    /\ UNCHANGED <<handlingRest, lastSafe, flight, prep>>

-----------------------------------------------------------------------------
(* Chunks: watermarks, read_incremental_chunk and finish_window.            *)

NoPrep == [step |-> "none", id |-> 0, max |-> 0]
ThisTable == inc.progress.tables[inc.progress.current]
Present(t) == {key \in Keys : key.table = t /\ table[key] # 0}
Watermark(op, id) == <<[NoChange EXCEPT !.op = op, !.table = "signal", !.id = id]>>

chunkRest == <<setup, wrote, captured, cleaned, durable, fields, lastSafe, attempts, conv, batch, snapshot, ext,
               flight>>

\* start_next_chunk: the tick of incremental_tick, between transactions.
StartChunk ==
    /\ Ready /\ BetweenTxns /\ Active(inc) /\ ~inc.progress.paused /\ inc.opening = 0 /\ inc.window = NoWindow
    /\ Apply(Watermark("open", Len(log) + 1)) /\ inc' = [inc EXCEPT !.opening = Len(log) + 1]
    /\ UNCHANGED <<chunkRest, phase, reason, prep, bounds>>

Preparing(step) == phase = "streaming" /\ prep.step = step

\* The connection the watermark is to be written on fails; that is not retried.
WatermarkFails ==
    /\ Preparing("close") /\ breaks < setup.breaks /\ breaks' = breaks + 1 /\ Fails("io")
    /\ UNCHANGED <<chunkRest, log, table, layout, inc, prep, stops>>

ChunkMax ==
    /\ Preparing("max")
    /\ \/ /\ layout[ThisTable] = fields[ThisTable]
          /\ prep' = [prep EXCEPT !.step = "rows",
                                  !.max = IF inc.progress.max # 0 THEN inc.progress.max
                                          ELSE Max({0} \cup {key.k : key \in Present(ThisTable)})]
          /\ UNCHANGED <<phase, reason>>
       \/ layout[ThisTable] # fields[ThisTable] /\ Fails("schema") /\ UNCHANGED prep
    /\ UNCHANGED <<chunkRest, log, table, layout, inc, bounds>>

\* Rows behind the last key, up to the largest there was (sqlserver_key_predicate).
ChunkRows ==
    /\ Preparing("rows") /\ prep' = [prep EXCEPT !.step = "close"]
    /\ LET due == {key \in Present(ThisTable) : key.k > inc.progress.last /\ key.k <= prep.max}
           keys == {key \in due : Cardinality({x \in due : x.k < key.k}) < ChunkSize}
       IN  inc' = [inc EXCEPT !.window =
                    [id |-> prep.id, table |-> ThisTable, rows |-> {[key |-> key, val |-> table[key]] : key \in keys},
                     max |-> prep.max, last |-> Max({0} \cup {key.k : key \in keys}),
                     count |-> Cardinality(keys), closeAt |-> 0]]
    /\ UNCHANGED <<chunkRest, phase, reason, log, table, layout, bounds>>

CloseMark ==
    /\ Preparing("close") /\ prep' = NoPrep /\ Apply(Watermark("close", prep.id))
    /\ UNCHANGED <<chunkRest, phase, reason, inc, bounds>>

Chunk == StartChunk \/ ChunkMax \/ ChunkRows \/ CloseMark

\* sqlserver_incremental_position
IncrementalPosition(base, n) == [base EXCEPT !.serial = @ + n, !.snap = FALSE]

\* Progress behind a window: the next key, the next table or the end.
Advance(c) ==
    LET w == c.window
        max == IF c.progress.max = 0 THEN w.max ELSE c.progress.max
        complete == max = 0 \/ w.last = max \/ w.count < ChunkSize
        next == IF complete THEN [c.progress EXCEPT !.current = @ + 1, !.last = 0, !.max = 0]
                ELSE [c.progress EXCEPT !.last = w.last, !.max = max]
    IN  IF next.current > Len(next.tables)
        THEN [c EXCEPT !.progress = NoProgress, !.completed = RememberCompleted(@, next.id)]
        ELSE [c EXCEPT !.progress = next]

\* In place of the commit of the close watermark.
FinishWindow(e) ==
    /\ End(e) /\ ClosesAt(inc, e.commit) /\ TxnRead(e)
    /\ Room(Cardinality(inc.window.rows) + 1)
    /\ LET rows == InOrder(inc.window.rows, LAMBDA a, b : a.key.k < b.key.k)
           base == PositionAt(e)
           last == IncrementalPosition(base, inc.serial + Len(rows) + 1)
           after == Advance(inc)
       IN  /\ flight' = flight
                 \o [n \in DOMAIN rows |-> Item(IncrementalPosition(base, inc.serial + n), rows[n].key,
                                                rows[n].val)]
                 \o <<Mark(last, TRUE, State(after))>>
           /\ inc' = [after EXCEPT !.window = NoWindow, !.dirty = FALSE, !.serial = @ + Len(rows) + 1]
           /\ lastSafe' = last
    /\ UNCHANGED <<handlingRest, phase, reason, prep>>

Records ==
    /\ Handling
    /\ LET e == Head(batch)
       IN  \/ TakeHalf(e) \/ Skip(e) \/ TakeRow(e) \/ TakeIdle(e) \/ TakeCommit(e) \/ TakeOpen(e)
           \/ TakeClose(e) \/ TakeSignal(e) \/ FinishWindow(e)

-----------------------------------------------------------------------------
(* The other branches of run.                                               *)

Heartbeat ==
    /\ Heartbeats /\ Ready /\ CommitComplete(conv.cursor) /\ Room(2)
    /\ flight' = Append(flight, Mark(lastSafe, FALSE, NoState))
    /\ UNCHANGED <<setup, server, durable, task, side, bounds>>

externalRest == <<setup, server, view, delivered, ckpt, since, fields, lastSafe, attempts, conv, batch,
                  snapshot, prep, bounds>>

\* A signal of the runtime's channel: applied, and its state sent with the
\* acknowledgement.
TakeExternal ==
    /\ setup.channel = "kafka" /\ Ready /\ BetweenTxns /\ ext = "idle" /\ offset < Len(External)
    /\ LET s == External[offset + 1]
       IN  \/ s.type = "invalid" /\ ext' = "acked" /\ UNCHANGED <<phase, reason, inc, flight>>
           \/ s.type # "invalid" /\ Refused(inc, s) /\ Fails("signal") /\ UNCHANGED <<inc, flight, ext>>
           \/ /\ ~Refused(inc, s) /\ Room(1) /\ ext' = "sent"
              /\ inc' = [Handle(inc, s) EXCEPT !.dirty = FALSE]
              /\ flight' = Append(flight, [Mark(lastSafe, FALSE, State(inc')) EXCEPT !.ack = TRUE])
              /\ UNCHANGED <<phase, reason>>
    /\ UNCHANGED <<externalRest, offset>>

\* The topic's offset moves behind the acknowledged signal.
CommitOffset ==
    /\ ext = "acked" /\ ext' = "idle" /\ offset' = offset + 1
    /\ UNCHANGED <<externalRest, phase, reason, inc, flight>>

\* The state behind each of the lines.
Applied(lines) ==
    LET c[n \in 0 .. Len(lines)] == IF n = 0 THEN inc ELSE Handle(c[n - 1], lines[n])
    IN  c

\* read_and_clear: the file is emptied, then its lines are applied and their state
\* sent if it has changed; lines that cannot be parsed are skipped.
TakeFile ==
    /\ setup.channel = "file" /\ Ready /\ BetweenTxns /\ offset < Len(External) /\ Room(1)
    /\ offset' = Len(External)
    /\ LET lines == SubSeq(External, offset + 1, Len(External))
           after == Applied(lines)
           all == after[Len(lines)]
           accepted == \A n \in DOMAIN lines : lines[n].type = "invalid" \/ ~Refused(after[n - 1], lines[n])
       IN  \/ ~accepted /\ Fails("signal") /\ UNCHANGED <<inc, flight>>
           \/ /\ accepted /\ inc' = [all EXCEPT !.dirty = FALSE]
              /\ flight' = IF all.dirty THEN Append(flight, Mark(lastSafe, FALSE, State(inc'))) ELSE flight
              /\ UNCHANGED <<phase, reason>>
    /\ UNCHANGED <<externalRest, ext>>

ExternalSignals == TakeExternal \/ CommitOffset \/ TakeFile

-----------------------------------------------------------------------------
(* The runtime (Runtime has the whole of it) and stops.                     *)

Working == phase \notin {"down", "failed"}

\* Batches the runtime may write: prefixes of what was sent, up to a commit.  They
\* end within a transaction where setup.cuts: it is larger than max.batch.size, or the
\* flush interval ends.
Batches ==
    {n \in 1 .. Len(flight) :
        /\ \A m \in 1 .. n - 1 : ~flight[m].commit
        /\ setup.cuts \/ flight[n].commit \/ flight[n].key = NoKey}
Ordered(n) == \A m \in 1 .. n - 1 : IsAtOrBefore(flight[m].pos, flight[m + 1].pos)

Deliver(n) ==
    /\ view' = FoldLeft(LAMBDA v, r : IF r.key = NoKey THEN v ELSE [v EXCEPT ![r.key] = r.val], view,
                        SubSeq(flight, 1, n))
    /\ delivered' = delivered \cup ({flight[m].at : m \in 1 .. n} \ {<<0, 0>>})

SavedState(n) ==
    LET states == {m \in 1 .. n : flight[m].state # NoState}
    IN  IF states = {} THEN ckpt.state ELSE flight[Max(states)].state

Flush ==
    /\ Working
    /\ \E n \in Batches :
        /\ Ordered(n) /\ Deliver(n)
        /\ ckpt' = [pos |-> flight[n].pos, snap |-> ckpt.snap \/ flight[n].snapshotEnd, state |-> SavedState(n)]
        /\ ext' = IF \E m \in 1 .. n : flight[m].ack THEN "acked" ELSE ext
        /\ flight' = SubSeq(flight, n + 1, Len(flight))
    /\ UNCHANGED <<setup, server, offset, since, task, snapshot, inc, prep, bounds>>

NoSnapshot == [anchor |-> 0, ordinal |-> 0, recovery |-> FALSE, moment |-> setup.rows, rows |-> <<>>]

Cleared ==
    /\ reason' = "none" /\ fields' = [t \in Tables |-> 0] /\ lastSafe' = None /\ attempts' = 0
    /\ conv' = NewConversion(AtSnapshot(0), None) /\ batch' = <<>>
    /\ snapshot' = NoSnapshot /\ inc' = NewIncremental(NoProgress, <<>>) /\ prep' = NoPrep /\ ext' = "idle"
    /\ flight' = <<>>

\* A crash, before or after the sink took a batch; only the checkpoint remains.
Crash ==
    /\ phase # "down" /\ stops < setup.stops /\ stops' = stops + 1
    /\ \E n \in {0} \cup {m \in Batches : Ordered(m)} : Deliver(n)
    /\ phase' = "down" /\ Cleared
    /\ UNCHANGED <<setup, server, ckpt, offset, since, breaks>>

-----------------------------------------------------------------------------
\* The first LSN is that of the capture instances.
Init ==
    /\ setup \in Setups
    /\ log = <<<<>>>> /\ table = setup.rows /\ layout = [t \in Tables |-> 1] /\ wrote = 0 /\ captured = 1 /\ cleaned = 1
    /\ view = [key \in Keys |-> 0] /\ delivered = {} /\ ckpt = NoCheckpoint /\ offset = 0 /\ since = 0
    /\ phase = "down" /\ reason = "none" /\ fields = [t \in Tables |-> 0] /\ lastSafe = None /\ attempts = 0
    /\ conv = NewConversion(AtSnapshot(0), None) /\ batch = <<>>
    /\ snapshot = NoSnapshot /\ inc = NewIncremental(NoProgress, <<>>) /\ prep = NoPrep /\ ext = "idle"
    /\ flight = <<>> /\ stops = 0 /\ breaks = 0

Next ==
    \/ Write \/ Capture \/ Cleanup \/ Validate \/ Start \/ Snapshot
    \/ PollFails \/ PollNothing \/ PollRefused \/ Poll \/ Records
    \/ Chunk \/ WatermarkFails \/ Heartbeat \/ ExternalSignals \/ Flush \/ Crash

Spec == Init /\ [][Next]_vars

(***************************************************************************)
(* The server runs its script and its jobs; task and runtime run.  Polls,  *)
(* heartbeats, signals and chunks are branches of one select! and none can *)
(* keep another from its turn for ever.                                    *)
(***************************************************************************)
Fairness ==
    /\ WF_vars(Write) /\ WF_vars(Capture) /\ WF_vars(Validate) /\ WF_vars(Start) /\ WF_vars(Snapshot)
    /\ SF_vars(Poll) /\ WF_vars(PollNothing) /\ WF_vars(PollRefused) /\ WF_vars(Records)
    /\ SF_vars(Chunk) /\ SF_vars(ExternalSignals) /\ WF_vars(Flush)

FairSpec == Spec /\ Fairness

-----------------------------------------------------------------------------
(* Properties.                                                              *)

\* Changes of tables since the LSN capture began at, and those the cursor has passed.
Due == {x \in UNION {{n} \X DOMAIN log[n] : n \in since + 1 .. Len(log)} : Business(log[x[1]][x[2]].op)}
Passed == {x \in Due : ~Precedes(conv.cursor, Cursor(x[1], x[2], 4))}

\* What the cursor has passed has been sent or is about to be, also when a poll ends
\* within a transaction or between the halves of an update, and when the stream is
\* taken up again (change_query, should_skip).
NoGap ==
    phase = "streaming" =>
        Passed \subseteq delivered \cup {r.at : r \in Range(flight)}

\* The place of a change among those of its transaction that change tables have.
Place(at) == Cardinality({m \in 1 .. at[2] : log[at[1]][m].op # "alter"})

\* An event has both images of its update, and its place in the transaction as its
\* order, whichever polls and restarts the transaction was read in.
EventsWhole ==
    \A r \in Range(flight) : r.paired /\ r.order = Place(r.at)

\* Everything has happened, been captured, read, delivered and checkpointed.
CaughtUp ==
    /\ wrote = Len(Script) /\ captured = Len(log) /\ Ready /\ Nothing /\ flight = <<>>
    /\ ext = "idle" /\ offset = Len(External)

Commands ==
    Range(External) \cup {c.signal : c \in {x \in UNION {Range(txn) : txn \in Range(Script)} : x.op = "signal"}}

Completed(t) ==
    /\ \E s \in Commands : s.type = "execute" /\ s.id \in Range(inc.completed) /\ t \in Range(s.tables)
    /\ \A s \in Commands : s.type # "stop"

Streamed(key) ==
    \E n \in since + 1 .. Len(log) :
        \E c \in Range(log[n]) : Business(c.op) /\ [table |-> c.table, k |-> c.k] = key

\* Rows that were gone before capture began: a snapshot that did not end may have
\* shown them, and nothing takes them back.
Gone(key) == table[key] = 0 /\ ~Streamed(key)

\* The sink has what the tables have: where a snapshot has read a row or the stream
\* has shown it last, and in every table an incremental snapshot has completed; a
\* chunk never leaves an older row behind than the stream had shown, although the
\* capture job, the polls and the chunk's own reads are behind the commits.
Converges ==
    CaughtUp =>
        \A key \in Keys :
            ~Gone(key) /\ (ckpt.snap \/ Completed(key.table) \/ Streamed(key)) => view[key] = table[key]

\* Every accepted snapshot completes, or the connector has failed for a reason it
\* reports: lost watermarks, batches that end beside one, restarts within a window
\* and signals that discard it do not stall it.
SnapshotsComplete ==
    <>[](~Active(inc) \/ inc.progress.paused \/ phase = "failed")

=============================================================================
