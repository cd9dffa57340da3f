----------------------------- MODULE PgIncremental -----------------------------
(***************************************************************************)
(* Signals and incremental snapshots of the PostgreSQL source              *)
(* (rustium-postgresql, incremental_snapshot.rs and the signal branches of *)
(* source.rs): a table is read in chunks beside the stream, each chunk     *)
(* between two watermarks, and rows of a chunk give way to changes the     *)
(* stream shows meanwhile.                                                 *)
(*                                                                         *)
(* The server is external: transactions of a script write rows and         *)
(* signals, commit in any order, and are decoded as in PgStreaming.  The   *)
(* connector decodes from the position of its checkpoint; slot and initial *)
(* snapshot are the subject of PgStreaming and left out, and so are schema *)
(* changes.  The runtime is reduced to batches: a batch is a prefix of the *)
(* records sent, up to the first commit at most.                           *)
(***************************************************************************)
EXTENDS Naturals, FiniteSets, SequencesExt

CONSTANTS
    Setups,        \* databases, signals and configurations to run with
    Capacity,      \* bound on records sent and not yet consumed
    MaxCompleted   \* MAX_COMPLETED_SIGNAL_IDS

NoKey == [table |-> "none", k |-> 0]
NoSignal == [type |-> "none", id |-> 0, tables |-> <<>>]

\* A signal asks to execute, stop, pause or resume; id is its identity and
\* tables are the collections it names (none: all of them, which no execute may say).
Signals ==
    {s \in [type : {"execute", "stop", "pause", "resume"}, id : Nat \ {0}, tables : Seq(STRING)] :
        s.type = "execute" => s.tables # <<>>}

\* A statement of the script: a put of a row (0: a delete), a signal, or the commit.
Statements ==
    {s \in [op : {"put", "signal", "commit"}, tx : STRING, key : [table : STRING, k : Nat], val : Nat,
            signal : Signals \cup {NoSignal}] :
        s.op = "signal" => s.signal \in Signals}

ASSUME IncrementalAssumption ==
    /\ {Capacity, MaxCompleted} \subseteq Nat \ {0}
    /\ \A s \in Setups :
        /\ s.readOnly \in BOOLEAN /\ s.heartbeats \in BOOLEAN /\ s.streamed \in BOOLEAN
        /\ s.isolated \in BOOLEAN /\ s.channel \in {"kafka", "file"}
        /\ s.chunkSize \in 1 .. Capacity - 1 /\ s.stops \in Nat
        /\ s.streamed => s.stops = 0
        /\ s.external \in Seq(Signals) /\ s.script \in Seq(Statements)
        /\ IsFiniteSet(DOMAIN s.rows) /\ DOMAIN s.rows \subseteq [table : STRING, k : Nat \ {0}]
        /\ s.rows \in [DOMAIN s.rows -> Nat]

\* "none" is the name of no collection.
ASSUME NamesAssumption ==
    \A s \in Setups :
        \A g \in Range(s.external) \cup {c.signal : c \in Range(s.script)} : "none" \notin Range(g.tables)

VARIABLES
    setup,       \* chosen once
    \* the database: next statement of the script, transaction ids of open
    \* transactions, the next id, the last one that ended, the log, the rows
    step, open, nextXid, lastDone, wal, table,
    \* what survives a crash: rows at the sink, checkpoint, offset of external signals
    view, ckpt, offset,
    \* the connector task: controller, chunk being prepared, open transaction,
    \* replay filter, last safe position, external signal, lines read of the signal file
    phase, ctl, prep, txn, resume, lastSafe, ext, lines,
    \* its connection: first record asked for, records decoded, events to come
    from, decoded, wire,
    flight,      \* records sent and not yet consumed
    stops        \* crashes and restarts so far

database  == <<step, open, nextXid, lastDone, wal, table>>
durable   == <<view, ckpt, offset>>
connector == <<phase, ctl, prep, txn, resume, lastSafe, ext, lines>>
conn      == <<from, decoded, wire>>
vars      == <<setup, database, durable, connector, conn, flight, stops>>

Script     == setup.script     \* statements [op, tx, key, val, signal] of the database
External   == setup.external   \* signals of the topic or the file
ReadOnly   == setup.readOnly   \* source.read_only
ChunkSize  == setup.chunkSize  \* source.incremental_snapshot_chunk_size
Streamed   == setup.streamed   \* the server sends transactions while they are in progress
Heartbeats == setup.heartbeats \* heartbeat.interval is positive
Isolated   == setup.isolated   \* no transaction is open while the connector commits a watermark
MaxStops   == setup.stops      \* bound on crashes and restarts
Keys       == DOMAIN setup.rows

-----------------------------------------------------------------------------
(* Positions.  Log record i is the LSN i; a commit ends behind its record.  *)
(* Rows of a chunk have snapshot positions, which come first at their LSN.  *)

WindowAt(i)    == 6 * i
SafeAt(i)      == 6 * i + 1
ChangeAt(i)    == 6 * i + 2
WindowAtEnd(i) == 6 * i + 3
CommitAt(i)    == 6 * i + 5

IsWindow(p) == p % 3 = 0

\* postgres_streaming_position of a snapshot position; others stay as they are.
SafePosition(p) == IF IsWindow(p) THEN p + 1 ELSE p

\* The first log record at or behind a position.
FirstRecord(p) == IF p % 6 < 3 THEN p \div 6 ELSE p \div 6 + 1

-----------------------------------------------------------------------------
(* IncrementalSnapshotController: what it persists, and its operations.     *)

NoProgress == [id |-> 0, tables |-> <<>>, current |-> 1, last |-> 0, max |-> 0, chunk |-> 0,
               paused |-> FALSE]
NoSnapshot == [xmin |-> 0, xmax |-> 0]
NoChunk    == [id |-> 0, chunk |-> 0]

New(saved) ==
    [progress |-> saved.progress, completed |-> saved.completed, window |-> {}, table |-> "none",
     end |-> 0, complete |-> FALSE, chunk |-> NoChunk, open |-> FALSE, dirty |-> FALSE,
     prepare |-> FALSE, low |-> NoSnapshot, high |-> NoSnapshot]

State(c) == [progress |-> c.progress, completed |-> c.completed]

Active(c) == c.progress # NoProgress
Watched(c) == c.high # NoSnapshot

\* The members of a finite set of numbers, in ascending order.
InOrder(S) == [n \in 1 .. Cardinality(S) |-> CHOOSE i \in S : Cardinality({j \in S : j <= i}) = n]

\* What a sequence has at the given places.
Retain(seq, places) == LET order == InOrder(places) IN [n \in DOMAIN order |-> seq[order[n]]]

\* Faulty variant: completed signals are forgotten.
RememberCompletedNot(ids, id) == ids

\* The newest ids, each once.
RememberCompleted(ids, id) ==
    LET all == Append(Retain(ids, {n \in DOMAIN ids : ids[n] # id}), id)
    IN  IF Len(all) > MaxCompleted THEN Tail(all) ELSE all

\* Faulty variant: only the snapshot in progress counts.
IsDuplicateActive(c, id) == c.progress.id = id

IsDuplicate(c, id) == id \in Range(c.completed) \/ c.progress.id = id

Accepts(c, s) == s.type = "execute" /\ ~IsDuplicate(c, s.id) /\ ~Active(c)

Execute(c, s) ==
    [c EXCEPT !.progress = [NoProgress EXCEPT !.id = s.id, !.tables = s.tables, !.chunk = 1],
              !.dirty = TRUE]

Pause(c) ==
    IF Active(c) /\ ~c.progress.paused
    THEN [c EXCEPT !.progress.paused = TRUE, !.prepare = FALSE, !.dirty = TRUE]
    ELSE c

\* Faulty variant: the chunk that is due waits for the next one to close.
ResumePreparesNot(c) == IF Active(c) THEN [c EXCEPT !.progress.paused = FALSE, !.dirty = TRUE] ELSE c

Resume(c) ==
    IF Active(c) /\ c.progress.paused
    THEN [c EXCEPT !.progress.paused = FALSE, !.prepare = (c.table = "none"), !.dirty = TRUE]
    ELSE c

ClearChunk(c) ==
    [c EXCEPT !.window = {}, !.table = "none", !.end = 0, !.complete = FALSE, !.chunk = NoChunk,
              !.open = FALSE, !.prepare = FALSE, !.low = NoSnapshot, !.high = NoSnapshot]

\* stop_snapshot: the collections that match are taken out; when the current one
\* is among them, its chunk is dropped and the index falls on what follows it.
Stop(c, s) ==
    LET p == c.progress
        Matches(t) == s.tables = <<>> \/ t \in Range(s.tables)
        kept == {n \in DOMAIN p.tables : ~Matches(p.tables[n])}
        before == Cardinality({n \in kept : n < p.current})
        current == IF before + 1 < Cardinality(kept) THEN before + 1 ELSE Cardinality(kept)
        rest == [p EXCEPT !.tables = Retain(p.tables, kept), !.current = current]
    IN  IF ~Active(c) \/ kept = DOMAIN p.tables THEN c
        ELSE IF kept = {}
        THEN [ClearChunk(c) EXCEPT !.progress = NoProgress, !.dirty = TRUE,
                                   !.completed = RememberCompleted(c.completed, p.id)]
        ELSE IF p.current \notin kept
        THEN [ClearChunk(c) EXCEPT !.progress = [rest EXCEPT !.last = 0, !.max = 0, !.chunk = p.chunk + 1],
                                   !.prepare = ~p.paused, !.dirty = TRUE]
        ELSE [c EXCEPT !.progress = rest, !.dirty = TRUE]

\* handle_signal for the four commands; an accepted execute also prepares a chunk.
Handle(c, s) ==
    CASE s.type = "execute" -> IF Accepts(c, s) THEN Execute(c, s) ELSE c
      [] s.type = "stop" -> Stop(c, s)
      [] s.type = "pause" -> Pause(c)
      [] s.type = "resume" -> Resume(c)

\* advance_progress: the next chunk, the next collection, or the end.
Advance(c) ==
    LET p == c.progress
        next == IF c.complete
                THEN [p EXCEPT !.current = p.current + 1, !.last = 0, !.max = 0, !.chunk = p.chunk + 1]
                ELSE [p EXCEPT !.last = c.end, !.chunk = p.chunk + 1]
    IN  IF next.current > Len(p.tables)
        THEN [c EXCEPT !.progress = NoProgress, !.completed = RememberCompleted(c.completed, p.id)]
        ELSE [c EXCEPT !.progress = next]

\* Faulty variant: the pause is not asked for.
ContinuesPaused(c) == Active(c)

Continues(c) == Active(c) /\ ~c.progress.paused

\* close_current_window; its rows go out with it.
Close(c) ==
    LET a == Advance(c)
    IN  [a EXCEPT !.window = {}, !.table = "none", !.open = FALSE, !.chunk = NoChunk,
                  !.low = NoSnapshot, !.high = NoSnapshot, !.dirty = TRUE,
                  !.prepare = Continues(a)]

\* Faulty variant: a change takes all rows out of the window.
DeduplicateAll(c, key) == IF c.open /\ key.table = c.table THEN [c EXCEPT !.window = {}] ELSE c

\* Faulty variant: changes do not take rows out of the window.
DeduplicateNot(c, key) == c

\* A change the stream shows takes its row out of the open window.
Deduplicate(c, key) ==
    IF c.open /\ key.table = c.table THEN [c EXCEPT !.window = {r \in @ : r.key # key}] ELSE c

\* observe_read_only_event: the window opens at the low watermark's xmin.
Observe(c, xid) == IF Watched(c) /\ xid >= c.low.xmin THEN [c EXCEPT !.open = TRUE] ELSE c

Larger(m, n) == IF m > n THEN m ELSE n

ClosesAtEvent(c, xid) == Watched(c) /\ c.open /\ xid > Larger(c.high.xmax, c.low.xmax)
ClosesAtCommit(c, xid) == Watched(c) /\ (xid = c.high.xmax \/ xid <= c.high.xmin)

-----------------------------------------------------------------------------
(* The database (external).                                                 *)

\* Log records name their transaction; key and value belong to a put, a value 0
\* stands for a delete, and mark is a watermark of chunk [id, chunk].
Record(kind, xid, key, val, signal, mark) ==
    [kind |-> kind, xid |-> xid, key |-> key, val |-> val, signal |-> signal, mark |-> mark]

RecordsOf(xid, log) == {i \in DOMAIN log : log[i].xid = xid}

\* The rows once transaction xid has committed.
AfterCommit(xid) ==
    [key \in Keys |->
        LET writes == {i \in RecordsOf(xid, wal) : wal[i].kind = "put" /\ wal[i].key = key}
        IN  IF writes = {} THEN table[key] ELSE wal[Max(writes)].val]

Write ==
    /\ step <= Len(Script) /\ step' = step + 1
    /\ LET s == Script[step]
           begins == open[s.tx] = 0
           xid == IF begins THEN nextXid ELSE open[s.tx]
       IN  /\ nextXid' = IF begins THEN nextXid + 1 ELSE nextXid
           /\ wal' = Append(wal, Record(s.op, xid, s.key, s.val, s.signal, NoChunk))
           /\ open' = [open EXCEPT ![s.tx] = IF s.op = "commit" THEN 0 ELSE xid]
           /\ lastDone' = IF s.op = "commit" THEN Larger(xid, lastDone) ELSE lastDone
           /\ table' = IF s.op = "commit" THEN AfterCommit(xid) ELSE table
    /\ UNCHANGED <<setup, durable, connector, conn, flight, stops>>

Event(kind, i) == [kind |-> kind, i |-> i]

Changes(indices) ==
    LET order == InOrder(indices) IN [n \in DOMAIN order |-> Event(wal[order[n]].kind, order[n])]

\* Transactions that write rows may be large enough to be sent in progress.
InProgressSent(xid) == Streamed /\ \E i \in RecordsOf(xid, wal) : wal[i].kind = "put"

\* A transaction is sent at its commit, or record by record while in progress.
Decode(i) ==
    LET r == wal[i]
        others == RecordsOf(r.xid, wal) \ {i}
    IN  CASE i < from -> <<>>
          [] i >= from /\ r.kind = "commit" /\ InProgressSent(r.xid) -> <<Event("commit", i)>>
          [] i >= from /\ r.kind = "commit" /\ ~InProgressSent(r.xid) ->
                <<Event("begin", i)>> \o Changes(others) \o <<Event("commit", i)>>
          [] i >= from /\ r.kind # "commit" ->
                IF InProgressSent(r.xid) THEN <<Event("start", i)>> \o Changes({i}) ELSE <<>>

Send ==
    /\ phase = "running" /\ wire = <<>> /\ decoded < Len(wal)
    /\ wire' = Decode(decoded + 1) /\ decoded' = decoded + 1
    /\ UNCHANGED <<setup, database, durable, connector, from, flight, stops>>

\* pg_current_snapshot: ids from xmax on were not complete, and none below xmin runs.
CurrentSnapshot ==
    LET xmax == lastDone + 1
        running == {open[t] : t \in DOMAIN open} \ {0}
    IN  [xmin |-> Min({x \in running : x < xmax} \cup {xmax}), xmax |-> xmax]

-----------------------------------------------------------------------------
(* prepare_chunk: statements on a connection of their own, between which    *)
(* the database goes on; the connector task waits.                          *)

NoPrep == [step |-> "none", rows |-> {}, end |-> 0, max |-> 0, complete |-> FALSE, low |-> NoSnapshot]
StartPrep == [NoPrep EXCEPT !.step = "open"]

\* The keys of the chunk's predicates; an empty collection had no maximum.
NextKeys(t, last, max) ==
    {key \in Keys : key.table = t /\ key.k > last /\ (max # 0 => key.k <= max)}

ThisTable == ctl.progress.tables[ctl.progress.current]

\* The open watermark commits; without writes, an id is allocated and the low
\* snapshot taken.
Mark(kind) ==
    LET id == [id |-> ctl.progress.id, chunk |-> ctl.progress.chunk]
    IN  /\ Isolated => Range(open) \subseteq {0}
        /\ wal' = wal \o <<Record(kind, nextXid, NoKey, 0, NoSignal, id),
                           Record("commit", nextXid, NoKey, 0, NoSignal, NoChunk)>>

AfterOpen == IF ctl.progress.max = 0 THEN "max" ELSE "read"

PrepareOpen ==
    /\ prep.step = "open"
    /\ nextXid' = nextXid + 1 /\ lastDone' = nextXid
    /\ \/ ~ReadOnly /\ Mark("open") /\ prep' = [prep EXCEPT !.step = AfterOpen]
       \/ ReadOnly /\ UNCHANGED wal /\ prep' = [prep EXCEPT !.step = "low"]
    /\ UNCHANGED <<setup, step, open, table, durable, phase, ctl, txn, resume, lastSafe, ext, lines, conn,
                   flight, stops>>

prepareRest ==
    <<setup, database, durable, phase, ctl, txn, resume, lastSafe, ext, lines, conn, flight, stops>>

PrepareLow ==
    /\ prep.step = "low" /\ prep' = [prep EXCEPT !.step = AfterOpen, !.low = CurrentSnapshot]
    /\ UNCHANGED prepareRest

Present(t) == {key \in Keys : key.table = t /\ table[key] # 0}

\* The maximum key, on the first chunk of a collection; 0 if it is empty.
PrepareMax ==
    /\ prep.step = "max"
    /\ prep' = [prep EXCEPT !.step = "read",
                            !.max = Max({0} \cup {key.k : key \in Present(ThisTable)})]
    /\ UNCHANGED prepareRest

PrepareRead ==
    /\ prep.step = "read"
    /\ LET max == Larger(ctl.progress.max, prep.max)
           due == NextKeys(ThisTable, ctl.progress.last, max) \cap Present(ThisTable)
           rows == {key \in due : Cardinality({x \in due : x.k < key.k}) < ChunkSize}
           end == Max({0} \cup {key.k : key \in rows})
       IN  prep' = [prep EXCEPT !.step = "close", !.end = end,
                                !.rows = {[key |-> key, val |-> table[key]] : key \in rows},
                                !.complete = (end \in {0, max} \/ Cardinality(rows) < ChunkSize)]
    /\ UNCHANGED prepareRest

\* The close watermark commits, or the high snapshot is taken, and the chunk
\* becomes the current one.
PrepareClose ==
    /\ prep.step = "close" /\ prep' = NoPrep
    /\ \/ ~ReadOnly /\ Mark("close") /\ nextXid' = nextXid + 1 /\ lastDone' = nextXid
       \/ ReadOnly /\ UNCHANGED <<wal, nextXid, lastDone>>
    /\ ctl' = [ctl EXCEPT !.window = prep.rows, !.end = prep.end, !.complete = prep.complete,
                          !.chunk = [id |-> ctl.progress.id, chunk |-> ctl.progress.chunk],
                          !.table = ThisTable, !.open = FALSE, !.low = prep.low,
                          !.high = IF ReadOnly THEN CurrentSnapshot ELSE NoSnapshot,
                          !.progress.max = IF @ = 0 THEN prep.max ELSE @,
                          !.dirty = @ \/ ctl.progress.max = 0]
    /\ UNCHANGED <<setup, step, open, table, durable, phase, txn, resume, lastSafe, ext, lines, conn,
                   flight, stops>>

-----------------------------------------------------------------------------
(* The select loop of PostgresSource::run.                                  *)

\* The task is at its select!, and the channel has room for what a branch sends.
Ready ==
    phase = "running" /\ prep.step = "none" /\ ext # "taken"
    /\ Len(flight) + ChunkSize < Capacity

NoState == State(New([progress |-> NoProgress, completed |-> <<0>>]))

Item(pos, key, val, commit, state, ack) ==
    [pos |-> pos, key |-> key, val |-> val, commit |-> commit, state |-> state, ack |-> ack]

\* incremental_snapshot_records
WindowRecords(pos, rows) ==
    LET order == InOrder({r.key.k : r \in rows})
        Row(k) == CHOOSE r \in rows : r.key.k = k
    IN  [n \in DOMAIN order |-> Item(pos, Row(order[n]).key, Row(order[n]).val, FALSE, NoState, FALSE)]

ShouldSkip(p) == p <= resume

\* A converted record: dropped by the replay filter, or sent with the state when
\* that has changed. c is the controller and sent what went before it.
Convert(pos, key, val, commit, c, sent) ==
    IF ShouldSkip(pos)
    THEN ctl' = c /\ flight' = flight \o sent /\ UNCHANGED <<resume, lastSafe>>
    ELSE LET d == IF commit THEN c ELSE Deduplicate(c, key)
         IN  /\ flight' = Append(flight \o sent,
                                 Item(pos, key, val, commit, IF d.dirty THEN State(d) ELSE NoState, FALSE))
             /\ ctl' = [d EXCEPT !.dirty = FALSE, !.prepare = @ /\ ~(commit /\ ~ReadOnly)]
             /\ resume' = 0 /\ lastSafe' = pos

Take(kind) == Ready /\ wire # <<>> /\ Head(wire).kind = kind /\ wire' = Tail(wire)

loopRest == <<setup, database, durable, phase, ext, lines, from, decoded, stops>>

\* Without writes, every event of a transaction but its commit may open the
\* window and close it. c is the controller then, rows what leaves the window.
Observed(xid) == IF ReadOnly THEN Observe(ctl, xid) ELSE ctl
AfterEvent(xid) == IF ClosesAtEvent(Observed(xid), xid) THEN Close(Observed(xid)) ELSE Observed(xid)
RowsAtEvent(xid) == IF ClosesAtEvent(Observed(xid), xid) THEN Observed(xid).window ELSE {}

BeginAt(lsn, xid, id) ==
    /\ txn' = id
    /\ ctl' = AfterEvent(xid)
    /\ flight' = flight \o WindowRecords(WindowAt(lsn), RowsAtEvent(xid))
    /\ UNCHANGED <<loopRest, prep, resume, lastSafe>>

Begin ==
    /\ Take("begin")
    /\ LET xid == wal[Head(wire).i].xid IN BeginAt(Min(RecordsOf(xid, wal)), xid, xid)

\* get_or_insert: an open transaction of another id stays.
StreamStart ==
    /\ Take("start")
    /\ LET xid == wal[Head(wire).i].xid IN BeginAt(Head(wire).i, xid, IF txn = 0 THEN xid ELSE txn)

Change ==
    /\ Take("put")
    /\ LET i == Head(wire).i
       IN  Convert(ChangeAt(i), wal[i].key, wal[i].val, FALSE, AfterEvent(txn),
                   WindowRecords(WindowAt(i), RowsAtEvent(txn)))
    /\ UNCHANGED <<loopRest, prep, txn>>

\* A command in the signal table.
SourceSignal ==
    /\ Take("signal")
    /\ LET i == Head(wire).i
           s == wal[i].signal
           c == AfterEvent(txn)
       IN  /\ ctl' = Handle(c, s)
           /\ prep' = IF Accepts(c, s) THEN StartPrep ELSE prep
           /\ flight' = flight \o WindowRecords(WindowAt(i), RowsAtEvent(txn))
    /\ UNCHANGED <<loopRest, txn, resume, lastSafe>>

WindowOpen ==
    /\ Take("open")
    /\ ctl' = [ctl EXCEPT !.open = @ \/ wal[Head(wire).i].mark = ctl.chunk]
    /\ UNCHANGED <<loopRest, prep, txn, resume, lastSafe, flight>>

ClosesWindow(c, mark) == mark = c.chunk /\ c.open

WindowClose ==
    /\ Take("close")
    /\ LET i == Head(wire).i IN
       \/ /\ ~ClosesWindow(ctl, wal[i].mark) /\ UNCHANGED <<ctl, flight>>
       \/ /\ ClosesWindow(ctl, wal[i].mark) /\ ctl' = Close(ctl)
          /\ flight' = flight \o WindowRecords(WindowAt(i), ctl.window)
    /\ UNCHANGED <<loopRest, prep, txn, resume, lastSafe>>

CommitXid == wal[Head(wire).i].xid

\* At a commit, without writes: windows are closed and the next chunks prepared
\* until one stays open; only then the commit is converted.
CommitClosesWindow ==
    /\ Ready /\ ReadOnly /\ wire # <<>> /\ Head(wire).kind = "commit"
    /\ ClosesAtCommit(ctl, CommitXid)
    /\ LET c == Close(ctl)
       IN  ctl' = [c EXCEPT !.prepare = FALSE] /\ prep' = IF c.prepare THEN StartPrep ELSE prep
    /\ flight' = flight \o WindowRecords(WindowAtEnd(Head(wire).i), ctl.window)
    /\ UNCHANGED <<loopRest, wire, txn, resume, lastSafe>>

CommitContinues ==
    /\ Ready /\ ReadOnly /\ wire # <<>> /\ Head(wire).kind = "commit"
    /\ ~ClosesAtCommit(ctl, CommitXid) /\ ctl.prepare
    /\ ctl' = [ctl EXCEPT !.prepare = FALSE] /\ prep' = StartPrep
    /\ UNCHANGED <<loopRest, wire, txn, resume, lastSafe, flight>>

\* after_commit prepares the chunk that is due, unless the commit was skipped.
Commit ==
    /\ Take("commit") /\ txn' = 0
    /\ ReadOnly => ~ctl.prepare /\ ~ClosesAtCommit(ctl, CommitXid)
    /\ LET p == CommitAt(Head(wire).i)
       IN  /\ Convert(p, NoKey, 0, TRUE, ctl, <<>>)
           /\ prep' = IF ctl.prepare /\ ~ReadOnly /\ ~ShouldSkip(p) THEN StartPrep ELSE prep
    /\ UNCHANGED loopRest

\* A heartbeat at the last safe position.
Heartbeat ==
    /\ Heartbeats /\ Ready /\ lastSafe # 0
    /\ flight' = Append(flight, Item(lastSafe, NoKey, 0, FALSE, NoState, FALSE))
    /\ UNCHANGED <<setup, database, durable, connector, conn, stops>>

\* apply_external_signal: the chunk that is due is prepared.
Apply(s) ==
    LET c == Handle(ctl, s)
    IN  /\ ctl' = [c EXCEPT !.prepare = FALSE]
        /\ prep' = IF Accepts(ctl, s) \/ c.prepare THEN StartPrep ELSE prep

Pending == Ready /\ txn = 0 /\ ext = "idle" /\ offset < Len(External)

\* The next signal of the topic, between transactions.
TakeExternal ==
    /\ setup.channel = "kafka" /\ Pending
    /\ ext' = "taken" /\ Apply(External[offset + 1])
    /\ UNCHANGED <<setup, database, durable, phase, txn, resume, lastSafe, lines, conn, flight, stops>>

\* read_and_clear: what was written to the file so far is read, and the file emptied;
\* a line written between the two is gone unread.
TakeFile ==
    /\ setup.channel = "file" /\ Pending
    /\ \E n \in offset + 1 .. Len(External) :
        /\ lines' = SubSeq(External, offset + 1, n)
        /\ offset' \in n .. Len(External)
    /\ ext' = "taken"
    /\ UNCHANGED <<setup, database, view, ckpt, phase, ctl, prep, txn, resume, lastSafe, conn, flight, stops>>

\* Its lines, one after the other.
ApplyLine ==
    /\ phase = "running" /\ ext = "taken" /\ prep.step = "none" /\ lines # <<>>
    /\ lines' = Tail(lines) /\ Apply(Head(lines))
    /\ UNCHANGED <<setup, database, durable, phase, txn, resume, lastSafe, ext, conn, flight, stops>>

\* checkpoint_external_signal_state: the state travels with the acknowledgement, which
\* a file does not ask for; a signal that changed nothing is acknowledged at once.
CheckpointSignal ==
    /\ phase = "running" /\ ext = "taken" /\ prep.step = "none" /\ lines = <<>>
    /\ \E asked \in {setup.channel = "kafka"} :
        \/ /\ ctl.dirty /\ ctl' = [ctl EXCEPT !.dirty = FALSE]
           /\ ext' = IF asked THEN "sent" ELSE "idle"
           /\ flight' = Append(flight, Item(lastSafe, NoKey, 0, TRUE, State(ctl), asked))
        \/ ~ctl.dirty /\ ext' = (IF asked THEN "acked" ELSE "idle") /\ UNCHANGED <<ctl, flight>>
    /\ UNCHANGED <<setup, database, durable, phase, prep, txn, resume, lastSafe, lines, conn, stops>>

CommitOffset ==
    /\ ext = "acked" /\ ext' = "idle" /\ offset' = offset + 1
    /\ UNCHANGED <<setup, database, view, ckpt, phase, ctl, prep, txn, resume, lastSafe, lines, conn,
                   flight, stops>>

-----------------------------------------------------------------------------
(* The runtime (Runtime has the whole of it) and stops.                     *)

\* Batches the runtime may write: prefixes of what was sent, up to a commit.
Batches == {n \in 1 .. Len(flight) : \A m \in 1 .. n - 1 : ~flight[m].commit}

Ordered(n) == \A m \in 1 .. n - 1 : flight[m].pos <= flight[m + 1].pos

\* The sink keeps the last of what it is shown of a row.
Deliver(n) ==
    [key \in Keys |->
        LET shown == {m \in 1 .. n : flight[m].key = key}
        IN  IF shown = {} THEN view[key] ELSE flight[Max(shown)].val]

SavedState(n) ==
    LET states == {m \in 1 .. n : flight[m].state # NoState}
    IN  IF states = {} THEN ckpt.state ELSE flight[Max(states)].state

Flush ==
    /\ phase = "running"
    /\ \E n \in Batches :
        /\ Ordered(n)
        /\ view' = Deliver(n)
        /\ ckpt' = [pos |-> flight[n].pos, state |-> SavedState(n)]
        /\ ext' = IF \E m \in 1 .. n : flight[m].ack THEN "acked" ELSE ext
        /\ flight' = SubSeq(flight, n + 1, Len(flight))
    /\ UNCHANGED <<setup, database, offset, phase, ctl, prep, txn, resume, lastSafe, lines, conn, stops>>

\* "source position moved backwards"
Regress ==
    /\ phase = "running" /\ \E n \in Batches : ~Ordered(n)
    /\ phase' = "failed"
    /\ UNCHANGED <<setup, database, durable, ctl, prep, txn, resume, lastSafe, ext, lines, conn, flight, stops>>

\* A crash, before or after the sink took a batch; only the checkpoint remains.
Crash ==
    /\ phase \in {"running", "failed"}
    /\ stops < MaxStops /\ stops' = stops + 1
    /\ \E n \in {0} \cup {m \in Batches : Ordered(m)} : view' = Deliver(n)
    /\ phase' = "down" /\ ctl' = New(ckpt.state) /\ prep' = NoPrep
    /\ txn' = 0 /\ resume' = 0 /\ lastSafe' = 0 /\ ext' = "idle" /\ lines' = <<>>
    /\ from' = 0 /\ decoded' = 0 /\ wire' = <<>> /\ flight' = <<>>
    /\ UNCHANGED <<setup, database, ckpt, offset>>

\* The stream starts at the checkpoint, and resume rereads the chunk in progress.
Boot ==
    /\ phase = "down" /\ phase' = "running"
    /\ ctl' = [New(ckpt.state) EXCEPT !.dirty = (ckpt.pos = 0)]
    /\ prep' = IF Active(ctl') /\ ~ctl'.progress.paused THEN StartPrep ELSE NoPrep
    /\ resume' = ckpt.pos
    /\ lastSafe' = IF ckpt.pos = 0 THEN SafeAt(0) ELSE SafePosition(ckpt.pos)
    /\ from' = FirstRecord(ckpt.pos)
    /\ UNCHANGED <<setup, database, durable, txn, ext, lines, decoded, wire, flight, stops>>

-----------------------------------------------------------------------------
Init ==
    /\ setup \in Setups
    /\ step = 1 /\ open = [t \in {s.tx : s \in Range(Script)} |-> 0] /\ nextXid = 1 /\ lastDone = 0
    /\ wal = <<>> /\ table = setup.rows
    /\ view = [key \in Keys |-> 0] /\ offset = 0
    /\ ckpt = [pos |-> 0, state |-> [progress |-> NoProgress, completed |-> <<>>]]
    /\ phase = "down" /\ ctl = New(ckpt.state) /\ prep = NoPrep /\ txn = 0 /\ resume = 0 /\ lastSafe = 0
    /\ ext = "idle" /\ lines = <<>> /\ from = 0 /\ decoded = 0 /\ wire = <<>> /\ flight = <<>> /\ stops = 0

Prepare == PrepareOpen \/ PrepareLow \/ PrepareMax \/ PrepareRead \/ PrepareClose
Stream ==
    \/ Begin \/ StreamStart \/ Change \/ SourceSignal \/ WindowOpen \/ WindowClose
    \/ CommitClosesWindow \/ CommitContinues \/ Commit
ExternalSignals == TakeExternal \/ TakeFile \/ ApplyLine \/ CheckpointSignal \/ CommitOffset

Next ==
    \/ Write \/ Send \/ Prepare \/ Stream \/ Heartbeat \/ ExternalSignals
    \/ Flush \/ Regress \/ Crash \/ Boot

Spec == Init /\ [][Next]_vars

(***************************************************************************)
(* The database runs its script, the server sends, the connector task and  *)
(* the runtime run. Heartbeats and external signals are branches of one    *)
(* select! with the stream and cannot keep it from its turn for ever.      *)
(***************************************************************************)
Fairness ==
    /\ WF_vars(Write) /\ WF_vars(Send) /\ WF_vars(Prepare) /\ SF_vars(Stream)
    /\ SF_vars(ExternalSignals) /\ WF_vars(Flush) /\ WF_vars(Boot)

FairSpec == Spec /\ Fairness

-----------------------------------------------------------------------------
(* Properties.                                                              *)

Tables == {key.table : key \in Keys}

Commands == Range(External) \cup {s.signal : s \in Range(Script)}
ExecuteOf(id) == CHOOSE s \in Commands : s.type = "execute" /\ s.id = id

\* Tables a stop signal may have taken out.
StoppedTables ==
    UNION {IF s.tables = <<>> THEN Tables ELSE Range(s.tables) : s \in {c \in Commands : c.type = "stop"}}

Written == {wal[i].key : i \in {n \in DOMAIN wal : wal[n].kind = "put"}}

\* Everything has happened, been read, delivered and checkpointed.
CaughtUp ==
    /\ step > Len(Script) /\ decoded = Len(wal) /\ wire = <<>> /\ flight = <<>>
    /\ Ready /\ ext = "idle" /\ offset = Len(External)

\* The sink has what the table has: where the stream has shown a row last, and in
\* every table an incremental snapshot has completed, a chunk never leaves an
\* older row behind than the stream had shown (deduplicate and the watermarks).
Converges ==
    CaughtUp =>
        \A key \in Keys :
            (key \in Written \/ \E id \in Range(ctl.completed) \ {0} :
                                 key.table \in Range(ExecuteOf(id).tables) \ StoppedTables)
                => view[key] = table[key]

\* Rows the checkpointed progress lies behind.
Passed(p) ==
    {key \in Keys : \E n \in 1 .. Len(p.tables) :
        key.table = p.tables[n] /\ (n < p.current \/ (n = p.current /\ key.k <= p.last))}

\* A checkpoint never runs ahead of the rows: what lies behind the persisted key
\* and was not changed since has reached the sink (the state goes out with the
\* commit that follows the rows), so that a restart at the next key leaves no gap.
ProgressCovered ==
    \A key \in Passed(ckpt.state.progress) \ Written : view[key] = setup.rows[key]

\* However often the log and the topic deliver a signal, also again after a
\* restart, a process opens each of its chunks once: a completed signal is not run
\* again (is_duplicate_execute_signal), and what prepares the next chunk at a
\* commit, a resume or a restart does so once.
ChunkOpenedOnce ==
    \A m \in {wal[i].mark : i \in {n \in DOMAIN wal : wal[n].kind = "open"}} :
        Cardinality({i \in DOMAIN wal : wal[i].kind = "open" /\ wal[i].mark = m}) <= stops + 1

\* A checkpoint forgets neither a completed signal nor a snapshot in progress,
\* other than by completing it (encode_connector_state carries both).
NoSnapshotForgotten ==
    [][ckpt.state.progress.id # 0 /\ ckpt.state.progress.id # ckpt'.state.progress.id
        => ckpt.state.progress.id \in Range(ckpt'.state.completed)]_ckpt

\* pause-snapshot prevents the next chunk from being prepared, until a resume
\* (prepare_after_commit is cleared, and restart remains paused).
PauseHolds ==
    [][ctl.progress.paused /\ ctl'.progress.paused /\ prep.step = "none"
        => prep'.step = "none"]_<<ctl, prep>>

\* Every accepted snapshot completes, where the connector may write: the commit of
\* a close watermark drives the next chunk, also after a restart inside one.
SnapshotsComplete == <>[](~Active(ctl) \/ ReadOnly \/ phase = "failed")
=============================================================================
