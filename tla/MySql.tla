--------------------------------- MODULE MySql ---------------------------------
(***************************************************************************)
(* The MySQL source (rustium-mysql, source.rs and schema_history.rs): the  *)
(* snapshot and its handoff to the binary log, the events of the log with  *)
(* their table-map anchors and serials, schema history, reconnection,      *)
(* signals, and incremental snapshots between binlog coordinates.          *)
(*                                                                         *)
(* The server is external.  Its log, setup.log, holds whole transactions   *)
(* in commit order, whose last events are setup.ends; event i starts at    *)
(* position i and ends at i + 1.  A transaction is in the log before its   *)
(* rows can be read.  The runtime is reduced to batches, as in             *)
(* PgIncremental; Runtime has the whole of it.                             *)
(***************************************************************************)
EXTENDS Integers, FiniteSets, SequencesExt

CONSTANTS
    Setups,        \* logs, tables, signals and configurations to run with
    Capacity,      \* bound on records sent and not yet consumed
    MaxCompleted   \* MAX_COMPLETED_SIGNAL_IDS

ASSUME MySqlAssumption ==
    /\ {Capacity, MaxCompleted} \subseteq Nat \ {0}
    /\ \A s \in Setups :
        /\ s.mode \in {"initial", "when_needed", "never"} /\ s.channel \in {"kafka", "file"}
        /\ {s.heartbeats, s.prompt, s.gtid, s.skipDdl, s.ddlAside} \subseteq BOOLEAN
        /\ IsFiniteSet(DOMAIN s.rows)
        /\ Len(s.log) \in s.ends /\ s.ends \subseteq DOMAIN s.log
        /\ \A i \in DOMAIN s.log : s.log[i].kind = "rows" => s.log[i].rows # <<>>
        /\ s.external \in Seq(Range(s.external))
        /\ s.chunkSize \in 1 .. Capacity - 1 /\ {s.stops, s.breaks, s.purges, s.retries} \subseteq Nat

VARIABLES
    setup,       \* chosen once
    \* the server: events in the log, events whose rows can be read, first file kept
    written, applied, kept,
    \* what survives a crash: rows and changes at the sink, checkpoint, signals done;
    \* since is where capture began
    view, delivered, ckpt, offset, since,
    \* the source task: phase and why it failed, state of the stream's conversion,
    \* schemas, last safe position, reconnect attempts
    phase, reason, schemas, lastSafe, attempts, conv,
    \* its connection: next event, end of the last one, tables mapped on it
    rd, cursor, maps,
    \* snapshot in progress, incremental snapshots, chunk being read, external signal
    snapshot, inc, prep, ext,
    flight,      \* records sent and not yet consumed
    stops, breaks

server  == <<written, applied, kept>>
durable == <<view, delivered, ckpt, offset, since>>
task    == <<phase, reason, schemas, lastSafe, attempts, conv>>
conn    == <<rd, cursor, maps>>
side    == <<snapshot, inc, prep, ext>>
bounds  == <<stops, breaks>>
vars    == <<setup, server, durable, task, conn, side, flight, bounds>>

External   == setup.external    \* signals of the topic or the file
ChunkSize  == setup.chunkSize   \* incremental.snapshot.chunk.size
Heartbeats == setup.heartbeats  \* heartbeat.interval is positive
Keys       == DOMAIN setup.rows
Tables     == {key.table : key \in Keys}
SignalTable == "signal"

-----------------------------------------------------------------------------
(* The log (external).                                                      *)

Events == setup.log
EndOfTxn(i) == Min({e \in setup.ends : e >= i})

SameTxn(i, j) == \A e \in setup.ends : e < i <=> e < j

\* A binary log as servers write it: a transaction begins with its GTID event (an
\* anonymous one where there are no GTIDs), ends with its last statement, lies in one file,
\* and maps each table before rows of it; file names ascend.
LogSound(s) ==
    /\ Len(s.log) \in Nat /\ DOMAIN s.log = 1 .. Len(s.log)
    /\ \A i \in DOMAIN s.log :
        LET e == s.log[i]
            Begins == i = 1 \/ i - 1 \in s.ends
            Within(j) == \A n \in s.ends : n < i <=> n < j
        IN  /\ e.rows \in Seq([k : Nat, val : Nat])
            /\ Begins => e.kind # "map" /\ (s.filtered # {} => e.kind = "gtid")
            /\ e.kind \in {"xid", "ddl", "rollback"} => i \in s.ends
            /\ i \in s.rotations => Begins
            /\ e.kind = "rows" =>
                /\ e.table \in {key.table : key \in DOMAIN s.rows}
                /\ \E m \in 1 .. i - 1 : s.log[m].kind = "map" /\ s.log[m].table = e.table /\ Within(m)
    /\ IsFiniteSet(s.rotations) /\ s.rotations \subseteq Nat
    /\ \A f \in 1 .. 1 + Cardinality(s.rotations) : s.rank[f] \in Nat
    /\ \A f, g \in 1 .. 1 + Cardinality(s.rotations) : f < g => s.rank[f] < s.rank[g]

\* setup.rotations are the positions at which a new file begins.
FileAt(i) == 1 + Cardinality({r \in setup.rotations : r <= i})
Coordinates(i) == [file |-> FileAt(i), at |-> i]
EndOfLog == Coordinates(written + 1)

Writes(i, key) == {n \in DOMAIN Events[i].rows : Events[i].table = key.table /\ Events[i].rows[n].k = key.k}

\* The rows once the first i events have been applied.
TableAt(i) ==
    [key \in Keys |->
        LET on == {e \in 1 .. i : Events[e].kind = "rows" /\ Writes(e, key) # {}}
        IN  IF on = {} THEN setup.rows[key]
            ELSE Events[Max(on)].rows[Max(Writes(Max(on), key))].val]

\* The version of each table's definition after the first i events; 0: no table.
LayoutAt(i) ==
    [t \in Tables |->
        LET on == {e \in 1 .. i : Events[e].kind = "ddl" /\ Events[e].table = t}
        IN  IF on = {} THEN 1 ELSE Events[Max(on)].to]

Write ==
    /\ written < Len(Events) /\ written' = EndOfTxn(written + 1)
    /\ setup.ddlAside =>
          phase # "starting" \/ \A e \in written + 1 .. written' : Events[e].kind # "ddl"
    /\ setup.prompt => applied' = written'
    /\ ~setup.prompt => applied' = applied
    /\ UNCHANGED <<setup, kept, durable, task, conn, side, flight, bounds>>

\* The engine commits behind the log.
Apply ==
    /\ applied < written /\ applied' = written
    /\ UNCHANGED <<setup, written, kept, durable, task, conn, side, flight, bounds>>

\* Files before the current one expire.
Purge ==
    /\ phase = "down" /\ kept < EndOfLog.file /\ kept <= setup.purges /\ kept' = kept + 1
    /\ UNCHANGED <<setup, written, applied, durable, task, conn, side, flight, bounds>>

-----------------------------------------------------------------------------
(* Positions (MySqlPosition).                                               *)

Position(at, file, gtid, serial, snap) ==
    [file |-> file, at |-> at, gtid |-> gtid, serial |-> serial, snap |-> snap]
None == Position(0, 0, FALSE, 0, FALSE)

\* File names are compared as strings: setup.rank is their order.
SortKey(p) == <<setup.rank[p.file], p.at, IF p.snap THEN 0 ELSE 1, p.serial>>

\* The elements of a finite set, from the least on.
InOrder(S, Less(_, _)) ==
    [n \in 1 .. Cardinality(S) |-> CHOOSE x \in S : Cardinality({y \in S : Less(y, x)}) = n - 1]

Before(a, b) == \E n \in DOMAIN a : a[n] < b[n] /\ \A m \in 1 .. n - 1 : a[m] = b[m]

IsAfter(p, q) == Before(SortKey(q), SortKey(p))

IsAtOrBefore(p, q) == p = q \/ IsAfter(q, p)

\* Faulty variant: at the coordinate is not behind it.
ReachedBehind(c, high) == setup.rank[c.file] > setup.rank[high.file] \/ (c.file = high.file /\ c.at > high.at)

\* BinlogCursor
Reached(c, high) ==
    \/ setup.rank[c.file] > setup.rank[high.file]
    \/ c.file = high.file /\ c.at >= high.at

AtCoordinates(c, serial, snap) == Position(c.at, c.file, setup.gtid, serial, snap)

-----------------------------------------------------------------------------
(* Records and connector state.                                             *)

NoProgress == [id |-> 0, tables |-> <<>>, current |-> 1, last |-> 0, max |-> 0, paused |-> FALSE]
NoWindow == [table |-> "none", low |-> [file |-> 1, at |-> 0], high |-> [file |-> 1, at |-> 0],
             rows |-> {}, max |-> 0, last |-> 0, count |-> 0, fits |-> TRUE]
NewIncremental(progress, completed) ==
    [progress |-> progress, completed |-> completed, window |-> NoWindow, serial |-> 0, dirty |-> FALSE]

\* encode_connector_state; NoState is a record without any.
State(s, c) == [schemas |-> s, progress |-> c.progress, completed |-> c.completed]
NoState == State([t \in Tables |-> 0], NewIncremental(NoProgress, <<0>>))

NoKey == [table |-> "none", k |-> 0]

\* fits: the row was read with the layout it was written in; at: the change it is.
Item(pos, key, val, at, fits, commit) ==
    [pos |-> pos, key |-> key, val |-> val, at |-> at, fits |-> fits, commit |-> commit,
     snapshotEnd |-> FALSE, state |-> NoState, ack |-> FALSE]
Mark(pos, commit, state) == [Item(pos, NoKey, 0, <<0, 0>>, TRUE, commit) EXCEPT !.state = state]

Room(n) == Len(flight) + n <= Capacity

\* The end of the source task with an error.
Fails(why) == phase' = "failed" /\ reason' = why

-----------------------------------------------------------------------------
(* MySqlIncrementalSnapshot: signals.                                       *)

Active(c) == c.progress # NoProgress
HasWindow(c) == c.window # NoWindow

RememberCompleted(ids, id) ==
    LET all == Append(SelectSeq(ids, LAMBDA other : other # id), id)
    IN  IF Len(all) > MaxCompleted THEN Tail(all) ELSE all

\* Collections no table matches, or a signal that cannot be parsed.
Refused(c, s) ==
    \/ s.type = "invalid"
    \/ /\ s.type = "execute" /\ s.id \notin Range(c.completed) /\ ~Active(c)
       /\ Range(s.tables) \cap Tables = {}

Execute(c, s) ==
    IF s.id \in Range(c.completed) \/ Active(c) THEN c
    ELSE [c EXCEPT !.progress = [NoProgress EXCEPT !.id = s.id, !.tables = s.tables], !.dirty = TRUE]

\* The window goes whichever collection is stopped; the index falls on what follows.
Stop(c, s) ==
    LET p == c.progress
        Matches(t) == s.tables = <<>> \/ t \in Range(s.tables)
        rest == SelectSeq(p.tables, LAMBDA t : ~Matches(t))
        before == Len(SelectSeq(SubSeq(p.tables, 1, p.current - 1), LAMBDA t : ~Matches(t)))
        next == [p EXCEPT !.tables = rest, !.current = before + 1]
    IN  IF ~Active(c) \/ rest = p.tables THEN c
        ELSE IF before >= Len(rest)
        THEN [c EXCEPT !.progress = NoProgress, !.window = NoWindow, !.dirty = TRUE,
                       !.completed = RememberCompleted(c.completed, p.id)]
        ELSE [c EXCEPT !.window = NoWindow, !.dirty = TRUE,
                       !.progress = IF Matches(p.tables[p.current])
                                    THEN [next EXCEPT !.last = 0, !.max = 0] ELSE next]

SetPaused(c, paused) ==
    IF Active(c) /\ c.progress.paused # paused
    THEN [c EXCEPT !.progress.paused = paused, !.dirty = TRUE] ELSE c

\* handle_signal
Handle(c, s) ==
    CASE s.type = "execute" -> Execute(c, s)
      [] s.type = "stop" -> Stop(c, s)
      [] s.type = "pause" -> SetPaused(c, TRUE)
      [] s.type = "resume" -> SetPaused(c, FALSE)
      [] OTHER -> c

-----------------------------------------------------------------------------
(* StreamingState.                                                          *)

NoTxn == [open |-> FALSE, ignore |-> FALSE]
OpenTxn == [open |-> TRUE, ignore |-> FALSE]

NewConversion(c, resume) ==
    [file |-> c.file, anchors |-> [t \in Tables |-> 0], previous |-> 0, serial |-> 0, resume |-> resume,
     \* transaction_from_resume
     txn |-> IF resume # None /\ ~resume.snap /\ resume.gtid THEN OpenTxn ELSE NoTxn]

\* Faulty variant: a rotation keeps the serial of the last position.
SerialKept(cv, at) == [cv EXCEPT !.previous = at, !.serial = @ + 1]

NextSerial(cv, at) ==
    IF cv.previous = at THEN [cv EXCEPT !.serial = @ + 1] ELSE [cv EXCEPT !.previous = at, !.serial = 1]

ShouldSkip(cv, p) == cv.resume # None /\ IsAtOrBefore(p, cv.resume)

\* The table map a rows event replays from.
Anchor(cv, table, i) == IF cv.anchors[table] = 0 THEN i ELSE cv.anchors[table]

\* convert_rows: the rows of event i have serials one after another.  The replay
\* filter drops the first of them up to where it resumes, and is done with the first row
\* behind that.
ConvertRows(i, fits) ==
    LET e == Events[i]
        anchor == Anchor(conv, e.table, i)
        first == NextSerial(conv, anchor)
        At(n) == Position(anchor, conv.file, TRUE, first.serial + n - 1, FALSE)
        dropped == Max({0} \cup {n \in DOMAIN e.rows : ShouldSkip(conv, At(n))})
        One(n) == Item(At(n), [table |-> e.table, k |-> e.rows[n].k], e.rows[n].val, <<i, n>>, fits, FALSE)
    IN  [cv  |-> [first EXCEPT !.serial = @ + Len(e.rows) - 1, !.txn = IF @.open THEN @ ELSE OpenTxn,
                               !.resume = IF dropped = Len(e.rows) THEN @ ELSE None],
         out |-> [n \in 1 .. Len(e.rows) - dropped |-> One(dropped + n)]]

\* Faulty variant: changes leave the window as it is.
ObserveNot(c, i) == c

\* observe_rows: keys changed between the coordinates leave the window.
Observe(c, i) ==
    LET e == Events[i]
        w == c.window
        end == [file |-> conv.file, at |-> i + 1]
        changed == {e.rows[n].k : n \in DOMAIN e.rows}
    IN  IF ~HasWindow(c) \/ w.table # e.table \/ Reached(w.low, end) \/ ~Reached(w.high, end) THEN c
        ELSE [c EXCEPT !.window.rows = {r \in @ : r.key.k \notin changed}]

\* Faulty variant: a schema change is applied beside an open window.
RefusesDdlNot(c) == FALSE

RefusesDdl(c) == HasWindow(c)

-----------------------------------------------------------------------------
(* Start: validate_source, then the decisions of MySqlSource::run.          *)

Mode == IF stops = 0 THEN setup.mode ELSE setup.restartMode

Retained(p) == p.file >= kept
NoCheckpoint == [pos |-> None, snap |-> FALSE, state |-> NoState]

SnapshotNeeded ==
    /\ Mode # "never"
    /\ \/ ~ckpt.snap
       \/ Mode = "when_needed" /\ (ckpt.state = NoState \/ ~Retained(ckpt.pos))

\* The tables are discovered, before any coordinates are read.
Validate ==
    /\ phase = "down" /\ phase' = "starting" /\ schemas' = LayoutAt(applied)
    /\ UNCHANGED <<setup, server, durable, reason, lastSafe, attempts, conv, conn, side, flight, bounds>>

\* The stream is to be opened at c; resume is what the replay filter starts from.
StreamFrom(c, resume, safe) ==
    /\ phase' = "opening" /\ lastSafe' = safe /\ attempts' = 0
    /\ conv' = NewConversion(c, resume)
    /\ rd' = c.at /\ cursor' = c /\ maps' = {}

\* Reads hold the tables locked: no commit is between the log and the rows.
StartSnapshot ==
    /\ phase = "starting" /\ SnapshotNeeded /\ applied = written
    /\ phase' = "snapshot" /\ since' = EndOfLog.at
    /\ snapshot' = [coordinates |-> EndOfLog, ordinal |-> 0,
                    rows |-> InOrder({key \in Keys : TableAt(applied)[key] # 0},
                                     LAMBDA a, b : setup.order[a] < setup.order[b])]
    /\ inc' = NewIncremental(NoProgress, <<>>)
    /\ UNCHANGED <<setup, server, view, delivered, ckpt, offset, reason, schemas, lastSafe, attempts, conv,
                   conn, prep, ext, flight, bounds>>

SnapshotPosition(ordinal) ==
    AtCoordinates(snapshot.coordinates, ordinal, TRUE)

\* discover_tables on the snapshot connection.
SnapshotDiscover ==
    /\ phase = "snapshot" /\ snapshot.ordinal = 0
    /\ schemas' = LayoutAt(applied) /\ snapshot' = [snapshot EXCEPT !.ordinal = 1]
    /\ UNCHANGED <<setup, server, durable, phase, reason, lastSafe, attempts, conv, conn, inc, prep, ext,
                   flight, bounds>>

\* snapshot_table: the server refuses a read of a table that has changed since.
SnapshotRow ==
    /\ phase = "snapshot" /\ snapshot.ordinal > 0 /\ snapshot.rows # <<>>
    /\ LET key == Head(snapshot.rows)
           start == snapshot.coordinates.at - 1
       IN  \/ /\ LayoutAt(applied)[key.table] # LayoutAt(start)[key.table]
              /\ Fails("tableChanged") /\ UNCHANGED <<snapshot, flight>>
           \/ /\ LayoutAt(applied)[key.table] = LayoutAt(start)[key.table] /\ Room(1)
              /\ flight' = Append(flight, Item(SnapshotPosition(snapshot.ordinal), key, TableAt(start)[key],
                                               <<0, 0>>, schemas[key.table] = LayoutAt(start)[key.table],
                                               FALSE))
              /\ snapshot' = [snapshot EXCEPT !.rows = Tail(@), !.ordinal = @ + 1]
              /\ UNCHANGED <<phase, reason>>
    /\ UNCHANGED <<setup, server, durable, schemas, lastSafe, attempts, conv, conn, inc, prep, ext, bounds>>

SnapshotEnd ==
    /\ phase = "snapshot" /\ snapshot.ordinal > 0 /\ snapshot.rows = <<>> /\ Room(1)
    /\ flight' = Append(flight, [Mark(SnapshotPosition(snapshot.ordinal), TRUE, State(schemas, inc))
                                 EXCEPT !.snapshotEnd = TRUE])
    /\ StreamFrom(snapshot.coordinates, None, AtCoordinates(snapshot.coordinates, 0, FALSE))
    /\ UNCHANGED <<setup, server, durable, reason, schemas, side, bounds>>

\* The checkpoint has a position and schema history.
StartFromCheckpoint ==
    /\ phase = "starting" /\ ~SnapshotNeeded /\ ckpt.pos # None /\ ckpt.state # NoState
    /\ LET p == ckpt.pos
           c == [file |-> p.file, at |-> p.at]
       IN  StreamFrom(c, p, IF p.snap THEN AtCoordinates(c, 0, FALSE) ELSE p)
    /\ schemas' = ckpt.state.schemas
    /\ inc' = NewIncremental(ckpt.state.progress, ckpt.state.completed)
    /\ UNCHANGED <<setup, server, durable, reason, snapshot, prep, ext, flight, bounds>>

StartRefused ==
    /\ phase = "starting" /\ ~SnapshotNeeded /\ ckpt.pos # None /\ ckpt.state = NoState
    /\ Fails("noHistory")
    /\ UNCHANGED <<setup, server, durable, schemas, lastSafe, attempts, conv, conn, side, flight, bounds>>

\* snapshot.mode never: from the current coordinates, with the tables of validate.
StartAtEnd ==
    /\ phase = "starting" /\ ~SnapshotNeeded /\ ckpt.pos = None
    /\ since' = EndOfLog.at /\ inc' = NewIncremental(NoProgress, <<>>)
    /\ flight' = <<Mark(AtCoordinates(EndOfLog, 0, FALSE), FALSE, State(schemas, inc'))>>
    /\ StreamFrom(EndOfLog, None, AtCoordinates(EndOfLog, 0, FALSE))
    /\ UNCHANGED <<setup, server, view, delivered, ckpt, offset, reason, schemas, snapshot, prep, ext, bounds>>

Start == StartSnapshot \/ StartFromCheckpoint \/ StartRefused \/ StartAtEnd
Snapshot == SnapshotDiscover \/ SnapshotRow \/ SnapshotEnd

-----------------------------------------------------------------------------
(* Connection: open_binlog_stream, its end, wait_for_reconnect and rewind.  *)

connectionRest == <<setup, server, durable, reason, schemas, lastSafe, attempts, conv, rd, cursor, flight, stops>>

OpenStream ==
    /\ phase = "opening" /\ maps' = {}
    /\ phase' = IF Retained(conv) THEN "streaming" ELSE "broken"
    /\ UNCHANGED <<connectionRest, side, breaks>>

\* The stream ends between two events; the window is discarded.
Disconnect ==
    /\ phase = "streaming" /\ prep.step = "none"
    /\ breaks < setup.breaks /\ breaks' = breaks + 1
    /\ phase' = "broken" /\ inc' = [inc EXCEPT !.window = NoWindow]
    /\ UNCHANGED <<connectionRest, maps, snapshot, prep, ext>>

Reconnect ==
    /\ phase = "broken"
    /\ \/ /\ attempts < setup.retries /\ attempts' = attempts + 1 /\ phase' = "opening"
          /\ LET c == [file |-> lastSafe.file, at |-> lastSafe.at]
             IN  conv' = NewConversion(c, lastSafe) /\ rd' = c.at /\ cursor' = c
          /\ UNCHANGED reason
       \/ attempts >= setup.retries /\ Fails("retries") /\ UNCHANGED <<attempts, conv, rd, cursor>>
    /\ UNCHANGED <<setup, server, durable, schemas, lastSafe, maps, side, flight, bounds>>

-----------------------------------------------------------------------------
(* process_binlog_event.                                                    *)

\* The window ends as soon as the stream is behind its high coordinate and
\* between transactions; the task does nothing else before.
WindowDue(c, cur, cv) == HasWindow(c) /\ Reached(cur, c.window.high) /\ ~cv.txn.open

Ready == phase = "streaming" /\ prep.step = "none" /\ ~WindowDue(inc, cursor, conv)

Event(kind) == Ready /\ rd <= written /\ FileAt(rd) = conv.file /\ Events[rd].kind = kind

Passed == rd' = rd + 1 /\ cursor' = [file |-> conv.file, at |-> rd + 1]

eventRest == <<setup, server, durable, snapshot, prep, ext, bounds>>
quiet == <<phase, reason, schemas, lastSafe, attempts, flight, inc>>

Rotate ==
    /\ Ready /\ rd <= written + 1 /\ FileAt(rd) # conv.file
    /\ conv' = [conv EXCEPT !.file = @ + 1, !.anchors = [t \in Tables |-> 0], !.previous = 0, !.serial = 0]
    /\ cursor' = [file |-> conv.file + 1, at |-> rd]
    /\ UNCHANGED <<eventRest, quiet, rd, maps>>

TableMap ==
    /\ Event("map") /\ Passed
    /\ maps' = maps \cup {Events[rd].table}
    /\ conv' = [conv EXCEPT !.anchors = [t \in Tables |-> IF t = Events[rd].table THEN rd ELSE @[t]]]
    /\ UNCHANGED <<eventRest, quiet>>

\* begin_gtid, and BEGIN, which keeps the transaction that is open.
Begin ==
    /\ \/ /\ Event("gtid")
          /\ conv' = [conv EXCEPT !.txn = [open |-> TRUE, ignore |-> Events[rd].sid \in setup.filtered]]
       \/ /\ Event("begin") /\ conv' = [conv EXCEPT !.txn = IF @.open THEN @ ELSE OpenTxn]
    /\ Passed /\ UNCHANGED <<eventRest, quiet, maps>>

Rollback ==
    /\ Event("rollback") /\ Passed /\ conv' = [conv EXCEPT !.txn = NoTxn]
    /\ UNCHANGED <<eventRest, quiet, maps>>

\* Any other event, and statements such as GRANT: an open transaction stays open.
Other == Event("other") /\ Passed /\ UNCHANGED <<eventRest, quiet, maps, conv>>

\* A rows event or a signal of a table that was not mapped on this connection.
Unmapped ==
    /\ Event("rows") \/ Event("signal")
    /\ Events[rd].table \notin maps /\ Fails("noTableMap")
    /\ UNCHANGED <<eventRest, schemas, lastSafe, attempts, conv, conn, flight, inc>>

Rows ==
    /\ Event("rows") /\ Events[rd].table \in maps
    /\ Room(Len(Events[rd].rows)) /\ Passed
    /\ inc' = Observe(inc, rd)
    /\ LET t == Events[rd].table
           converted == ConvertRows(rd, schemas[t] = LayoutAt(rd)[t])
       IN  \/ conv.txn.ignore /\ UNCHANGED <<conv, flight, lastSafe, attempts>>
           \/ /\ ~conv.txn.ignore /\ conv' = converted.cv /\ flight' = flight \o converted.out
              /\ IF converted.out = <<>> THEN UNCHANGED <<lastSafe, attempts>>
                 ELSE lastSafe' = Last(converted.out).pos /\ attempts' = 0
    /\ UNCHANGED <<eventRest, phase, reason, schemas, maps>>

\* A row of the signal table: the position behind it is that of the rows event.
SourceSignal ==
    /\ Event("signal") /\ Events[rd].table \in maps
    /\ \/ /\ Refused(inc, Events[rd].signal) /\ Fails("signal")
          /\ UNCHANGED <<lastSafe, attempts, conn, inc>>
       \/ /\ ~Refused(inc, Events[rd].signal) /\ Passed
          /\ inc' = Handle(inc, Events[rd].signal)
          /\ lastSafe' = Position(rd, conv.file, conv.txn.open, 1, FALSE) /\ attempts' = 0
          /\ UNCHANGED <<phase, reason, maps>>
    /\ UNCHANGED <<eventRest, schemas, conv, flight>>

\* commit_record: the conversion state behind the transaction, and its position.
Closing(known) ==
    LET cv == [NextSerial(conv, rd) EXCEPT !.txn = NoTxn]
        p == Position(rd, cv.file, conv.txn.open \/ known, cv.serial, FALSE)
    IN  [cv |-> IF ShouldSkip(cv, p) THEN cv ELSE [cv EXCEPT !.resume = None],
         pos |-> p, sent |-> ~ShouldSkip(cv, p)]

\* XID or COMMIT; the connector state goes along when it has changed.
Commit ==
    /\ Event("xid") /\ Passed
    /\ LET closing == Closing(TRUE)
       IN  /\ conv' = closing.cv
           /\ IF ~closing.sent THEN UNCHANGED <<flight, lastSafe, attempts, inc>>
              ELSE /\ Room(1)
                   /\ flight' = Append(flight, Mark(closing.pos, TRUE,
                                                    IF inc.dirty THEN State(schemas, inc) ELSE NoState))
                   /\ inc' = [inc EXCEPT !.dirty = FALSE] /\ lastSafe' = closing.pos /\ attempts' = 0
    /\ UNCHANGED <<eventRest, phase, reason, schemas, maps>>

\* apply_ddl knows how to change only the definition that was changed.
Applies(e) == schemas[e.table] = e.from

Ddl ==
    /\ Event("ddl")
    /\ LET e == Events[rd]
           closing == Closing(FALSE)
       IN  \/ /\ RefusesDdl(inc) /\ Fails("schemaChange")
              /\ UNCHANGED <<schemas, conv, rd, cursor, flight, inc, lastSafe, attempts>>
           \/ /\ ~RefusesDdl(inc) /\ ~closing.sent /\ Passed /\ conv' = closing.cv
              /\ UNCHANGED <<phase, reason, schemas, flight, inc, lastSafe, attempts>>
           \/ /\ ~RefusesDdl(inc) /\ closing.sent /\ ~Applies(e) /\ ~setup.skipDdl /\ Fails("ddl")
              /\ UNCHANGED <<schemas, conv, rd, cursor, flight, inc, lastSafe, attempts>>
           \/ /\ ~RefusesDdl(inc) /\ closing.sent /\ (Applies(e) \/ setup.skipDdl) /\ Room(1) /\ Passed
              /\ schemas' = IF Applies(e) THEN [schemas EXCEPT ![e.table] = e.to] ELSE schemas
              /\ flight' = Append(flight, Mark(closing.pos, TRUE, State(schemas', inc)))
              /\ conv' = closing.cv /\ inc' = [inc EXCEPT !.dirty = FALSE]
              /\ lastSafe' = closing.pos /\ attempts' = 0
              /\ UNCHANGED <<phase, reason>>
    /\ UNCHANGED <<eventRest, maps>>

Stream ==
    \/ Rotate \/ TableMap \/ Begin \/ Rollback \/ Other \/ Unmapped \/ Rows \/ SourceSignal
    \/ Commit \/ Ddl

-----------------------------------------------------------------------------
(* Chunks: read_incremental_chunk, while the task waits, and finish_window. *)

NoPrep == [step |-> "none", low |-> NoWindow.low, max |-> 0, rows |-> {}, fits |-> TRUE]

ThisTable == inc.progress.tables[inc.progress.current]
Present(t) == {key \in Keys : key.table = t /\ TableAt(applied)[key] # 0}

prepRest == <<setup, server, durable, task, conn, snapshot, ext, flight, bounds>>

\* The tick of incremental_tick, between transactions.
ChunkLow ==
    /\ Ready /\ Active(inc) /\ ~inc.progress.paused /\ ~HasWindow(inc) /\ ~conv.txn.open
    /\ prep' = [NoPrep EXCEPT !.step = "max", !.low = EndOfLog, !.max = inc.progress.max]
    /\ UNCHANGED <<prepRest, inc>>

ChunkMax ==
    /\ prep.step = "max"
    /\ prep' = [prep EXCEPT !.step = "rows",
                            !.max = IF @ = 0 THEN Max({0} \cup {key.k : key \in Present(ThisTable)}) ELSE @]
    /\ UNCHANGED <<prepRest, inc>>

ChunkRows ==
    /\ prep.step = "rows"
    /\ LET due == {key \in Present(ThisTable) : key.k > inc.progress.last /\ key.k <= prep.max}
           rows == {key \in due : Cardinality({x \in due : x.k < key.k}) < ChunkSize}
       IN  prep' = [prep EXCEPT !.step = "high",
                                !.rows = {[key |-> key, val |-> TableAt(applied)[key]] : key \in rows},
                                !.fits = (schemas[ThisTable] = LayoutAt(applied)[ThisTable])]
    /\ UNCHANGED <<prepRest, inc>>

ChunkHigh ==
    /\ prep.step = "high" /\ prep' = NoPrep
    /\ inc' = [inc EXCEPT !.window =
                [table |-> ThisTable, low |-> prep.low, high |-> EndOfLog, rows |-> prep.rows,
                 max |-> prep.max, last |-> Max({0} \cup {r.key.k : r \in prep.rows}),
                 count |-> Cardinality(prep.rows), fits |-> prep.fits]]
    /\ UNCHANGED prepRest

Chunk == ChunkLow \/ ChunkMax \/ ChunkRows \/ ChunkHigh

\* incremental_position
IncrementalPosition(n) == Position(lastSafe.at, lastSafe.file, lastSafe.gtid, lastSafe.serial + n, FALSE)

\* Progress behind a window: the next key, the next table or the end.
Advance(c) ==
    LET w == c.window
        max == IF c.progress.max = 0 THEN w.max ELSE c.progress.max
        complete == max = 0 \/ w.last = max \/ w.count < ChunkSize
        next == IF complete THEN [c.progress EXCEPT !.current = @ + 1, !.last = 0, !.max = 0]
                ELSE [c.progress EXCEPT !.last = w.last, !.max = max]
    IN  IF next.current > Len(next.tables)
        THEN [c EXCEPT !.progress = NoProgress, !.completed = RememberCompleted(@, next.id)]
        ELSE [c EXCEPT !.progress = next]

FinishWindow ==
    /\ phase = "streaming" /\ prep.step = "none" /\ WindowDue(inc, cursor, conv)
    /\ Room(Cardinality(inc.window.rows) + 1)
    /\ LET rows == InOrder(inc.window.rows, LAMBDA a, b : a.key.k < b.key.k)
           last == IncrementalPosition(inc.serial + Len(rows) + 1)
           after == Advance(inc)
       IN  /\ flight' = flight
                 \o [n \in DOMAIN rows |-> Item(IncrementalPosition(inc.serial + n), rows[n].key, rows[n].val,
                                                <<0, 0>>, inc.window.fits, FALSE)]
                 \o <<Mark(last, TRUE, State(schemas, after))>>
           /\ inc' = [after EXCEPT !.window = NoWindow, !.dirty = FALSE, !.serial = @ + Len(rows) + 1]
           /\ lastSafe' = last
    /\ UNCHANGED <<setup, server, durable, phase, reason, schemas, attempts, conv, conn, snapshot, prep, ext,
                   bounds>>

-----------------------------------------------------------------------------
(* The other branches of consume_binlog_stream.                             *)

Heartbeat ==
    /\ Heartbeats /\ Ready /\ Room(2)
    /\ flight' = Append(flight, Mark(lastSafe, FALSE, NoState))
    /\ UNCHANGED <<setup, server, durable, task, conn, side, bounds>>

externalRest == <<setup, server, view, delivered, ckpt, since, schemas, lastSafe, attempts, conv, conn,
                  snapshot, prep, bounds>>

\* A signal of the runtime's channel, also within a transaction: applied, and
\* its state sent with the acknowledgement.
TakeExternal ==
    /\ setup.channel = "kafka" /\ Ready /\ ext = "idle" /\ offset < Len(External)
    /\ LET s == External[offset + 1]
       IN  \/ /\ s.type = "invalid" /\ ext' = "acked" /\ UNCHANGED <<phase, reason, inc, flight>>
           \/ /\ s.type # "invalid" /\ Refused(inc, s) /\ Fails("signal") /\ UNCHANGED <<inc, flight, ext>>
           \/ /\ ~Refused(inc, s) /\ Room(1) /\ ext' = "sent"
              /\ inc' = [Handle(inc, s) EXCEPT !.dirty = FALSE]
              /\ flight' = Append(flight, [Mark(lastSafe, FALSE, State(schemas, inc')) EXCEPT !.ack = TRUE])
              /\ UNCHANGED <<phase, reason>>
    /\ UNCHANGED <<externalRest, offset>>

\* The topic's offset moves behind the acknowledged signal.
CommitOffset ==
    /\ ext = "acked" /\ ext' = "idle" /\ offset' = offset + 1
    /\ UNCHANGED <<externalRest, phase, reason, inc, flight>>

\* The state behind each of the lines.
Applied(lines) ==
    LET c[n \in 0 .. Len(lines)] == IF n = 0 THEN inc ELSE Handle(c[n - 1], lines[n])
    IN  c

\* read_and_clear: the file is emptied, then its lines are applied and their state
\* sent; lines that cannot be parsed are skipped.
TakeFile ==
    /\ setup.channel = "file" /\ Ready /\ ~conv.txn.open /\ offset < Len(External) /\ Room(1)
    /\ offset' = Len(External)
    /\ LET lines == SubSeq(External, offset + 1, Len(External))
           after == Applied(lines)
           accepted == \A n \in DOMAIN lines : lines[n].type = "invalid" \/ ~Refused(after[n - 1], lines[n])
       IN  \/ ~accepted /\ Fails("signal") /\ UNCHANGED <<inc, flight>>
           \/ /\ accepted /\ inc' = [after[Len(lines)] EXCEPT !.dirty = FALSE]
              /\ flight' = Append(flight, Mark(lastSafe, FALSE, State(schemas, inc')))
              /\ UNCHANGED <<phase, reason>>
    /\ UNCHANGED <<externalRest, ext>>

ExternalSignals == TakeExternal \/ CommitOffset \/ TakeFile

-----------------------------------------------------------------------------
(* The runtime (Runtime has the whole of it) and stops.                     *)

Working == phase \notin {"down", "failed"}

\* Batches the runtime may write: prefixes of what was sent, up to a commit.
Batches == {n \in 1 .. Len(flight) : \A m \in 1 .. n - 1 : ~flight[m].commit}
Ordered(n) == \A m \in 1 .. n - 1 : IsAtOrBefore(flight[m].pos, flight[m + 1].pos)

Deliver(n) ==
    /\ view' = FoldLeft(LAMBDA v, r : IF r.key = NoKey THEN v ELSE [v EXCEPT ![r.key] = r.val], view,
                        SubSeq(flight, 1, n))
    /\ delivered' = delivered \cup ({flight[m].at : m \in 1 .. n} \ {<<0, 0>>})

SavedState(n) ==
    LET states == {m \in 1 .. n : flight[m].state # NoState}
    IN  IF states = {} THEN ckpt.state ELSE flight[Max(states)].state

Flush ==
    /\ Working
    /\ \E n \in Batches :
        /\ Ordered(n) /\ Deliver(n)
        /\ ckpt' = [pos |-> flight[n].pos, snap |-> ckpt.snap \/ flight[n].snapshotEnd, state |-> SavedState(n)]
        /\ ext' = IF \E m \in 1 .. n : flight[m].ack THEN "acked" ELSE ext
        /\ flight' = SubSeq(flight, n + 1, Len(flight))
    /\ UNCHANGED <<setup, server, offset, since, task, conn, snapshot, inc, prep, bounds>>

\* "source position moved backwards"
Regress ==
    /\ Working /\ \E n \in Batches : ~Ordered(n)
    /\ Fails("order")
    /\ UNCHANGED <<setup, server, durable, schemas, lastSafe, attempts, conv, conn, side, flight, bounds>>

Idle == [coordinates |-> Coordinates(0), ordinal |-> 0, rows |-> <<>>]

Cleared ==
    /\ reason' = "none" /\ schemas' = [t \in Tables |-> 0] /\ lastSafe' = None /\ attempts' = 0
    /\ conv' = NewConversion(Coordinates(0), None)
    /\ rd' = 0 /\ cursor' = Coordinates(0) /\ maps' = {}
    /\ snapshot' = Idle /\ inc' = NewIncremental(NoProgress, <<>>) /\ prep' = NoPrep /\ ext' = "idle"
    /\ flight' = <<>>

\* A crash, before or after the sink took a batch; only the checkpoint remains.
Crash ==
    /\ phase # "down" /\ stops < setup.stops /\ stops' = stops + 1
    /\ \E n \in {0} \cup {m \in Batches : Ordered(m)} : Deliver(n)
    /\ phase' = "down" /\ Cleared
    /\ UNCHANGED <<setup, server, ckpt, offset, since, breaks>>

-----------------------------------------------------------------------------
Init ==
    /\ setup \in Setups
    /\ written = 0 /\ applied = 0 /\ kept = 1
    /\ view = [key \in Keys |-> 0] /\ delivered = {} /\ ckpt = NoCheckpoint /\ offset = 0 /\ since = 0
    /\ phase = "down" /\ reason = "none" /\ schemas = [t \in Tables |-> 0] /\ lastSafe = None /\ attempts = 0
    /\ conv = NewConversion(Coordinates(0), None)
    /\ rd = 0 /\ cursor = Coordinates(0) /\ maps = {}
    /\ snapshot = Idle /\ inc = NewIncremental(NoProgress, <<>>) /\ prep = NoPrep /\ ext = "idle"
    /\ flight = <<>> /\ stops = 0 /\ breaks = 0

Next ==
    \/ Write \/ Apply \/ Purge \/ Validate \/ Start \/ Snapshot \/ OpenStream \/ Disconnect \/ Reconnect
    \/ Stream \/ Chunk \/ FinishWindow \/ Heartbeat \/ ExternalSignals \/ Flush \/ Regress \/ Crash

Spec == Init /\ [][Next]_vars

(***************************************************************************)
(* The server runs its script; task and runtime run. Heartbeats, signals   *)
(* and chunks are branches of one select! with the stream and cannot keep  *)
(* it from its turn for ever.                                              *)
(***************************************************************************)
Fairness ==
    /\ WF_vars(Write) /\ WF_vars(Apply) /\ WF_vars(Validate) /\ WF_vars(Start) /\ WF_vars(Snapshot)
    /\ WF_vars(OpenStream) /\ WF_vars(Reconnect) /\ SF_vars(Stream) /\ SF_vars(Chunk)
    /\ WF_vars(FinishWindow) /\ SF_vars(ExternalSignals) /\ WF_vars(Flush)

FairSpec == Spec /\ Fairness

-----------------------------------------------------------------------------
(* Properties.                                                              *)

ChangesOf(i) == {<<i, n>> : n \in DOMAIN Events[i].rows}

\* Transactions of a source the GTID filter leaves out.
Ignored(i) ==
    \E j \in DOMAIN Events : SameTxn(i, j) /\ Events[j].kind = "gtid" /\ Events[j].sid \in setup.filtered

Captured == {i \in 1 .. written : Events[i].kind = "rows" /\ i >= since /\ ~Ignored(i)}

\* Whatever the stream has passed has been sent: the replay filter (should_skip)
\* drops only rows that reached the sink before, although serials and anchors are
\* counted anew on each connection and after each rotation.
NoGap ==
    phase = "streaming" =>
        \A i \in Captured : i < rd => ChangesOf(i) \subseteq delivered \cup {r.at : r \in Range(flight)}

\* A row is decoded with the table definition it was written in, also when schema
\* changes are replayed, or pass while a chunk that was read behind them waits for
\* the stream (apply_ddl, persisted schema history).
LayoutMatches == \A r \in Range(flight) : r.fits

\* Everything has happened, been read, delivered and checkpointed.
CaughtUp ==
    /\ written = Len(Events) /\ applied = written /\ Ready /\ rd = written + 1 /\ flight = <<>>
    /\ ext = "idle" /\ offset = Len(External)

Commands == Range(External) \cup {e.signal : e \in {x \in Range(Events) : x.kind = "signal"}}

Completed(t) ==
    /\ \E s \in Commands : s.type = "execute" /\ s.id \in Range(inc.completed) /\ t \in Range(s.tables)
    /\ \A s \in Commands : s.type # "stop"

\* Rows that were gone before capture began: a snapshot that did not end may have
\* shown them, and nothing takes them back.
Gone(key) == TableAt(since - 1)[key] = 0 /\ \A i \in Captured : Writes(i, key) = {}

\* The sink has what the tables have: where a snapshot has read a row or the stream
\* has shown it last, and in every table an incremental snapshot has completed; a
\* chunk never leaves an older row behind than the stream had shown.
Converges ==
    CaughtUp =>
        \A key \in Keys :
            (/\ ~Gone(key) /\ \A i \in DOMAIN Events : Ignored(i) => Writes(i, key) = {}
             /\ \/ ckpt.snap \/ Completed(key.table)
                \/ \E i \in Captured : Writes(i, key) # {})
                => view[key] = TableAt(written)[key]

\* Every accepted snapshot completes, or the connector has failed for a reason it
\* reports: an idle log, a disconnect or a restart inside a window do not stall it.
SnapshotsComplete ==
    <>[](~Active(inc) \/ inc.progress.paused \/ reason \in {"retries", "schemaChange", "signal"})

=============================================================================
