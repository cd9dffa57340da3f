--------------------------------- MODULE Oracle ---------------------------------
(***************************************************************************)
(* The Oracle connector (rustium-oracle, source.rs): a snapshot AS OF an   *)
(* SCN, then polls of LogMiner that read committed rows in SCN order.      *)
(*                                                                         *)
(* The redo is setup.redo, of which the database has written the first     *)
(* `written' entries; the rank of an entry is its SCN, RS_ID and SSN.      *)
(***************************************************************************)
EXTENDS Delivery

VARIABLES
    written,   \* redo entries so far
    cursor,    \* cursor_scn, cursor_rs_id and cursor_ssn
    anchor,    \* the SCN of the last snapshot
    todo,      \* keys its query has yet to return
    serial,    \* event_serial
    batch,     \* rows of the last poll yet to be handled
    missed     \* history: rows uncommitted when the cursor went past them

oracle == <<written, cursor, anchor, todo, serial, batch, missed>>

Redo == setup.redo

\* COMMIT_SCN of an entry once n entries are written; 0 is NULL.
CommitScn(i, n) ==
    LET commits == {c \in i .. n : Redo[c].op = "commit" /\ Redo[c].txn = Redo[i].txn}
    IN  IF commits = {} THEN 0 ELSE Min(commits)

Committed(n) == {i \in 1 .. n : CommitScn(i, n) # 0}

\* What a query AS OF the n-th entry returns for a key; 0: no row.
RowAsOf(key, n) ==
    LET of == {i \in Committed(n) : Redo[i].op = "row" /\ Redo[i].key = key}
    IN  IF of = {} THEN setup.rows[key] ELSE Redo[Max(of)].val

\* parse_sql_row: the predicates of an update's WHERE clause overwrite what SET assigns.
AfterImage(i) ==
    IF setup.where = "all" /\ Redo[i].val # 0 THEN RowAsOf(Redo[i].key, i - 1) ELSE Redo[i].val

\* The database writes its next entry.
Write ==
    /\ written < Len(Redo) /\ written' = written + 1
    /\ UNCHANGED <<setup, phase, runtime, stops, cursor, anchor, todo, serial, batch, missed>>

\* run: the cursor is the checkpoint's or the current SCN.
Start ==
    /\ phase = "down"
    /\ LET fresh == ckpt.pos = None
           snapshot == setup.mode # "never" /\ ~ckpt.snap
       IN  /\ phase' = IF snapshot THEN "snapshot" ELSE "streaming"
           /\ cursor' = IF fresh \/ snapshot THEN written ELSE ckpt.pos.at[1]
           /\ serial' = IF fresh THEN 0 ELSE ckpt.pos.at[2]
           /\ anchor' = IF snapshot \/ fresh THEN written ELSE anchor
           /\ todo' = IF snapshot THEN {key \in Keys : RowAsOf(key, written) # 0} ELSE {}
           /\ missed' = IF snapshot \/ fresh THEN missed \cup (1 .. written \ Committed(written)) ELSE missed
    /\ batch' = {} /\ UNCHANGED <<setup, runtime, stops, written>>

\* The serial of a snapshot row: its place among the rows of the snapshot.
Returned == Cardinality({key \in Keys : RowAsOf(key, anchor) # 0} \ todo)

SnapshotRow ==
    /\ phase = "snapshot" /\ todo # {}
    /\ LET key == Min(todo)
       IN  /\ Send(Item(Position(<<anchor, 0, Returned + 1>>, <<anchor, Returned + 1>>), key, RowAsOf(key, anchor), 0))
           /\ todo' = todo \ {key}
    /\ UNCHANGED <<setup, phase, view, taken, ckpt, acked, stops, written, cursor, anchor, serial, batch, missed>>

SnapshotEnd ==
    /\ phase = "snapshot" /\ todo = {}
    /\ Send(SnapshotMark(Position(<<anchor, 0, Returned + 1>>, <<anchor, Returned + 1>>)))
    /\ phase' = "streaming"
    /\ UNCHANGED <<setup, view, taken, ckpt, acked, stops, written, cursor, anchor, todo, serial, batch, missed>>

\* Faulty variant: the row after the cursor is left out.
BeyondNext == {i \in Committed(written) : i > cursor + 1}

\* The WHERE clause of poll_logminer.
Beyond == {i \in Committed(written) : i > cursor}

\* FETCH FIRST batch_size ROWS in SCN order.
Fetched == {i \in Beyond : Cardinality({j \in Beyond : j <= i}) <= setup.batchSize}

Poll ==
    /\ phase = "streaming" /\ batch = {} /\ Beyond # {}
    /\ batch' = Fetched
    /\ missed' = missed \cup {i \in 1 .. written \ Committed(written) : \E row \in Fetched : i < row}
    /\ UNCHANGED <<setup, phase, runtime, stops, written, cursor, anchor, todo, serial>>

\* One row of the poll.
Handle ==
    /\ phase = "streaming" /\ batch # {}
    /\ LET i == Min(batch)
           pos == Position(<<CommitScn(i, written), 1, serial + 1>>, <<i, serial + 1>>)
       IN  /\ Send(CASE Redo[i].op = "commit" -> Mark(pos, TRUE)
                     [] Redo[i].op = "start"  -> Mark(pos, FALSE)
                     [] OTHER                 -> Item(pos, Redo[i].key, AfterImage(i), i))
           /\ cursor' = i /\ batch' = batch \ {i}
    /\ serial' = serial + 1
    /\ UNCHANGED <<setup, phase, view, taken, ckpt, acked, stops, written, anchor, todo, missed>>

\* The heartbeat arm of the loop: its position is the SCN of the cursor.
Heartbeat ==
    /\ setup.beats /\ phase = "streaming" /\ batch = {}
    /\ Send(Mark(Position(<<cursor, 1, serial>>, <<cursor, serial>>), FALSE))
    /\ UNCHANGED <<setup, phase, view, taken, ckpt, acked, stops, oracle>>

\* connect, a query or LogMiner fails: run returns the error; retry_policy is not used.
QueryFails ==
    /\ setup.errors /\ phase \in {"snapshot", "streaming"} /\ stops < setup.stops
    /\ phase' = "failed" /\ stops' = stops + 1
    /\ UNCHANGED <<setup, runtime, oracle>>

OracleInit ==
    /\ written \in 0 .. setup.early /\ cursor = 0 /\ anchor = 0 /\ todo = {} /\ serial = 0 /\ batch = {}
    /\ missed = {}

OracleNext ==
    \/ Write \/ Start \/ SnapshotRow \/ SnapshotEnd \/ Poll \/ Handle \/ Heartbeat \/ QueryFails

\* Nothing is left to read or to write.
OracleIdle == phase = "streaming" /\ NoRows /\ batch = {} /\ Beyond = {}

\* The last change of a key.
LastRow(key) == Max({0} \cup {i \in Committed(written) : Redo[i].op = "row" /\ Redo[i].key = key})

\* A key whose row was deleted before the snapshot that did not see it, or that was
\* changed last before a connector without snapshot started.
OutOfSight(key) == LastRow(key) <= anchor /\ (RowAsOf(key, written) = 0 \/ setup.mode = "never")

\* No row of the key was uncommitted when the cursor passed it.
OracleSeen(key) == \A i \in missed \ taken : Redo[i].op = "row" => Redo[i].key # key
=============================================================================
