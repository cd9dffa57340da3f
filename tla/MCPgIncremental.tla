---------------------------- MODULE MCPgIncremental ----------------------------
(***************************************************************************)
(* Instances of PgIncremental for TLC.                                     *)
(***************************************************************************)
EXTENDS PgIncremental

Key(t, k) == [table |-> t, k |-> k]
Signal(type, id, tables) == [type |-> type, id |-> id, tables |-> tables]

Put(tx, key, val) == [op |-> "put", tx |-> tx, key |-> key, val |-> val, signal |-> NoSignal]
CommitOf(tx)      == [Put(tx, NoKey, 0) EXCEPT !.op = "commit"]
Command(tx, s)    == [Put(tx, NoKey, 0) EXCEPT !.op = "signal", !.signal = s]

OneRow == Key("A", 1) :> 1
TwoRows == OneRow @@ (Key("A", 2) :> 1)
ThreeRows == TwoRows @@ (Key("A", 3) :> 1)
TwoTables == OneRow @@ (Key("B", 1) :> 1)

Execute1 == Signal("execute", 1, <<"A">>)
Request == <<Command("s", Execute1), CommitOf("s")>>
Updated(key) == <<Put("x", key, 2), CommitOf("x")>>
Update == Updated(Key("A", 1)) \o <<Put("y", Key("A", 2), 0), CommitOf("y")>>
Overlap ==
    <<Put("x", Key("A", 1), 2), Put("y", Key("A", 2), 2), CommitOf("y"), CommitOf("x"),
      Put("z", Key("A", 1), 3), CommitOf("z")>>

\* A chunk for each row, requested in the signal table, while one row is updated
\* and the other deleted; a crash anywhere. The connector's watermarks do not fall
\* into other transactions: what a restart then loses is the subject of PgStreaming.
BySource ==
    [rows |-> TwoRows, script |-> Request \o Update, external |-> <<>>, readOnly |-> FALSE,
     chunkSize |-> 1, streamed |-> FALSE, isolated |-> TRUE, heartbeats |-> FALSE, stops |-> 1,
     channel |-> "kafka"]

\* The signal arrives in the table and, twice, on the topic.
Repeated ==
    [BySource EXCEPT !.rows = OneRow, !.script = Request, !.external = <<Execute1, Execute1>>]

\* Transactions overlap each other and the watermarks; no crash.
Overlapping ==
    [BySource EXCEPT !.script = Overlap, !.external = <<Execute1>>, !.isolated = FALSE, !.stops = 0]

\* The same without writes to the database; and a crash without the overlap.
WithoutWrites == [Overlapping EXCEPT !.rows = ThreeRows, !.chunkSize = 2, !.readOnly = TRUE]
WithoutWritesStopped ==
    [BySource EXCEPT !.script = Update, !.external = <<Execute1>>, !.readOnly = TRUE]

\* A pause within the snapshot, its end, and another snapshot.
Paused ==
    [BySource EXCEPT !.script = Updated(Key("A", 2)), !.stops = 0,
                     !.external = <<Execute1, Signal("pause", 2, <<>>), Signal("resume", 3, <<>>),
                                    Signal("execute", 4, <<"A">>)>>]

\* The signals come by file, any number of lines at a time; those written while the file
\* is emptied, or read when the process crashed, are lost.
ByFile ==
    [BySource EXCEPT !.rows = TwoTables, !.script = Updated(Key("B", 1)), !.channel = "file",
                     !.external = <<Execute1, Signal("execute", 2, <<"B">>)>>]

\* Two collections, of which the first is stopped.
Stopped ==
    [BySource EXCEPT !.rows = TwoTables, !.script = Updated(Key("B", 1)),
                     !.external = <<Signal("execute", 1, <<"A", "B">>), Signal("stop", 2, <<"A">>)>>]

\* The last collection is stopped, which may be the current one.
StoppedLast == [Stopped EXCEPT !.script = <<>>, !.external[2] = Signal("stop", 2, <<"B">>)]

\* Heartbeats between the rows of a window and their commit.
Beating ==
    [BySource EXCEPT !.rows = OneRow, !.heartbeats = TRUE, !.script = Request]

\* A transaction that is sent while in progress, in another table.
StreamedAside ==
    [Overlapping EXCEPT !.rows = TwoTables, !.streamed = TRUE, !.script = Updated(Key("B", 1))]

Signalled ==
    {BySource, Repeated, Overlapping, WithoutWrites, WithoutWritesStopped, Paused, Stopped, StoppedLast,
     Beating, StreamedAside, ByFile}

=============================================================================
