------------------------------ MODULE MCSqlServer ------------------------------
(***************************************************************************)
(* Instances of SqlServer for TLC.                                         *)
(***************************************************************************)
EXTENDS SqlServer

Key(t, k) == [table |-> t, k |-> k]
Signal(type, id, tables) == [type |-> type, id |-> id, tables |-> tables]

Change(op, t, k, val) == [NoChange EXCEPT !.op = op, !.table = t, !.k = k, !.val = val]
Command(s) == [NoChange EXCEPT !.op = "signal", !.table = "signal", !.signal = s]

OneRow == Key("A", 1) :> 1
TwoRows == OneRow @@ (Key("A", 2) :> 1)
TwoTables == OneRow @@ (Key("B", 1) :> 1)

ExecuteA == Signal("execute", 1, <<"A">>)

\* A transaction of an update, a deletion and an insertion, read row by row; a crash
\* and a failed poll anywhere, and batches that end within the transaction.
Basic ==
    [script |-> <<<<Change("u", "A", 1, 2), Change("d", "A", 2, 0), Change("c", "A", 2, 3)>>>>,
     rows |-> TwoRows, order |-> [key \in DOMAIN TwoRows |-> key.k], external |-> <<>>,
     mode |-> "initial", restartMode |-> "initial", isolation |-> "snapshot", channel |-> "kafka",
     fetchSize |-> 1, chunkSize |-> 1, heartbeats |-> FALSE, cuts |-> TRUE, signalTable |-> TRUE,
     stops |-> 1, breaks |-> 1, cleanups |-> 0, retries |-> 1]

On(rows) == [Basic EXCEPT !.rows = rows,
                          !.order = [key \in DOMAIN rows |-> IF key.table = "A" THEN key.k ELSE 3]]

\* Two transactions, the halves of one update in two polls, heartbeats between, and
\* rows read at different moments by the snapshot.
Committed ==
    [Basic EXCEPT !.script = <<<<Change("d", "A", 1, 0), Change("u", "A", 2, 2)>>, <<Change("c", "A", 1, 3)>>>>,
                  !.fetchSize = 2, !.isolation = "read_committed", !.heartbeats = TRUE, !.breaks = 0]

\* A chunk for each row, requested in the signal table, while one row is updated
\* and the other deleted.
BySource ==
    [Basic EXCEPT !.script = <<<<Command(ExecuteA)>>, <<Change("u", "A", 1, 2), Change("d", "A", 2, 0)>>>>,
                  !.cuts = FALSE, !.breaks = 0, !.fetchSize = 2]

\* The same requested by the topic, twice, in a table the initial snapshot left out
\* (mode never); a watermark cannot be written.
ByTopic ==
    [Basic EXCEPT !.script = <<<<Change("u", "A", 1, 2)>>>>, !.external = <<ExecuteA, ExecuteA>>,
                  !.cuts = FALSE, !.mode = "never", !.restartMode = "never", !.stops = 0, !.retries = 0]

\* By the file, behind a signal without effect and a line that cannot be parsed.
ByFile ==
    [On(OneRow) EXCEPT !.script = <<<<Change("u", "A", 1, 2)>>>>,
                       !.external = <<Signal("pause", 2, <<>>), Signal("invalid", 0, <<>>), ExecuteA>>,
                       !.channel = "file", !.cuts = FALSE, !.breaks = 0]

\* A pause within a snapshot, its end, and another snapshot.
Paused ==
    [On(OneRow) EXCEPT !.script = <<<<Change("u", "A", 1, 2)>>>>, !.breaks = 0, !.stops = 0, !.cuts = FALSE,
                       !.external = <<ExecuteA, Signal("pause", 2, <<>>), Signal("resume", 3, <<>>),
                                      Signal("execute", 4, <<"A">>)>>]

\* Two collections, of which the first is stopped; a signal that cannot be parsed; then
\* one that is not captured.
Stopped ==
    [On(TwoTables) EXCEPT !.script = <<<<Change("u", "B", 1, 2)>>>>, !.breaks = 0, !.stops = 0,
                          !.cuts = FALSE,
                          !.external = <<Signal("execute", 1, <<"A", "B">>), Signal("invalid", 0, <<>>),
                                         Signal("stop", 2, <<"A">>), Signal("execute", 3, <<"C">>)>>]

\* All is stopped in the signal table while a window opens, and started again.
StoppedBySource ==
    [On(OneRow) EXCEPT !.script = <<<<Command(ExecuteA)>>, <<Command(Signal("stop", 2, <<>>))>>,
                                    <<Command(Signal("execute", 3, <<"A">>))>>>>,
                       !.breaks = 0, !.stops = 0, !.cuts = FALSE]

\* A column is added while a chunk is read, or before a restart.
Altered ==
    [On(OneRow) EXCEPT !.script = <<<<Alter("A")>>>>, !.external = <<ExecuteA>>,
                       !.breaks = 0, !.cuts = FALSE]

\* No table to write watermarks to, and transactions of tables that are not captured; a
\* signal that cannot be parsed.
NoSignalTable == [On(OneRow) EXCEPT !.script = <<<<>>>>, !.external = <<ExecuteA>>, !.signalTable = FALSE]
Unparsed ==
    [On(OneRow) EXCEPT !.script = <<<<Command(Signal("invalid", 1, <<>>))>>>>, !.channel = "file",
                       !.external = <<Signal("execute", 1, <<"C">>)>>, !.cuts = FALSE]

\* The cleanup job passes the cursor, or the checkpoint while the process is down.
Cleaned(mode) ==
    [On(OneRow) EXCEPT !.script = <<<<Change("u", "A", 1, 2)>>, <<Change("u", "A", 1, 3)>>>>, !.cleanups = 2,
                       !.mode = mode, !.restartMode = mode, !.breaks = 0]

\* The first setup with a signal, whose state every later checkpoint carries, also one
\* within a transaction: here NoGap fails.
CutWithState == {[Basic EXCEPT !.external = <<ExecuteA>>, !.breaks = 0]}

SqlServerSetups ==
    {Basic, Committed, BySource, ByTopic, ByFile, Paused, Stopped, StoppedBySource, Altered, NoSignalTable,
     Unparsed, Cleaned("when_needed"), Cleaned("initial")}

=============================================================================
