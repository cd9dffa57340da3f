--------------------------------- MODULE MCMySql ---------------------------------
(***************************************************************************)
(* Instances of MySql for TLC.                                             *)
(***************************************************************************)
EXTENDS MySql

Key(t, k) == [table |-> t, k |-> k]
Signal(type, id, tables) == [type |-> type, id |-> id, tables |-> tables]

Ev(kind) ==
    [kind |-> kind, table |-> "none", rows |-> <<>>, sid |-> "none", signal |-> Signal("none", 0, <<>>),
     from |-> 0, to |-> 0]
OfTable(kind, t) == [Ev(kind) EXCEPT !.table = t]
Put(t, rows)  == [OfTable("rows", t) EXCEPT !.rows = rows]
Row(k, val)   == [k |-> k, val |-> val]

\* Each transaction and schema change begins with an anonymous GTID event.
Alter(t, from, to) == <<Ev("other"), [OfTable("ddl", t) EXCEPT !.from = from, !.to = to]>>
Txn(events) == <<Ev("other"), Ev("begin")>> \o events \o <<Ev("xid")>>
Change(t, rows) == Txn(<<OfTable("map", t), Put(t, rows)>>)
From(sid, txn) == <<[Ev("gtid") EXCEPT !.sid = sid]>> \o Tail(txn)
Command(s) == Txn(<<OfTable("map", SignalTable), [OfTable("signal", SignalTable) EXCEPT !.signal = s]>>)

OneRow == Key("A", 1) :> 1
TwoRows == OneRow @@ (Key("A", 2) :> 1)
TwoTables == OneRow @@ (Key("B", 1) :> 1)

ExecuteA == Signal("execute", 1, <<"A">>)

\* An initial snapshot, then a transaction of two events; a crash and a disconnect
\* anywhere.
Basic ==
    [script |-> <<Txn(<<OfTable("map", "A"), Put("A", <<Row(1, 2)>>),
                        OfTable("map", "A"), Put("A", <<Row(1, 3), Row(2, 3)>>)>>)>>, rows |-> TwoRows,
     order |-> [key \in DOMAIN TwoRows |-> key.k], external |-> <<>>, rotations |-> {}, rank |-> <<1, 2>>,
     mode |-> "initial", restartMode |-> "initial", channel |-> "kafka", chunkSize |-> 1,
     heartbeats |-> FALSE, prompt |-> TRUE, gtid |-> FALSE, filtered |-> {}, skipDdl |-> FALSE,
     ddlAside |-> TRUE, stops |-> 1, breaks |-> 1, purges |-> 0, retries |-> 2]

On(rows) == [Basic EXCEPT !.rows = rows,
                          !.order = [key \in DOMAIN rows |-> IF key.table = "A" THEN key.k ELSE 3]]

\* Heartbeats between the rows, a rotation between two transactions, and rows that
\* can be read only some time after the log has them.
Rotated ==
    [On(OneRow) EXCEPT !.script = <<Change("A", <<Row(1, 2)>>), Change("A", <<Row(1, 3)>>),
                                    <<Ev("begin"), Ev("rollback")>>>>,
                       !.rotations = {6}, !.heartbeats = TRUE, !.breaks = 0, !.prompt = FALSE]

\* A chunk for each row, requested in the signal table, while one row is updated
\* and the other deleted.
BySource ==
    [Basic EXCEPT !.script = <<Command(ExecuteA), Change("A", <<Row(1, 2)>>), Change("A", <<Row(2, 0)>>)>>,
                  !.breaks = 0]

\* The same requested by the topic, twice, in a table the initial snapshot left out
\* (mode never), between statements that are no transactions.
ByTopic ==
    [Basic EXCEPT !.script = <<<<Ev("other")>>, Change("A", <<Row(1, 2)>>)>>,
                  !.external = <<ExecuteA, ExecuteA>>, !.breaks = 0,
                  !.mode = "never", !.restartMode = "never"]

\* By the file, behind a signal without effect and a line that cannot be parsed.
ByFile ==
    [On(OneRow) EXCEPT !.script = <<Change("A", <<Row(1, 2)>>), Change("A", <<Row(1, 0)>>)>>,
                       !.external = <<Signal("pause", 2, <<>>), Signal("invalid", 0, <<>>), ExecuteA>>,
                       !.channel = "file"]

\* A pause within a snapshot, its end, and another snapshot.
Paused ==
    [On(OneRow) EXCEPT !.script = <<Change("A", <<Row(1, 2)>>)>>, !.breaks = 0,
                       !.external = <<ExecuteA, Signal("pause", 2, <<>>), Signal("resume", 3, <<>>),
                                      Signal("execute", 4, <<"A">>)>>]

\* Two collections, of which the first is stopped; then one that is not captured.
Stopped ==
    [On(TwoTables) EXCEPT !.script = <<Change("B", <<Row(1, 2)>>)>>, !.breaks = 0,
                          !.external = <<Signal("execute", 1, <<"A", "B">>), Signal("invalid", 0, <<>>),
                                         Signal("stop", 2, <<"A">>), Signal("execute", 3, <<"C">>)>>]

\* The definition of the table changes, beside a chunk and between rows.
Altered ==
    [On(OneRow) EXCEPT !.script = <<Change("A", <<Row(1, 2)>>), Alter("A", 1, 2), Change("A", <<Row(1, 3)>>)>>,
                       !.external = <<ExecuteA>>, !.stops = 0]

\* Rows of another server of the group are filtered; definitions are not.
Filtered ==
    [On(OneRow) EXCEPT !.script = <<From("other", Change("B", <<Row(1, 2)>>)),
                                    From("other", Alter("A", 1, 2)),
                                    From("own", Change("A", <<Row(1, 2)>>))>>,
                       !.rows = TwoTables, !.order = Stopped.order, !.gtid = TRUE, !.filtered = {"other"}]

\* A statement that cannot be parsed; the definition stays behind it as it was.
Unparsed ==
    [On(OneRow) EXCEPT !.script = <<Alter("B", 2, 3), Change("A", <<Row(1, 2)>>)>>, !.rows = TwoTables,
                       !.order = Stopped.order, !.breaks = 0]
UnparsedSkipped == [Unparsed EXCEPT !.skipDdl = TRUE, !.script = <<Alter("B", 2, 1)>> \o Tail(@)]

\* The file of the checkpoint expires while the process is down.
Purged(mode) ==
    [Rotated EXCEPT !.heartbeats = FALSE, !.prompt = TRUE, !.purges = 1, !.mode = mode, !.restartMode = mode]

\* A snapshot that did not end, and no snapshots from then on.
ModeChanged ==
    [On(OneRow) EXCEPT !.script = <<Alter("A", 1, 2), Change("A", <<Row(1, 2)>>)>>, !.restartMode = "never",
                       !.breaks = 0]

\* One statement writes two tables, which are mapped before the rows of either, and a
\* trigger writes to the other table between two rows.
Triggered ==
    [On(TwoTables) EXCEPT
        !.script = <<Txn(<<OfTable("map", "A"), OfTable("map", "B"), Put("A", <<Row(1, 2)>>),
                           Put("B", <<Row(1, 2)>>), Put("A", <<Row(1, 3)>>)>>)>>,
        !.stops = 0]

\* The log that the transactions of a setup leave, one after another.
Logged(s) ==
    s @@ [log |-> FlattenSeq(s.script),
          ends |-> {Len(FlattenSeq(SubSeq(s.script, 1, n))) : n \in DOMAIN s.script}]

MySqlSetups ==
    {Logged(s) : s \in
        {Basic, Rotated, BySource, ByTopic, ByFile, Paused, Stopped, Altered, Filtered, Unparsed,
         UnparsedSkipped, Purged("when_needed"), Purged("initial"), ModeChanged, Triggered}}

\* The logs are such as a server writes.
ASSUME MySqlLogs == \A s \in MySqlSetups : LogSound(s)
=============================================================================
