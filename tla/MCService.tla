------------------------------- MODULE MCService -------------------------------
(***************************************************************************)
(* The encoders and the Kafka sink; and the process around a connector,    *)
(* on its own.                                                             *)
(***************************************************************************)
EXTENDS KafkaSink, Service

CONSTANTS Setups, Deployments

SinkAlone == SinkNext /\ stage = "none" /\ UNCHANGED serviceVars
ProcessAlone == ServiceNext /\ stage # "none" /\ UNCHANGED sinkVars

\* Of a behaviour, one of the two parts does nothing.
NoDeployment == [topic |-> <<>>]
NoEvents == [format |-> "json", events |-> <<>>, tombstones |-> TRUE, capacity |-> 1, batch |-> 1, faults |-> 0]
NoProcess ==
    /\ deployment = NoDeployment /\ stage = "none" /\ root = FALSE /\ serverToken = FALSE /\ exit = "none" /\ term = FALSE
    /\ fault = FALSE /\ connector = "off" /\ result = "ok" /\ waiting = <<>> /\ server = "off" /\ request = "none"
    /\ signals = "off" /\ ack = FALSE
    /\ starts = 0 /\ known = <<>> /\ durable = <<>> /\ requests = 0 /\ next = 0 /\ offset = 0

Init ==
    /\ SinkInit
    /\ \/ setup \in Setups /\ NoProcess
       \/ setup = NoEvents /\ deployment \in Deployments /\ ServiceInit

Next == SinkAlone \/ ProcessAlone

allVars == <<sinkVars, serviceVars>>
Spec == Init /\ [][Next]_allVars
FairSpec == Spec /\ ServiceFairness

----------------------------------------------------------------------------

Text(v) == Value("String", v)
Int32(v) == Value("Int32", v)
Int64(v) == Value("Int64", v)
UInt64(v) == Value("UInt64", v)

\* A table before and after columns were added to it.
Id == FieldSchema("id", Type("int4"), FALSE, TRUE)
Name == FieldSchema("name", Type("text"), TRUE, FALSE)
Qty == FieldSchema("qty", Type("bigint"), FALSE, FALSE)
Extra == FieldSchema("extra", ArrayOf(Type("int4")), TRUE, FALSE)
Tags == FieldSchema("tags", Type("hstore"), TRUE, FALSE)
Odd == FieldSchema("a-b", Type("boolean"), TRUE, FALSE)
Narrow == <<Id, Name, Qty>>
Wide == <<Id, Name, Extra, Qty, Tags, Odd>>

NarrowRow(id, name, qty) == Some([id |-> Int32(id), name |-> name, qty |-> Int64(qty)])
WideRow(id, name, extra, tags) ==
    Some([n \in {"id", "name", "extra", "qty", "tags", "a-b"} |->
        CASE n = "id" -> Int32(id) [] n = "name" -> name [] n = "extra" -> extra [] n = "qty" -> Int32(7)
          [] n = "tags" -> tags [] OTHER -> Value("Boolean", 1)])

Read(after) == Event("t", "read", None, after, 1, Narrow)
Create(after) == Event("t", "create", None, after, 1, Narrow)
Update(after) == Event("t", "update", None, after, 1, Narrow)
Delete(before) == Event("t", "delete", before, None, 1, Narrow)
Truncate == Event("t", "truncate", None, None, 1, Narrow)
AsWide(event) == [event EXCEPT !.version = 2, !.fields = Wide]
Elsewhere(event) == [event EXCEPT !.table = "u"]

Heartbeat == [Event("", "heartbeat", None, None, 1, <<>>) EXCEPT !.kind = "heartbeat"]
LogicalMessage ==
    [Event("", "message", None, Some([prefix |-> Text(1), content |-> Value("Bytes", 2)]), 1,
           <<FieldSchema("prefix", Type("text"), TRUE, TRUE), FieldSchema("content", Type("bytea"), TRUE, FALSE)>>)
     EXCEPT !.kind = "message"]

InTransaction(event, total) == [event EXCEPT !.transaction = Some([total |-> UInt64(total), collection |-> Null])]

\* Columns are added while rows come and go; item is in an array.
Evolution(item) ==
    <<Read(NarrowRow(1, Text(5), 200)), Create(NarrowRow(2, Null, 3)),
      InTransaction(AsWide(Update(WideRow(1, Unavailable, Container("Array", <<Int32(1), item>>), Null))), 1),
      InTransaction(AsWide(Delete(WideRow(2, Null, Unavailable, Container("Map", <<Text(3), Null>>)))), 2)>>

\* A key comes back after its deletion; a heartbeat and a logical message in between.
Back == <<Create(NarrowRow(1, Text(5), 1)), Delete(NarrowRow(1, Text(5), 1)), Heartbeat, LogicalMessage,
          Create(NarrowRow(1, Text(6), 2))>>

\* Two tables with the same columns, in turn.
InTurn == <<Create(NarrowRow(1, Text(5), 1)), Elsewhere(Create(NarrowRow(1, Text(6), 2))),
            Update(NarrowRow(1, Null, 3)), Elsewhere(Delete(NarrowRow(1, Text(6), 2)))>>

\* A table is truncated and filled again.
Truncated == <<Create(NarrowRow(1, Text(5), 1)), Create(NarrowRow(2, Text(6), 1)), Truncate, Create(NarrowRow(2, Null, 2))>>

Keyless(event) == [event EXCEPT !.fields = [n \in DOMAIN event.fields |-> [event.fields[n] EXCEPT !.key = FALSE]]]
WithoutKey(events) == [n \in DOMAIN events |-> Keyless(events[n])]

\* What each source writes into the source block of a row, and of a snapshot's row.
String(names) == [name \in names |-> Value("String", 1)]
Number(names) == [name \in names |-> Value("UInt64", 2)]
Position(source, operation) ==
    CASE source = "postgresql" -> String({"sequence"}) @@ Number({"lsn"}) @@ (IF operation = "read" THEN <<>> ELSE Number({"txId"}))
      [] source = "mysql"      -> String({"file"}) @@ Number({"server_id", "pos", "row"}) @@ (IF operation = "read" THEN <<>> ELSE String({"gtid"}))
      [] source = "sqlserver"  -> String({"change_lsn", "commit_lsn"}) @@ Number({"event_serial_no"})
      [] source = "oracle"     -> Number({"scn", "event_serial_no"}) @@ (IF operation = "read" THEN <<>> ELSE Number({"commit_scn", "ssn"}) @@ String({"txId", "rs_id"}))
      [] source = "mongodb"    -> Number({"event_serial_no"}) @@ (IF operation = "read" THEN <<>> ELSE String({"resume_token"}) @@ Number({"cluster_time_seconds", "cluster_time_increment"}))
      [] source = "debezium"   -> String({"source_offset", "record_id"}) @@ Number({"event_serial_no"})
Connectors == {"postgresql", "mysql", "sqlserver", "oracle", "mongodb", "debezium"}
From(source, events) ==
    [n \in DOMAIN events |-> [events[n] EXCEPT !.connector = source, !.position = Position(source, events[n].op)]]

\* A column of unsigned numbers that need all 64 bits.
Big == FieldSchema("qty", Unsigned(Type("bigint")), FALSE, FALSE)
BigRow(id, qty) == Some([id |-> Int32(id), qty |-> UInt64(qty)])
BigNumbers == <<Event("t", "create", None, BigRow(1, 2000), 1, <<Id, Big>>), Event("t", "update", None, BigRow(1, 99), 1, <<Id, Big>>)>>

\* Two columns whose names, or whose numbers, become one.
Clash(one, two) ==
    <<Event("t", "create", None, Some([n \in {"id", one, two} |-> Int32(1)]), 1,
            <<Id, FieldSchema(one, Type("int4"), TRUE, FALSE), FieldSchema(two, Type("int4"), TRUE, FALSE)>>)>>

\* What PostgreSQL logs of a deletion when the replica identity is the primary key.
KeyOnly == <<Create(NarrowRow(1, Text(5), 1)), Delete(Some([id |-> Int32(1), name |-> Null, qty |-> Null]))>>

\* One value of a column of some type, from a source that reads such a value of such a type.
Holding(source, type, value) ==
    From(source, <<Event("t", "create", None, Some([id |-> Int32(1), extra |-> value]), 1,
                         <<Id, FieldSchema("extra", type, TRUE, FALSE)>>)>>)

\* A bit of SQL Server; hstore in either mode; an unsigned column of MySQL.
Awkward ==
    {KeyOnly,
     Holding("sqlserver", Type("bit"), Value("Boolean", 1)),
     Holding("postgresql", Type("hstore"), Value("Json", 3)),
     Holding("postgresql", Type("hstore"), Container("Map", <<Text(3), Null>>)),
     Holding("mysql", Unsigned(Type("decimal")), Value("Decimal", 4)),
     Holding("mysql", Unsigned(Type("double")), Value("Float64", 4))}

\* Arrays of two dimensions and an unsigned integer: the schema that JsonSchemaConverter
\* registers is one the value does not conform to, so not with it.
OddTyped ==
    {Holding("postgresql", ArrayOf(Type(item)), Container("Array", <<Value("Array", 2)>>)) : item \in {"integer", "text"}}
    \cup {Holding("mysql", Unsigned(Type("int")), UInt64(4))}

----------------------------------------------------------------------------

Setup(format, events) ==
    [format |-> format, events |-> events, tombstones |-> TRUE, capacity |-> 2, batch |-> 2, faults |-> 2]

Binaries == {"avro", "protobuf"}
Plain == {"json", "rustium"}
Formats == Binaries \cup Plain \cup {"json_schema"}

SinkSetups ==
    {Setup(f, Evolution(Null)) : f \in Formats \ {"json_schema"}}
    \cup {Setup(f, events) : f \in Formats, events \in {Evolution(Int32(2)), Back, InTurn, Truncated, WithoutKey(Truncated)}}
    \cup {[Setup(f, events) EXCEPT !.faults = 1] : f \in Formats, events \in Awkward}
    \cup {[Setup(f, events) EXCEPT !.capacity = 1, !.batch = 3] : f \in Binaries, events \in {Evolution(Null), InTurn}}
    \cup {[Setup(f, From(c, <<Read(NarrowRow(1, Text(5), 1)), Update(NarrowRow(1, Null, 2))>>)) EXCEPT !.faults = 1] :
            f \in Formats, c \in Connectors}
    \cup {[Setup(f, Back) EXCEPT !.tombstones = FALSE] : f \in Formats}
    \cup {Setup(f, From("mysql", BigNumbers)) : f \in Formats}
    \cup {[Setup(f, events) EXCEPT !.faults = 1] : f \in Formats \ {"json_schema"}, events \in OddTyped}
    \cup {Setup(f, Clash(names[1], names[2])) :
            f \in Formats, names \in {<<"a-b", "a b">>, <<"name", "alias">>}}

----------------------------------------------------------------------------

Deployment(written, capacity, count) ==
    [topic |-> written, kafka |-> TRUE, inProcess |-> TRUE, mutations |-> TRUE,
     capacity |-> capacity, requests |-> count, starts |-> 2]
OnlyHttp == [Deployment(<<>>, 1, 3) EXCEPT !.kafka = FALSE]
ReadOnly == [Deployment(<<"foreign", "own">>, 1, 0) EXCEPT !.mutations = FALSE, !.inProcess = FALSE]

Processes == {Deployment(<<"own", "invalid", "own", "foreign">>, 1, 2), Deployment(<<"own">>, 2, 2), OnlyHttp, ReadOnly}

\* Nothing but requests to the management server.
Managed == {OnlyHttp}

NoSetups == {}
=============================================================================
