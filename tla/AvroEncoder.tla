------------------------------ MODULE AvroEncoder ------------------------------
(***************************************************************************)
(* DebeziumAvroEncoder (rustium-format-avro, lib.rs).  A schema is a       *)
(* sequence of fields, each with the branches of its union; a datum is     *)
(* positional: a cell says which branch it is in and nothing of its name.  *)
(***************************************************************************)
EXTENDS Encoding

Cell(branch, v) == [branch |-> branch, v |-> v, items |-> <<>>]
Error == Cell("error", 0)

AvroKind(type) == [array |-> type.array, kind |-> KindOf(type, "String")]
ElementKind(kind) == [kind EXCEPT !.array = FALSE]

Branch == [Boolean |-> "boolean", Int |-> "int", Long |-> "long", Double |-> "double",
           Bytes |-> "bytes", String |-> "string", Map |-> "map"]

\* Faulty variant: no branch for the placeholder of an unavailable value.
BranchesOfKind(kind, nullable, allowUnavailable) ==
    {IF kind.array THEN "array" ELSE Branch[kind.kind]} \cup (IF nullable THEN {"null"} ELSE {})

\* The union of a kind: a text wherever the value may be a placeholder.
Branches(kind, nullable, allowUnavailable) ==
    {IF kind.array THEN "array" ELSE Branch[kind.kind]}
    \cup (IF nullable THEN {"null"} ELSE {})
    \cup (IF allowUnavailable /\ (kind.array \/ kind.kind # "String") THEN {"string"} ELSE {})

\* avro_data_schema: the union of a field, and the one of its items.
DataSchema(kind, nullable, allowUnavailable) ==
    [branches |-> Branches(kind, nullable, allowUnavailable),
     items    |-> CASE kind.array          -> Branches(ElementKind(kind), TRUE, TRUE)
                    [] kind.kind = "Map"   -> {"null", "string"}
                    [] OTHER               -> {}]

\* What is not a letter, a digit or an underscore becomes an underscore.
AdjustAvroName(name) == CASE name = "a-b" -> "a_b" [] name = "a b" -> "a_b" [] OTHER -> name

\* adjusted_fields fails when two names become one.
NamesDistinct(event) == IsInjective([n \in DOMAIN event.fields |-> AdjustAvroName(event.fields[n].name)])

AvroField(field, key) ==
    [name |-> AdjustAvroName(field.name), schema |-> DataSchema(AvroKind(field.type), field.optional, ~key)]

AvroFields(fields, key) == [n \in DOMAIN fields |-> AvroField(fields[n], key)]

----------------------------------------------------------------------------

\* value_as_string: the text says what the value is.
ValueAsString(value) == [branch |-> "string", v |-> value.v, items |-> value.items]

\* data_value_to_avro, of a value that is not in an array column.
ScalarToAvro(value, kind) ==
    LET Accepts(k, variants) == kind = k /\ value.is \in variants IN
    CASE value.is = "Null"                                            -> Cell("null", 0)
      [] value.is = "Unavailable"                                     -> Cell("string", value.v)
      [] value.is = "String" /\ kind # "String"                       -> Cell("string", value.v)
      [] kind = "String"                                              -> ValueAsString(value)
      [] Accepts("Boolean", {"Boolean"})                              -> Cell("boolean", value.v)
      [] Accepts("Int", {"Int32", "Int64"}) /\ value.v < IntLimit     -> Cell("int", value.v)
      [] Accepts("Long", {"Int32", "Int64", "UInt64"}) /\ value.v < LongLimit -> Cell("long", value.v)
      [] Accepts("Double", {"Float64", "Int32", "Int64"})             -> Cell("double", value.v)
      [] Accepts("Bytes", {"Bytes"})                                  -> Cell("bytes", value.v)
      [] Accepts("Map", {"Map"})                                      ->
            [branch |-> "map", v |-> value.v,
             items  |-> [n \in DOMAIN value.items |->
                IF value.items[n] = Null THEN Cell("null", 0) ELSE ValueAsString(value.items[n])]]
      [] kind = "Map"                                                 -> ValueAsString(value)
      [] OTHER                                                        -> Error

DataValueToAvro(value, kind) ==
    CASE ~kind.array \/ value.is \in {"Null", "Unavailable", "String"} -> ScalarToAvro(value, IF kind.array THEN "Array" ELSE kind.kind)
      [] value.is = "Array" ->
            [branch |-> "array", v |-> value.v,
             items  |-> [n \in DOMAIN value.items |-> ScalarToAvro(value.items[n], kind.kind)]]
      [] OTHER -> ValueAsString(value)

\* row_value: a column that is not in the row is null, if it may be and is not of the key.
RowValue(row, fields, key) ==
    [n \in DOMAIN fields |->
        CASE fields[n].name \in DOMAIN row  -> DataValueToAvro(row[fields[n].name], AvroKind(fields[n].type))
          [] fields[n].optional /\ ~key     -> Cell("null", 0)
          [] OTHER                          -> Error]

\* The value fits its schema: the check of Value::resolve before the datum is written.
Fits(cells, fields) ==
    \A n \in DOMAIN cells :
        /\ cells[n].branch \in fields[n].schema.branches
        /\ cells[n].branch \in {"array", "map"} =>
            \A i \in DOMAIN cells[n].items : cells[n].items[i].branch \in fields[n].schema.items

----------------------------------------------------------------------------

ConnectorFields(connector) ==
    CASE connector = "postgresql" ->
            <<Field("sequence", "string", FALSE), Field("txId", "long", TRUE), Field("lsn", "long", FALSE), Field("xmin", "long", TRUE)>>
      [] connector = "mysql" ->
            <<Field("server_id", "long", FALSE), Field("gtid", "string", TRUE), Field("file", "string", FALSE),
              Field("pos", "long", FALSE), Field("row", "long", FALSE), Field("thread", "long", TRUE), Field("query", "string", TRUE)>>
      [] connector = "sqlserver" ->
            <<Field("change_lsn", "string", FALSE), Field("commit_lsn", "string", FALSE), Field("event_serial_no", "long", FALSE)>>
      [] connector = "oracle" ->
            <<Field("scn", "long", FALSE), Field("commit_scn", "long", TRUE), Field("txId", "string", TRUE),
              Field("rs_id", "string", TRUE), Field("ssn", "long", TRUE), Field("event_serial_no", "long", FALSE)>>
      [] connector = "mongodb" ->
            <<Field("resume_token", "string", TRUE), Field("cluster_time_seconds", "long", TRUE),
              Field("cluster_time_increment", "long", TRUE), Field("event_serial_no", "long", FALSE)>>
      [] connector = "debezium" ->
            <<Field("source_offset", "string", FALSE), Field("record_id", "string", FALSE), Field("event_serial_no", "long", FALSE)>>

\* source_schema: the fields of the connector after the common ones, which always fit.
SourceSchema(event) ==
    LET fields == ConnectorFields(event.connector) IN
    [n \in DOMAIN fields |->
        [name |-> fields[n].name,
         schema |-> [branches |-> {fields[n].type} \cup (IF fields[n].optional THEN {"null"} ELSE {}), items |-> {}]]]

\* u64_to_i64.
Unsigned64(value) == IF value.v < LongLimit THEN Cell("long", value.v) ELSE Error

SourceValue(event) ==
    LET fields == ConnectorFields(event.connector) IN
    [n \in DOMAIN fields |->
        IF fields[n].name \notin DOMAIN event.position THEN Cell("null", 0)
        ELSE LET value == event.position[fields[n].name] IN
             IF value.is = "String" THEN Cell("string", value.v) ELSE Unsigned64(value)]

\* transaction_value: the two orders of an event of a transaction.
TransactionValue(event) ==
    IF event.transaction = None THEN <<>>
    ELSE LET Order(value) == IF value = Null THEN Cell("null", 0) ELSE Unsigned64(value) IN
         <<Order(event.transaction[1].total), Order(event.transaction[1].collection)>>

TransactionSchema(event) ==
    LET order == [name |-> "order", schema |-> [branches |-> {"null", "long"}, items |-> {}]] IN
    IF event.transaction = None THEN <<>> ELSE <<order, order>>

----------------------------------------------------------------------------

\* The part of the schema's name that is the namespace, and the topic.
Namespace(event) == IF event.kind = "heartbeat" THEN "heartbeat" ELSE event.table

Destination(event) == IF event.kind = "row" THEN event.table ELSE event.kind

Definition(root, event, version, fields, source) ==
    [root |-> root, namespace |-> Namespace(event), version |-> version, fields |-> fields, source |-> source]

WireSchema(event, part, definition) == [subject |-> <<Destination(event), part>>, definition |-> definition]

\* The key says nothing of the version: it stays what it is while other columns change.
KeySchema(event) == Definition("Key", event, 0, AvroFields(KeyFields(event), TRUE), <<>>)

HeartbeatKeySchema(event) == Definition("HeartbeatKey", event, 0, <<>>, <<>>)

PayloadSchema(event) ==
    CASE event.kind = "heartbeat" -> Definition("Heartbeat", event, 0, <<>>, <<>>)
      [] event.kind = "message"   -> Definition("MessageValue", event, event.version, AvroFields(event.fields, FALSE), SourceSchema(event))
      [] OTHER                    -> Definition("Envelope", event, event.version, AvroFields(event.fields, FALSE), SourceSchema(event))

Datum(op, before, after, source, transaction) ==
    [op |-> op, before |-> before, after |-> after, source |-> source, transaction |-> transaction]

RowOption(row, event) == IF row = None THEN None ELSE Some(RowValue(row[1], event.fields, FALSE))

HeartbeatValue == Datum("heartbeat", None, None, <<>>, <<>>)

LogicalMessageValue(event) ==
    Datum(event.op, None, RowOption(event.after, event), SourceValue(event), TransactionValue(event))

EnvelopeValue(event) ==
    Datum(event.op, RowOption(event.before, event), RowOption(event.after, event), SourceValue(event), TransactionValue(event))

PayloadValue(event) ==
    CASE event.kind = "heartbeat" -> HeartbeatValue
      [] event.kind = "message"   -> LogicalMessageValue(event)
      [] OTHER                    -> EnvelopeValue(event)

\* encode_datum against the schema as parsed: does every part of the value fit?
PayloadFits(event, parsed) ==
    LET value == PayloadValue(event) IN
    /\ \A row \in Range(value.before) \cup Range(value.after) : Len(row) = Len(parsed.fields) /\ Fits(row, parsed.fields)
    /\ event.kind # "heartbeat" => Fits(value.source, parsed.source)
    /\ Fits(value.transaction, TransactionSchema(event))

\* encode_one: the key is of the key fields of the row that is there; an event without a
\* row has none to take it from.
Keyed(event) == event.kind = "heartbeat" \/ KeyFields(event) # <<>>

KeyDefinition(event) == IF event.kind = "heartbeat" THEN HeartbeatKeySchema(event) ELSE KeySchema(event)

KeyValue(event) == IF event.kind = "heartbeat" THEN <<>> ELSE RowValue(KeyRow(event)[1], KeyFields(event), TRUE)

KeyFits(event, parsed) ==
    \/ event.kind = "heartbeat"
    \/ KeyRow(event) # None /\ Len(KeyFields(event)) = Len(parsed.fields) /\ Fits(KeyValue(event), parsed.fields)

Encodes(event, parsedKey, parsedPayload) ==
    /\ NamesDistinct(event)
    /\ Keyed(event) => KeyFits(event, parsedKey)
    /\ event.kind = "message" => event.after # None
    /\ PayloadFits(event, parsedPayload)

EncodeOne(event) ==
    Encoded(Destination(event),
            IF Keyed(event) THEN Some(KeyValue(event)) ELSE None,
            IF Keyed(event) THEN Some(WireSchema(event, "key", KeyDefinition(event))) ELSE None,
            Some(PayloadValue(event)),
            Some(WireSchema(event, "value", PayloadSchema(event))))

EncodeBatch(event, tombstones) == WithTombstone(event, EncodeOne(event), tombstones)

----------------------------------------------------------------------------

\* What a consumer reads with the schema the registry holds under the id of the frame:
\* names by position.
Decode(row, definition) ==
    [name \in {definition.fields[n].name : n \in DOMAIN definition.fields} |->
        Content(row[CHOOSE n \in DOMAIN definition.fields : definition.fields[n].name = name])]

Decodes(value, definition) ==
    \A row \in Range(value.before) \cup Range(value.after) : Len(row) = Len(definition.fields) /\ Fits(row, definition.fields)
=============================================================================
