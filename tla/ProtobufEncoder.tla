---------------------------- MODULE ProtobufEncoder ----------------------------
(***************************************************************************)
(* DebeziumProtobufEncoder (rustium-format-protobuf, lib.rs).  A message   *)
(* is a function of field numbers; a column's number is derived from its   *)
(* name, so it stays the same when other columns come and go.  A field of  *)
(* a row is a message of its own with one of three states: the value, the  *)
(* placeholder of an unavailable value, or a text.                         *)
(***************************************************************************)
EXTENDS Encoding

Cell(state, native, v) == [state |-> state, native |-> native, v |-> v, items |-> <<>>]
Error == Cell("error", "none", 0)

ProtobufKind(type) == [array |-> type.array, kind |-> KindOf(type, "UnsignedLong")]

NativeTypeName(kind) ==
    IF kind.array THEN "NativeValue"
    ELSE [Boolean |-> "bool", Int |-> "int32", Long |-> "int64", UnsignedLong |-> "uint64", Double |-> "double",
          Bytes |-> "bytes", String |-> "string", Map |-> "NativeValue"][kind.kind]

IsContainer(kind) == kind.array \/ kind.kind = "Map"

\* key_protobuf_type: a container is a text in a key.
KeyProtobufType(kind) == IF IsContainer(kind) THEN "string" ELSE NativeTypeName(kind)

AdjustProtobufName(name) == CASE name = "a-b" -> "a_b" [] name = "a b" -> "a_b" [] OTHER -> name

\* stable_field_number: a hash of the name, here a table in which two names meet.
StableFieldNumber(name) ==
    CHOOSE n \in 1..9 :
        name \in <<{"id"}, {"name", "alias"}, {"qty"}, {"extra"}, {"tags"}, {"prefix"}, {"content"}, {"a-b"}, {"a b"}>>[n]

\* adjusted_fields: neither two names nor two numbers may become one.
FieldsDistinct(event) ==
    /\ IsInjective([n \in DOMAIN event.fields |-> AdjustProtobufName(event.fields[n].name)])
    /\ IsInjective([n \in DOMAIN event.fields |-> StableFieldNumber(event.fields[n].name)])

\* push_field_wrapper: the states of a field of a row.
FieldWrapper(kind) ==
    [value |-> NativeTypeName(kind),
     states |-> {"value", "unavailable"} \cup (IF NativeTypeName(kind) = "string" THEN {} ELSE {"text"})]

\* push_container_message: the states of an item of an array or a map.
ContainerMessage(kind) ==
    CASE kind.array        -> {"value", "null_value", "unavailable"} \cup (IF kind.kind = "String" THEN {} ELSE {"text"})
      [] kind.kind = "Map" -> {"value", "null_value", "unavailable"}
      [] OTHER             -> {}

RowField(field) ==
    LET kind == ProtobufKind(field.type) IN
    [name |-> AdjustProtobufName(field.name), number |-> StableFieldNumber(field.name),
     wrapper |-> FieldWrapper(kind), items |-> ContainerMessage(kind)]

KeyField(field) ==
    [name |-> AdjustProtobufName(field.name), number |-> StableFieldNumber(field.name),
     wrapper |-> [value |-> KeyProtobufType(ProtobufKind(field.type)), states |-> {"value"}], items |-> {}]

----------------------------------------------------------------------------

\* value_as_string: the text says what the value is.
ValueAsString(value) == [state |-> "value", native |-> "string", v |-> value.v, items |-> value.items]

\* scalar_value_to_proto.
ScalarValueToProto(value, kind) ==
    LET Accepts(k, variants) == kind = k /\ value.is \in variants IN
    CASE Accepts("Boolean", {"Boolean"})                              -> Cell("value", "bool", value.v)
      [] Accepts("Int", {"Int32", "Int64"}) /\ value.v < IntLimit     -> Cell("value", "int32", value.v)
      [] Accepts("Long", {"Int32", "Int64"})                          -> Cell("value", "int64", value.v)
      [] Accepts("UnsignedLong", {"UInt64"})                          -> Cell("value", "uint64", value.v)
      [] Accepts("UnsignedLong", {"Int32", "Int64"}) /\ value.v >= 0  -> Cell("value", "uint64", value.v)
      [] Accepts("Double", {"Float64", "Int32", "Int64"})             -> Cell("value", "double", value.v)
      [] Accepts("Bytes", {"Bytes"})                                  -> Cell("value", "bytes", value.v)
      [] kind = "String"                                              -> ValueAsString(value)
      [] OTHER                                                        -> Error

\* build_array_item; an array of maps is not among the types.
ArrayItem(value, kind) ==
    CASE value.is = "Null"                        -> Cell("null_value", "bool", 0)
      [] value.is = "Unavailable"                 -> Cell("unavailable", "string", value.v)
      [] value.is = "String" /\ kind # "String"   -> Cell("text", "string", value.v)
      [] OTHER                                    -> ScalarValueToProto(value, kind)

\* build_map_entry.
MapEntry(value) ==
    CASE value.is = "Null"        -> Cell("null_value", "bool", 0)
      [] value.is = "Unavailable" -> Cell("unavailable", "string", value.v)
      [] OTHER                    -> ValueAsString(value)

\* build_container_message: the kind and the value must be of the same container.
ContainerToProto(value, kind) ==
    LET Native(items) == [state |-> "value", native |-> "NativeValue", v |-> value.v, items |-> items] IN
    CASE kind.array /\ value.is = "Array" -> Native([n \in DOMAIN value.items |-> ArrayItem(value.items[n], kind.kind)])
      [] ~kind.array /\ value.is = "Map"  -> Native([n \in DOMAIN value.items |-> MapEntry(value.items[n])])
      [] OTHER                            -> Error

\* build_field_wrapper.
FieldToProto(value, kind) ==
    CASE value.is = "Unavailable"                                      -> Cell("unavailable", "string", value.v)
      [] value.is = "String" /\ (kind.array \/ kind.kind # "String")   -> Cell("text", "string", value.v)
      [] IsContainer(kind)                                             -> ContainerToProto(value, kind)
      [] OTHER                                                         -> ScalarValueToProto(value, kind.kind)

Missing(row, field) == field.name \notin DOMAIN row \/ row[field.name] = Null

\* build_row_message: a column that is null or missing is left out, when it may be.
RowMessage(row, fields) ==
    LET Written == {n \in DOMAIN fields : ~Missing(row, fields[n]) \/ ~fields[n].optional} IN
    [number \in {StableFieldNumber(fields[n].name) : n \in Written} |->
        LET field == CHOOSE f \in Range(fields) : StableFieldNumber(f.name) = number IN
        IF Missing(row, field) THEN Error ELSE FieldToProto(row[field.name], ProtobufKind(field.type))]

\* key_value_to_proto.
KeyValueToProto(value, kind) ==
    IF IsContainer(kind) THEN ValueAsString(value) ELSE ScalarValueToProto(value, kind.kind)

\* build_key_message.
KeyMessage(row, fields) ==
    [number \in {StableFieldNumber(f.name) : f \in Range(fields)} |->
        LET field == CHOOSE f \in Range(fields) : StableFieldNumber(f.name) = number IN
        IF Missing(row, field) \/ row[field.name] = Unavailable THEN Error
        ELSE KeyValueToProto(row[field.name], ProtobufKind(field.type))]

\* set_field, encode_message: a state of the message, its value of the native type, and
\* for a container the states of its items.
Fits(message, fields) ==
    \A number \in DOMAIN message : \E f \in fields :
        /\ f.number = number
        /\ message[number].state \in f.wrapper.states
        /\ message[number].state = "value" => message[number].native = f.wrapper.value
        /\ message[number].native = "NativeValue" =>
            \A i \in DOMAIN message[number].items : message[number].items[i].state \in f.items

----------------------------------------------------------------------------

\* push_source_schema: the fields of the connector, from number 20.
ConnectorFields(connector) ==
    CASE connector = "postgresql" ->
            <<Field("sequence", "string", FALSE), Field("txId", "uint32", TRUE), Field("lsn", "uint64", FALSE), Field("xmin", "int64", TRUE)>>
      [] connector = "mysql" ->
            <<Field("server_id", "uint32", FALSE), Field("gtid", "string", TRUE), Field("file", "string", FALSE),
              Field("pos", "uint64", FALSE), Field("row", "uint64", FALSE), Field("thread", "uint64", TRUE), Field("query", "string", TRUE)>>
      [] connector = "sqlserver" ->
            <<Field("change_lsn", "string", FALSE), Field("commit_lsn", "string", FALSE), Field("event_serial_no", "uint64", FALSE)>>
      [] connector = "oracle" ->
            <<Field("scn", "uint64", FALSE), Field("commit_scn", "uint64", TRUE), Field("txId", "string", TRUE),
              Field("rs_id", "string", TRUE), Field("ssn", "uint64", TRUE), Field("event_serial_no", "uint64", FALSE)>>
      [] connector = "mongodb" ->
            <<Field("resume_token", "string", TRUE), Field("cluster_time_seconds", "uint64", TRUE),
              Field("cluster_time_increment", "uint32", TRUE), Field("event_serial_no", "uint64", FALSE)>>
      [] connector = "debezium" ->
            <<Field("source_offset", "string", FALSE), Field("record_id", "string", FALSE), Field("event_serial_no", "uint64", FALSE)>>

SourceSchema(event) ==
    LET fields == ConnectorFields(event.connector) IN
    {[name |-> fields[n].name, number |-> 19 + n, wrapper |-> [value |-> fields[n].type, states |-> {"value"}], items |-> {}] :
        n \in DOMAIN fields}

\* The native type build_source_message gives a field of the position.
SourceType(name, value) ==
    CASE value.is = "String"                                               -> "string"
      [] name \in {"server_id", "cluster_time_increment"}                  -> "uint32"
      [] name = "txId"                                                     -> "uint32"
      [] name = "xmin"                                                     -> "int64"
      [] OTHER                                                             -> "uint64"

\* build_source_message: what the position has; the rest is left out.
SourceMessage(event) ==
    LET fields == ConnectorFields(event.connector)
        Number(name) == CHOOSE n \in 20..26 : fields[n - 19].name = name
    IN  [number \in {Number(name) : name \in DOMAIN event.position} |->
            LET name == fields[number - 19].name IN
            Cell("value", SourceType(name, event.position[name]), event.position[name].v)]

\* set_transaction: the orders of an event of a transaction, of 64 bits as they are.
TransactionMessage(event) ==
    IF event.transaction = None THEN <<>>
    ELSE LET Orders == <<event.transaction[1].total, event.transaction[1].collection>> IN
         [number \in {n \in 1..2 : Orders[n] # Null} |-> Cell("value", "uint64", Orders[number].v)]

----------------------------------------------------------------------------

\* protobuf_package, heartbeat_package; the topic.
Package(event) == IF event.kind = "heartbeat" THEN "heartbeat" ELSE event.table

Destination(event) == IF event.kind = "row" THEN event.table ELSE event.kind

Definition(root, event, fields, source) ==
    [root |-> root, package |-> Package(event), fields |-> fields, source |-> source]

WireSchema(event, part, definition) == [subject |-> <<Destination(event), part>>, definition |-> definition]

KeySchema(event) == Definition("Key", event, {KeyField(f) : f \in Range(KeyFields(event))}, {})

HeartbeatKeySchema(event) == Definition("HeartbeatKey", event, {}, {})

\* Nothing of a schema says which version of the table it is of.
PayloadSchema(event) ==
    CASE event.kind = "heartbeat" -> Definition("Heartbeat", event, {}, {})
      [] event.kind = "message"   -> Definition("MessageEnvelope", event, {RowField(f) : f \in Range(event.fields)}, SourceSchema(event))
      [] OTHER                    -> Definition("Envelope", event, {RowField(f) : f \in Range(event.fields)}, SourceSchema(event))

Message(op, before, after, source, transaction) ==
    [op |-> op, before |-> before, after |-> after, source |-> source, transaction |-> transaction]

RowOption(row, event) == IF row = None THEN None ELSE Some(RowMessage(row[1], event.fields))

HeartbeatMessage == Message("heartbeat", None, None, <<>>, <<>>)

LogicalMessage(event) ==
    Message(event.op, None, RowOption(event.after, event), SourceMessage(event), TransactionMessage(event))

EnvelopeMessage(event) ==
    Message(event.op, RowOption(event.before, event), RowOption(event.after, event), SourceMessage(event), TransactionMessage(event))

PayloadValue(event) ==
    CASE event.kind = "heartbeat" -> HeartbeatMessage
      [] event.kind = "message"   -> LogicalMessage(event)
      [] OTHER                    -> EnvelopeMessage(event)

PayloadFits(event, parsed) ==
    LET value == PayloadValue(event) IN
    /\ \A row \in Range(value.before) \cup Range(value.after) : Fits(row, parsed.fields)
    /\ Fits(value.source, parsed.source)

Keyed(event) == event.kind = "heartbeat" \/ KeyFields(event) # <<>>

KeyDefinition(event) == IF event.kind = "heartbeat" THEN HeartbeatKeySchema(event) ELSE KeySchema(event)

KeyValue(event) == IF event.kind = "heartbeat" THEN <<>> ELSE KeyMessage(KeyRow(event)[1], KeyFields(event))

KeyFits(event, parsed) == event.kind = "heartbeat" \/ (KeyRow(event) # None /\ Fits(KeyValue(event), parsed.fields))

\* encode_one fails when one of these does not hold.
Encodes(event, parsedKey, parsedPayload) ==
    /\ FieldsDistinct(event)
    /\ Keyed(event) => KeyFits(event, parsedKey)
    /\ event.kind = "message" => event.after # None
    /\ PayloadFits(event, parsedPayload)

EncodeOne(event) ==
    Encoded(Destination(event),
            IF Keyed(event) THEN Some(KeyValue(event)) ELSE None,
            IF Keyed(event) THEN Some(WireSchema(event, "key", KeyDefinition(event))) ELSE None,
            Some(PayloadValue(event)),
            Some(WireSchema(event, "value", PayloadSchema(event))))

EncodeBatch(event, tombstones) == WithTombstone(event, EncodeOne(event), tombstones)

----------------------------------------------------------------------------

\* What a consumer reads with the schema the registry holds under the id of the frame:
\* names by number, and null where there is none.
Decode(message, definition) ==
    [name \in {f.name : f \in definition.fields} |->
        LET number == (CHOOSE f \in definition.fields : f.name = name).number IN
        IF number \in DOMAIN message THEN Content(message[number]) ELSE Content(Null)]

Decodes(value, definition) ==
    \A row \in Range(value.before) \cup Range(value.after) : Fits(row, definition.fields)
=============================================================================
