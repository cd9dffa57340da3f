------------------------------ MODULE JsonEncoder ------------------------------
(***************************************************************************)
(* The JSON encoders (rustium-format-json, lib.rs): RustiumJsonEncoder,    *)
(* DebeziumJsonEncoder and DebeziumJsonSchemaEncoder.  A row is an object  *)
(* that names its columns.  Nothing checks a value before it is sent: the  *)
(* schema is attached beside it, and it is the consumer's business whether *)
(* the value conforms.                                                     *)
(***************************************************************************)
EXTENDS Encoding

Json(type, v) == [type |-> type, v |-> v, items |-> <<>>]

\* DataValue::to_json, of a value whose items nobody looks at; a JSON document is an
\* hstore's object.
ScalarToJson(value) ==
    CASE value.is = "Null"                            -> Json("null", 0)
      [] value.is = "Boolean"                         -> Json("boolean", value.v)
      [] value.is \in {"Int32", "Int64", "UInt64"}    -> Json("integer", value.v)
      [] value.is = "Float64"                         -> Json("number", value.v)
      [] value.is = "Unavailable"                     -> Json("unavailable", value.v)
      [] value.is = "Json"                            -> Json("object", value.v)
      [] value.is = "Array"                           -> Json("array", value.v)
      [] OTHER                                        -> Json("string", value.v)

ToJson(value) ==
    IF value.is \in {"Array", "Map"}
    THEN [type |-> IF value.is = "Array" THEN "array" ELSE "object", v |-> value.v,
          items |-> [n \in DOMAIN value.items |-> ScalarToJson(value.items[n])]]
    ELSE ScalarToJson(value)

RowToJson(row) == [name \in DOMAIN row |-> ToJson(row[name])]

\* event_key: the key fields that are in the row; no key when there is none.
EventKey(row, event) ==
    LET present == {f.name : f \in Range(KeyFields(event))} \cap DOMAIN row IN
    IF present = {} THEN None ELSE Some([name \in present |-> ToJson(row[name])])

Key(event) ==
    CASE event.kind = "heartbeat"  -> Some([name \in {"serverName"} |-> Json("string", 1)])
      [] KeyRow(event) = None      -> None
      [] OTHER                     -> EventKey(KeyRow(event)[1], event)

\* The topic: of the heartbeats, of the logical messages, of the table.
Destination(event) == IF event.kind = "row" THEN event.table ELSE event.kind

RowOption(row) == IF row = None THEN None ELSE Some(RowToJson(row[1]))

\* debezium_source: what there is of the position, and null for the rest; thread and
\* query of MySQL are always null.
ConnectorFields(connector) ==
    CASE connector = "postgresql" ->
            <<Field("sequence", "string", FALSE), Field("txId", "integer", TRUE), Field("lsn", "integer", FALSE), Field("xmin", "integer", TRUE)>>
      [] connector = "mysql" ->
            <<Field("server_id", "integer", FALSE), Field("gtid", "string", TRUE), Field("file", "string", FALSE),
              Field("pos", "integer", FALSE), Field("row", "integer", FALSE), Field("thread", "integer", TRUE), Field("query", "string", TRUE)>>
      [] connector = "sqlserver" ->
            <<Field("change_lsn", "string", FALSE), Field("commit_lsn", "string", FALSE), Field("event_serial_no", "integer", FALSE)>>
      [] connector = "oracle" ->
            <<Field("scn", "integer", FALSE), Field("commit_scn", "integer", TRUE), Field("txId", "string", TRUE),
              Field("rs_id", "string", TRUE), Field("ssn", "integer", TRUE), Field("event_serial_no", "integer", FALSE)>>
      [] connector = "mongodb" ->
            <<Field("resume_token", "string", TRUE), Field("cluster_time_seconds", "integer", TRUE),
              Field("cluster_time_increment", "integer", TRUE), Field("event_serial_no", "integer", FALSE)>>
      [] connector = "debezium" ->
            <<Field("source_offset", "string", FALSE), Field("record_id", "string", FALSE), Field("event_serial_no", "integer", FALSE)>>

DebeziumSource(event) ==
    LET fields == ConnectorFields(event.connector) IN
    [name \in {fields[n].name : n \in DOMAIN fields} |->
        IF name \in DOMAIN event.position THEN ToJson(event.position[name]) ELSE Json("null", 0)]

Payload(op, before, after, source, transaction) ==
    [op |-> op, before |-> before, after |-> after, source |-> source, transaction |-> transaction]

TransactionToJson(event) ==
    IF event.transaction = None THEN <<>>
    ELSE <<ToJson(event.transaction[1].total), ToJson(event.transaction[1].collection)>>

\* DebeziumJsonEncoder::encode.
PayloadValue(event) ==
    IF event.kind = "heartbeat" THEN Payload("heartbeat", None, None, <<>>, <<>>)
    ELSE Payload(event.op, RowOption(event.before), RowOption(event.after), DebeziumSource(event), TransactionToJson(event))

\* It fails of a logical message without content, and of nothing else.
Encodes(event) == event.kind = "message" => event.after # None

\* build_encoded.
EncodeOne(event) == Encoded(Destination(event), Key(event), None, Some(PayloadValue(event)), None)

EncodeBatch(event, tombstones) == WithTombstone(event, EncodeOne(event), tombstones)

\* RustiumJsonEncoder::encode: the event as it is, in a record of its own and never a
\* tombstone.
RustiumPayload(event) == Payload(event.op, RowOption(event.before), RowOption(event.after), event.position, event.transaction)

RustiumBatch(event) == <<Encoded(Destination(event), Key(event), None, Some(RustiumPayload(event)), None)>>

----------------------------------------------------------------------------

\* json_base_type: the types a value may have, by prefix of the type's name, so that
\* "int unsigned" is no integer and "tinyint(1)" is one.
JsonScalarType(type) ==
    CASE type.token \in {"hstore", "map"}                                   -> {"object"}
      [] type.token \in {"json", "jsonb"}                                   -> {"any"}
      [] type.token \in {"bool", "boolean", "bit"}                          -> {"boolean"}
      [] type.token \in {"decimal", "numeric", "money"}                     -> {"string"}
      [] type.token \in {"tinyint(1)", "tinyint", "smallint", "mediumint", "integer", "bigint", "serial",
                         "year", "int2", "int4", "int8"}                     -> {"integer"}
      [] type.token = "int" /\ ~type.unsigned                               -> {"integer"}
      [] type.token \in {"real", "float", "double"}                         -> {"number", "null"}
      [] OTHER                                                              -> {"string"}

JsonBaseType(type) == IF type.array THEN {"array"} ELSE JsonScalarType(type)

\* The types of the items of an array; a value of a map is a text or null.
JsonItemType(type) ==
    CASE type.array                       -> JsonScalarType([type EXCEPT !.array = FALSE])
      [] type.token \in {"hstore", "map"} -> {"string", "null"}
      [] OTHER                            -> {}

JsonFieldSchema(field, key) ==
    [types |-> JsonBaseType(field.type) \cup (IF key THEN {} ELSE {"unavailable"}) \cup (IF field.optional THEN {"null"} ELSE {}),
     items |-> JsonItemType(field.type)]

Properties(fields, key) ==
    [name \in {f.name : f \in Range(fields)} |->
        JsonFieldSchema(CHOOSE f \in Range(fields) : f.name = name, key)]

JsonSourceSchema(event) ==
    LET fields == ConnectorFields(event.connector) IN
    [name \in {fields[n].name : n \in DOMAIN fields} |->
        LET field == CHOOSE f \in Range(fields) : f.name = name IN
        [types |-> {field.type} \cup (IF field.optional THEN {"null"} ELSE {}), items |-> {}]]

\* title stands for schema_title, required for the properties that must be there.
Definition(title, event, version, properties, required, source) ==
    [title |-> title, of |-> Destination(event), version |-> version, fields |-> properties, required |-> required, source |-> source]

NoProperties == [name \in {} |-> {}]

\* json_key_schema: every key field is required.
KeySchema(event) ==
    IF event.kind = "heartbeat" THEN Definition("HeartbeatKey", event, 0, [name \in {"serverName"} |-> [types |-> {"string"}, items |-> {}]], {"serverName"}, NoProperties)
    ELSE Definition("Key", event, 0, Properties(KeyFields(event), TRUE), {f.name : f \in Range(KeyFields(event))}, NoProperties)

\* json_payload_schema, json_row_schema: no column of a row is required.
PayloadSchema(event) ==
    CASE event.kind = "heartbeat" -> Definition("Heartbeat", event, 0, NoProperties, {}, NoProperties)
      [] event.kind = "message"   -> Definition("MessageEnvelope", event, event.version, Properties(event.fields, FALSE), {}, JsonSourceSchema(event))
      [] OTHER                    -> Definition("Envelope", event, event.version, Properties(event.fields, FALSE), {}, JsonSourceSchema(event))

WireSchema(event, part, definition) == [subject |-> <<Destination(event), part>>, definition |-> definition]

\* attach_schemas: the schemas of the first record go with each of them.
AttachSchemas(event, records) ==
    [n \in DOMAIN records |->
        [records[n] EXCEPT
            !.keySchema = IF records[n].key = None THEN None ELSE Some(WireSchema(event, "key", KeySchema(event))),
            !.payloadSchema = IF records[n].payload = None THEN None ELSE Some(WireSchema(event, "value", PayloadSchema(event)))]]

SchemaBatch(event, tombstones) == AttachSchemas(event, EncodeBatch(event, tombstones))

----------------------------------------------------------------------------

\* What a consumer reads: the names are in the value.
Decode(object) == [name \in DOMAIN object |-> Content(object[name])]

\* The value conforms to the schema the registry holds under the id of the frame.
Conforms(object, properties, required) ==
    /\ required \subseteq DOMAIN object
    /\ DOMAIN object \subseteq DOMAIN properties
    /\ \A name \in DOMAIN object :
        /\ object[name].type \in properties[name].types \/ "any" \in properties[name].types
        /\ \A i \in DOMAIN object[name].items : object[name].items[i].type \in properties[name].items

Decodes(value, definition) ==
    /\ \A row \in Range(value.before) \cup Range(value.after) : Conforms(row, definition.fields, {})
    /\ value.op # "heartbeat" => Conforms(value.source, definition.source, DOMAIN definition.source)
=============================================================================
