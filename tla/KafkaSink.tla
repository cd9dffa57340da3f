------------------------------- MODULE KafkaSink -------------------------------
(***************************************************************************)
(* From an event to a record in a topic: the encoder the configuration     *)
(* chooses (rustium-cli, build_encoder), the Kafka sink that frames each   *)
(* part of a record with the id of its schema (rustium-sink-kafka, lib.rs) *)
(* and, external, the Schema Registry and the topics.                      *)
(*                                                                         *)
(* The runtime is what Runtime.tla says of it, cut down to what the sink   *)
(* sees: events are encoded one by one into a batch, the batch is written  *)
(* record by record, a write that failed is made again from the first      *)
(* record, and a process that ends begins again at its checkpoint with     *)
(* empty caches.  setup.events is what the source has to say;              *)
(* setup.faults bounds the failures and crashes.                           *)
(***************************************************************************)
EXTENDS Encoding, LruCache

VARIABLES setup, at, taken, records, writing, sent, frame, parsed, ids, registered, topic, status, faults

A == INSTANCE AvroEncoder
P == INSTANCE ProtobufEncoder
J == INSTANCE JsonEncoder

\* at: events in the checkpoint; taken: events in the batch; records: their records.
batch == <<taken, records, writing, sent, frame>>
caches == <<parsed, ids>>
sinkVars == <<setup, at, batch, caches, registered, topic, status, faults>>

SinkInit ==
    /\ at = 0 /\ taken = 0 /\ records = <<>> /\ writing = FALSE /\ sent = 0 /\ frame = <<>>
    /\ parsed = EmptyCache /\ ids = EmptyCache /\ registered = <<>> /\ topic = <<>>
    /\ status = "up" /\ faults = 0

Binary == setup.format \in {"avro", "protobuf"}

\* build_encoder: the records of an event, and whether there are any.
EncodeBatch(event) ==
    CASE setup.format = "avro"        -> A!EncodeBatch(event, setup.tombstones)
      [] setup.format = "protobuf"    -> P!EncodeBatch(event, setup.tombstones)
      [] setup.format = "json"        -> J!EncodeBatch(event, setup.tombstones)
      [] setup.format = "json_schema" -> J!SchemaBatch(event, setup.tombstones)
      [] setup.format = "rustium"     -> J!RustiumBatch(event)

Encodes(event, parsedKey, parsedPayload) ==
    CASE setup.format = "avro"     -> A!Encodes(event, parsedKey, parsedPayload)
      [] setup.format = "protobuf" -> P!Encodes(event, parsedKey, parsedPayload)
      [] OTHER                     -> setup.format = "rustium" \/ J!Encodes(event)

\* ParsedSchemaCache::get_or_parse: keyed by the whole definition.
SchemaCacheKey(definition) == definition

GetOrParse(cache, definition) ==
    LET key == SchemaCacheKey(definition) IN
    IF key \in DOMAIN cache.held THEN Touch(cache, key) ELSE Put(cache, key, definition, setup.capacity)

ParsedOf(cache, definition) == cache.held[SchemaCacheKey(definition)]

KeyDefinition(event) == IF setup.format = "avro" THEN A!KeyDefinition(event) ELSE P!KeyDefinition(event)
PayloadDefinition(event) == IF setup.format = "avro" THEN A!PayloadSchema(event) ELSE P!PayloadSchema(event)

\* encode_one, encode_datum: the key's schema is looked up, then the payload's.
Encode ==
    /\ status = "up" /\ ~writing /\ taken < setup.batch /\ at + taken < Len(setup.events)
    /\ \E event \in {setup.events[at + taken + 1]} :
        \E withKey \in {IF Binary THEN GetOrParse(parsed, KeyDefinition(event)) ELSE parsed} :
        \E withBoth \in {IF Binary THEN GetOrParse(withKey, PayloadDefinition(event)) ELSE withKey} :
            LET key     == IF Binary THEN ParsedOf(withKey, KeyDefinition(event)) ELSE None
                payload == IF Binary THEN ParsedOf(withBoth, PayloadDefinition(event)) ELSE None
            IN  IF Encodes(event, key, payload)
                THEN /\ records' = records \o EncodeBatch(event) /\ taken' = taken + 1 /\ parsed' = withBoth
                     /\ UNCHANGED status
                ELSE status' = "refused" /\ UNCHANGED <<records, taken, parsed>>
    /\ UNCHANGED <<setup, at, writing, sent, frame, ids, registered, topic, faults>>

\* The batch is full, or its time is up.
Deliver ==
    /\ status = "up" /\ ~writing /\ taken > 0
    /\ writing' = TRUE
    /\ UNCHANGED <<setup, at, taken, records, sent, frame, caches, registered, topic, status, faults>>

----------------------------------------------------------------------------

\* The Schema Registry, external: one id for one definition, whatever the subject.
IdOf(definition) == CHOOSE n \in DOMAIN registered : registered[n] = definition
Known(definition) == definition \in Range(registered)
PostSchema(definition) == IF Known(definition) THEN registered ELSE Append(registered, definition)

Record == records[sent + 1]
Part == IF frame = <<>> THEN [value |-> Record.key, schema |-> Record.keySchema]
                        ELSE [value |-> Record.payload, schema |-> Record.payloadSchema]
CanFrame == status = "up" /\ writing /\ sent < Len(records) /\ Len(frame) < 2

\* Faulty variant: the subject alone.
SubjectOnly(schema) == <<schema.subject>>

\* The key the id of a schema is cached under: subject and definition (WireSchema).
IdCacheKey(schema) == schema

\* frame_component: no value, or no schema to say what it is of.
FramePlain ==
    /\ CanFrame /\ (Part.value = None \/ Part.schema = None)
    /\ frame' = Append(frame, IF Part.value = None THEN None ELSE Some([id |-> 0, datum |-> Part.value[1]]))
    /\ UNCHANGED <<setup, at, taken, records, writing, sent, caches, registered, topic, status, faults>>

\* SchemaIdCache::get.
FrameCached ==
    /\ CanFrame /\ Part.value # None /\ Part.schema # None
    /\ \E key \in {IdCacheKey(Part.schema[1])} :
        /\ key \in DOMAIN ids.held
        /\ frame' = Append(frame, Some([id |-> ids.held[key], datum |-> Part.value[1]]))
        /\ ids' = Touch(ids, key)
    /\ UNCHANGED <<setup, at, taken, records, writing, sent, parsed, registered, topic, status, faults>>

\* post_schema answered; SchemaIdCache::insert.
FrameRegistered ==
    /\ CanFrame /\ Part.value # None /\ Part.schema # None
    /\ \E key \in {IdCacheKey(Part.schema[1])}, definition \in {Part.schema[1].definition} :
        /\ key \notin DOMAIN ids.held
        /\ registered' = PostSchema(definition)
        /\ LET id == IF Known(definition) THEN IdOf(definition) ELSE Len(registered) + 1 IN
           /\ ids' = Put(ids, key, id, setup.capacity)
           /\ frame' = Append(frame, Some([id |-> id, datum |-> Part.value[1]]))
    /\ UNCHANGED <<setup, at, taken, records, writing, sent, parsed, topic, status, faults>>

Fault == faults < setup.faults /\ faults' = faults + 1

\* schema_registry_error, retriable: no answer, whether or not the schema was registered.
\* The runtime makes the write again, from the first record of the batch.
RegistryFails ==
    /\ CanFrame /\ Part.value # None /\ Part.schema # None
    /\ IdCacheKey(Part.schema[1]) \notin DOMAIN ids.held
    /\ Fault
    /\ registered' \in {registered, PostSchema(Part.schema[1].definition)}
    /\ sent' = 0 /\ frame' = <<>>
    /\ UNCHANGED <<setup, at, taken, records, writing, caches, topic, status>>

Framed == [topic |-> Record.topic, key |-> frame[1], payload |-> frame[2]]

\* write: the record is delivered.
Send ==
    /\ status = "up" /\ writing /\ Len(frame) = 2
    /\ topic' = Append(topic, Framed)
    /\ sent' = sent + 1 /\ frame' = <<>>
    /\ UNCHANGED <<setup, at, taken, records, writing, caches, registered, status, faults>>

\* A delivery that timed out, whether or not the record is in the topic: the whole batch
\* is sent again.
SendFails ==
    /\ status = "up" /\ writing /\ Len(frame) = 2 /\ Fault
    /\ topic' \in {topic, Append(topic, Framed)}
    /\ sent' = 0 /\ frame' = <<>>
    /\ UNCHANGED <<setup, at, taken, records, writing, caches, registered, status>>

NewBatch == taken' = 0 /\ records' = <<>> /\ writing' = FALSE /\ sent' = 0 /\ frame' = <<>>

\* write returns Ok and the runtime checkpoints the batch.
Checkpoint ==
    /\ status = "up" /\ writing /\ sent = Len(records)
    /\ at' = at + taken /\ NewBatch
    /\ UNCHANGED <<setup, caches, registered, topic, status, faults>>

\* The process ends: a crash, an event that the encoder refuses, a schema the registry
\* rejects (schema_registry_error, not retriable), retries used up.  The next one has the
\* checkpoint and nothing else.
Restart ==
    /\ Fault /\ status' = "up"
    /\ NewBatch /\ parsed' = EmptyCache /\ ids' = EmptyCache
    /\ UNCHANGED <<setup, at, registered, topic>>

SinkNext ==
    Encode \/ Deliver \/ FramePlain \/ FrameCached \/ FrameRegistered \/ RegistryFails
    \/ Send \/ SendFails \/ Checkpoint \/ Restart

----------------------------------------------------------------------------

\* A consumer.  It reads a part with the schema that its id names; what it cannot read
\* that way is no row.
Readable(value, id) ==
    CASE setup.format = "avro"        -> A!Decodes(value, registered[id])
      [] setup.format = "protobuf"    -> P!Decodes(value, registered[id])
      [] setup.format = "json_schema" -> J!Decodes(value, registered[id])
      [] OTHER                        -> TRUE

ReadRow(row, id) ==
    CASE setup.format = "avro"     -> A!Decode(row, registered[id])
      [] setup.format = "protobuf" -> P!Decode(row, registered[id])
      [] OTHER                     -> J!Decode(row)

\* The rows of a table as the topic has them: the last record of each key, but for those
\* before a truncation.  A key is what is on the wire: the id of its schema and the datum.
Mirrored(table) ==
    LET Later(n) == {m \in DOMAIN topic : m > n /\ topic[m].topic = table}
        Truncates(n) == topic[n].payload # None /\ topic[n].payload[1].datum.op = "truncate"
        Live == {n \in DOMAIN topic :
                    /\ topic[n].topic = table /\ topic[n].payload # None
                    /\ topic[n].payload[1].datum.after # None
                    /\ \A m \in Later(n) : topic[m].key # topic[n].key /\ ~Truncates(m)}
    IN  {IF Readable(topic[n].payload[1].datum, topic[n].payload[1].id)
         THEN ReadRow(topic[n].payload[1].datum.after[1], topic[n].payload[1].id)
         ELSE <<>> : n \in Live}

\* The rows of a table as the source told of them.
NameOf(name) == IF Binary THEN A!AdjustAvroName(name) ELSE name
RowOf(event) == [name \in {NameOf(n) : n \in DOMAIN event.after[1]} |->
                    Content(event.after[1][CHOOSE n \in DOMAIN event.after[1] : NameOf(n) = name])]
KeyOf(event) == [f \in {g.name : g \in Range(KeyFields(event))} |-> KeyRow(event)[1][f]]
Told(table) ==
    LET Events == {n \in 1..Len(setup.events) : setup.events[n].kind = "row" /\ setup.events[n].table = table}
        Ends(e, f) == f.op = "truncate" \/ KeyOf(f) = KeyOf(e)
    IN  {RowOf(setup.events[n]) : n \in {k \in Events :
            setup.events[k].after # None /\ \A m \in Events : m > k => ~Ends(setup.events[k], setup.events[m])}}

\* Once every event is written, the topic of a table, compacted by its keys and read
\* with the schemas its records name, has the rows of the table: through changes of the
\* schema, caches that forget, retries, restarts and tombstones.  (frame, encode_batch)
TopicMirrorsTable ==
    at = Len(setup.events) =>
        \A table \in {setup.events[n].table : n \in DOMAIN setup.events} : Mirrored(table) = Told(table)

\* The events the binary encoders have no place for: two columns whose names, or whose
\* field numbers, become one.
Clashes(event) ==
    \E m, n \in DOMAIN event.fields :
        /\ m < n
        /\ \/ NameOf(event.fields[m].name) = NameOf(event.fields[n].name)
           \/ /\ setup.format = "protobuf"
              /\ P!StableFieldNumber(event.fields[m].name) = P!StableFieldNumber(event.fields[n].name)

\* ... a truncation of a table with a key, since there is no row to take a key from.
HasNoKey(event) == event.op = "truncate" /\ KeyFields(event) # <<>>

\* ... a row that lacks a column declared NOT NULL, like the old row of a deletion when the
\* replica identity is the primary key.
Lacks(row, field) == ~field.optional /\ (field.name \notin DOMAIN row \/ row[field.name] = Null)

\* ... a value of another variant than its column's type has a place for: a bit of SQL Server,
\* a second dimension of an array whose items are no texts, and under Protobuf also
\* hstore.handling.mode=json and unsigned columns of MySQL that hold no integers.
Misplaced(value, type) ==
    \/ value.is = "Boolean" /\ type.token = "bit"
    \/ /\ type.array /\ \E i \in DOMAIN value.items : value.items[i].is = "Array"
       /\ (IF setup.format = "avro" THEN A!AvroKind(type) ELSE P!ProtobufKind(type)).kind # "String"
    \/ setup.format = "protobuf" /\ value.is = "Json" /\ type.token = "hstore"
    \/ setup.format = "protobuf" /\ value.is \in {"Decimal", "Float64"} /\ type.unsigned

Unsupported(event) ==
    /\ Binary
    /\ \/ Clashes(event) \/ HasNoKey(event)
       \/ \E row \in Range(event.before) \cup Range(event.after), field \in Range(event.fields) :
            \/ Lacks(row, field)
            \/ field.name \in DOMAIN row /\ Misplaced(row[field.name], field.type)

\* The encoder refuses exactly the events above, whatever the caches hold, through changes
\* of the schema, retries and restarts: a source's event of any other kind never ends the
\* connector; one of these is never written in part nor passed over, and each start that
\* meets it ends with it.  README.md:373 and README.md:740 promise truncations and
\* arrays of arrays without exception: there the list above says what the code does.
\* (encode_one, consume_record)
OnlyUnsupportedRefused ==
    /\ status = "refused" => Unsupported(setup.events[at + taken + 1])
    /\ \A n \in 1..(at + taken) : ~Unsupported(setup.events[n])
=============================================================================
