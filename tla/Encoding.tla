-------------------------------- MODULE Encoding --------------------------------
(***************************************************************************)
(* What the encoders are given and what they return: the values and events *)
(* of rustium-core (event.rs) and encoded records (traits.rs).             *)
(*                                                                         *)
(* A value is the variant of DataValue it is, a number that stands for its *)
(* content, and the items of a container.  A number from IntLimit on does  *)
(* not fit into 32 bits, one from LongLimit on not into 63.  An Option is  *)
(* a sequence of at most one element.                                      *)
(***************************************************************************)
EXTENDS Integers, FiniteSets, SequencesExt

Value(is, v) == [is |-> is, v |-> v, items |-> <<>>]
Container(is, items) == [is |-> is, v |-> 1, items |-> items]
Null == Value("Null", 0)
Unavailable == Value("Unavailable", -1)

IntLimit == 100
LongLimit == 1000

None == <<>>
Some(x) == <<x>>

\* What a value says, or a cell of an encoded record.
Content(x) == <<x.v, [n \in DOMAIN x.items |-> x.items[n].v]>>

\* A type name as the encoders take it apart: its first word, whether it says unsigned,
\* whether it is an array.
Type(token) == [token |-> token, unsigned |-> FALSE, array |-> FALSE]
Unsigned(type) == [type EXCEPT !.unsigned = TRUE]
ArrayOf(type) == [type EXCEPT !.array = TRUE]

FieldSchema(name, type, optional, key) == [name |-> name, type |-> type, optional |-> optional, key |-> key]

\* kind: row, heartbeat or message (the markers in source.attributes).  position: the
\* connector and the fields of its SourcePosition that are there.  transaction: an Option
\* of the two orders.
Event(table, op, before, after, version, fields) ==
    [kind |-> "row", table |-> table, op |-> op, before |-> before, after |-> after,
     version |-> version, fields |-> fields, transaction |-> None,
     connector |-> "postgresql",
     position |-> [sequence |-> Value("String", 1), lsn |-> Value("UInt64", 1)]]

KeyFields(event) == SelectSeq(event.fields, LAMBDA f : f.key)

\* The row the key is taken from: after.or(before).
KeyRow(event) == IF event.after # None THEN event.after ELSE event.before

\* The fields of the source block that belong to one connector, in their order.
Field(name, type, optional) == [name |-> name, type |-> type, optional |-> optional]

\* A record.  key and payload are Options of data, the schemas Options of wire schemas.
Encoded(topic, key, keySchema, payload, payloadSchema) ==
    [topic |-> topic, key |-> key, keySchema |-> keySchema, payload |-> payload, payloadSchema |-> payloadSchema]

\* encode_batch: the record of a deletion is followed by its key with a null payload,
\* unless the configuration says otherwise.
WithTombstone(event, record, tombstones) ==
    IF event.op = "delete" /\ tombstones
    THEN <<record, [record EXCEPT !.payload = None, !.payloadSchema = None]>>
    ELSE <<record>>

\* The kind of a scalar type, by its first word; the encoders differ in what is unsigned.
KindOf(type, unsigned) ==
    CASE type.token \in {"hstore", "map", "sparsevec"}                        -> "Map"
      [] type.token \in {"tinyint(1)", "bool", "boolean"}                     -> "Boolean"
      [] type.unsigned \/ type.token = "oid"                                  -> unsigned
      [] type.token \in {"tinyint", "smallint", "mediumint", "int", "integer",
                         "serial", "year", "int2", "int4"}                    -> "Int"
      [] type.token \in {"bigint", "bigserial", "int8"}                       -> "Long"
      [] type.token \in {"real", "float", "double"}                           -> "Double"
      [] type.token \in {"binary", "varbinary", "tinyblob", "blob", "mediumblob", "longblob", "bytea",
                         "image", "rowversion", "bit", "geometry", "geography"} -> "Bytes"
      [] OTHER                                                                -> "String"
=============================================================================
