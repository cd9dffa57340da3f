-------------------------------- MODULE MongoDb --------------------------------
(***************************************************************************)
(* The MongoDB connector (rustium-mongodb, source.rs): a change stream is  *)
(* opened, the collections are read, then the stream is.                   *)
(*                                                                         *)
(* The oplog is setup.ops, of which the first `written' have happened; the *)
(* cluster time of an operation is its rank.                               *)
(***************************************************************************)
EXTENDS Delivery

VARIABLES
    written,   \* operations so far
    cursor,    \* the operation the stream has returned last
    anchor,    \* operationTime when the last snapshot began
    todo,      \* documents its cursors have yet to return
    last       \* last_position

mongo == <<written, cursor, anchor, todo, last>>

Ops == setup.ops

\* Operation i says what the document with the key is.
Writes(i, key) == Ops[i].op = "drop" \/ (Ops[i].op \in {"set", "delete"} /\ Ops[i].key = key)

\* The document with a key once n operations have happened; 0: none.
Document(key, n) ==
    LET of == {i \in 1 .. n : Writes(i, key)}
    IN  IF of = {} THEN setup.rows[key] ELSE Ops[Max(of)].val

\* mongo_position; the third component of `at' says whether there is a resume token.
MongoPosition(time, token, n, snapshot) ==
    Position(<<time, IF snapshot THEN 0 ELSE 1, n>>, <<time, n, IF token THEN 1 ELSE 0>>)

SerialOf(pos) == pos.at[2]

Apply ==
    /\ written < Len(Ops) /\ written' = written + 1
    /\ UNCHANGED <<setup, phase, runtime, stops, cursor, anchor, todo, last>>

\* open_stream: resumeAfter a token, or startAtOperationTime, which is inclusive.
OpenAfter(time) ==
    IF ckpt.pos = None THEN Max({0, time - 1})
    ELSE IF ckpt.pos.at[3] = 1 THEN ckpt.pos.at[1] ELSE Max({0, ckpt.pos.at[1] - 1})

\* run: the stream is opened before the collections are read.
Start ==
    /\ phase = "down"
    /\ LET snapshot == setup.mode # "never" /\ ~ckpt.snap
       IN  /\ phase' = IF snapshot THEN "snapshot" ELSE "streaming"
           /\ todo' = IF snapshot THEN Keys ELSE {}
           /\ anchor' = IF snapshot \/ ckpt.pos = None THEN written ELSE anchor
           /\ last' = IF ckpt.pos = None THEN MongoPosition(written, FALSE, 0, FALSE) ELSE ckpt.pos
    /\ cursor' = OpenAfter(written)
    /\ UNCHANGED <<setup, runtime, stops, written>>

\* snapshot: the cursors see documents as they are when they come to them.  The serial
\* is the place of the key.
SnapshotRow ==
    /\ phase = "snapshot" /\ todo # {}
    /\ LET key == Min(todo)
           now == Document(key, written)
       IN  /\ IF now = 0 THEN UNCHANGED flight ELSE Send(Item(MongoPosition(anchor, FALSE, key, TRUE), key, now, 0))
           /\ todo' = todo \ {key}
    /\ UNCHANGED <<setup, phase, view, taken, ckpt, acked, stops, written, cursor, anchor, last>>

SnapshotEnd ==
    /\ phase = "snapshot" /\ todo = {}
    /\ LET end == MongoPosition(anchor, FALSE, Cardinality(Keys) + 1, TRUE)
       IN  Send(SnapshotMark(end)) /\ last' = end
    /\ phase' = "streaming"
    /\ UNCHANGED <<setup, view, taken, ckpt, acked, stops, written, cursor, anchor, todo>>

\* change_event_rows: with updateLookup the document of an update is the present one
\* (when there is one), otherwise what the update says of it.
FullDocument(i) ==
    LET now == Document(Ops[i].key, written)
    IN  IF setup.lookup /\ Ops[i].op = "set" /\ Ops[i].update /\ now # 0 THEN now ELSE Ops[i].val

\* The operation the stream returns next.
Upcoming == Ops[cursor + 1]

\* A filtered namespace does not move last_position; a drop is a message without rows.
Take ==
    /\ phase = "streaming" /\ cursor < written /\ Upcoming.op # "invalidate"
    /\ LET pos == MongoPosition(cursor + 1, TRUE, SerialOf(last) + 1, FALSE)
       IN  IF Upcoming.op = "filtered" THEN UNCHANGED <<flight, last>>
           ELSE /\ Send(IF Upcoming.op = "drop" THEN Mark(pos, FALSE) ELSE Item(pos, Upcoming.key, FullDocument(cursor + 1), cursor + 1))
                /\ last' = pos
    /\ cursor' = cursor + 1
    /\ UNCHANGED <<setup, phase, view, taken, ckpt, acked, stops, written, anchor, todo>>

\* An invalidate event has no collection and closes the stream, and a stream that has
\* ended is an error; so is any other error of the driver.
StreamFails ==
    /\ \/ phase = "streaming" /\ cursor < written /\ Upcoming.op = "invalidate" /\ UNCHANGED stops
       \/ setup.errors /\ phase \in {"snapshot", "streaming"} /\ stops < setup.stops /\ stops' = stops + 1
    /\ phase' = "failed"
    /\ UNCHANGED <<setup, runtime, mongo>>

Heartbeat ==
    /\ setup.beats /\ phase = "streaming"
    /\ Send(Mark(last, FALSE))
    /\ UNCHANGED <<setup, phase, view, taken, ckpt, acked, stops, mongo>>

MongoInit ==
    /\ written \in 0 .. setup.early /\ cursor = 0 /\ anchor = 0 /\ todo = {} /\ last = None

MongoNext == Apply \/ Start \/ SnapshotRow \/ SnapshotEnd \/ Take \/ StreamFails \/ Heartbeat

MongoIdle == phase = "streaming" /\ NoRows /\ cursor = written

\* The last change of a key.
LastWrite(key) == Max({0} \cup {i \in 1 .. written : Writes(i, key)})

\* A document deleted before the snapshot that did not see it, or dropped with its
\* collection, or changed last before a connector without snapshot started.
OutOfSight(key) ==
    /\ Document(key, written) = 0 \/ setup.mode = "never"
    /\ LastWrite(key) <= anchor \/ Ops[LastWrite(key)].op = "drop"
=============================================================================
