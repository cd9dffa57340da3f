-------------------------------- MODULE Delivery --------------------------------
(***************************************************************************)
(* The runtime (rustium-core, runtime.rs) as the smaller connectors see    *)
(* it: records go into a bounded channel, batches of them are written to   *)
(* the sink, checkpointed, and acknowledged to the connector.  Runtime has *)
(* the whole of it.                                                        *)
(*                                                                         *)
(* A position is its sort key and what the connector resumes from.         *)
(***************************************************************************)
EXTENDS Integers, FiniteSets, SequencesExt

CONSTANT Capacity      \* runtime.channel_capacity

VARIABLES
    setup,     \* chosen once
    phase,     \* of the connector: down, snapshot, streaming, failed
    flight,    \* records sent and not yet consumed
    view,      \* values of the keys at the sink (0: none)
    taken,     \* changes the sink has taken
    ckpt,      \* the checkpoint
    acked,     \* context.acknowledged
    stops      \* crashes so far

runtime == <<flight, view, taken, ckpt, acked>>

Keys == DOMAIN setup.rows

NoKey == 0

Lex(a, b) == \E n \in DOMAIN a : a[n] < b[n] /\ \A m \in 1 .. n - 1 : a[m] = b[m]

\* SourcePosition::is_after; None is before everything.
Position(sort, at) == [sort |-> sort, at |-> at]
None == Position(<<>>, <<0, 0>>)
IsAfter(p, q) == q # None /\ p # None /\ Lex(q.sort, p.sort)

\* id: the change it is; last: a boundary that flushes.
Item(pos, key, val, id) == [pos |-> pos, key |-> key, val |-> val, id |-> id, last |-> FALSE, snapshotEnd |-> FALSE]
Mark(pos, last) == [Item(pos, NoKey, 0, 0) EXCEPT !.last = last]
SnapshotMark(pos) == [Mark(pos, TRUE) EXCEPT !.snapshotEnd = TRUE]

Room == Len(flight) < Capacity

Send(record) == Room /\ flight' = Append(flight, record)

\* The batches that may be written: max.batch.size and the flush interval end one
\* anywhere, a boundary at the latest.
Batches == {n \in 1 .. Len(flight) : \A m \in 1 .. n - 1 : ~flight[m].last}

\* Faulty variant: a position may not repeat.
OrderedStrictly(n) == \A m \in 1 .. n - 1 : IsAfter(flight[m + 1].pos, flight[m].pos)

\* consume_record: each position is the one before it or after it.
Ordered(n) ==
    \A m \in 1 .. n - 1 :
        flight[m + 1].pos = flight[m].pos \/ IsAfter(flight[m + 1].pos, flight[m].pos)

\* What the sink has of a key once it has the first n records.
Shown(key, n) ==
    LET of == {m \in 1 .. n : flight[m].key = key}
    IN  IF of = {} THEN view[key] ELSE flight[Max(of)].val

Deliver(n) ==
    /\ view' = [key \in Keys |-> Shown(key, n)]
    /\ taken' = taken \cup ({flight[m].id : m \in 1 .. n} \ {0})

\* flush_batch: write, checkpoint, acknowledge.  What a failed connector has sent is
\* still written.
Flush ==
    /\ \E n \in Batches :
        /\ Ordered(n) /\ Deliver(n)
        /\ ckpt' = [pos |-> flight[n].pos, snap |-> ckpt.snap \/ \E m \in 1 .. n : flight[m].snapshotEnd]
        /\ acked' = flight[n].pos
        /\ flight' = SubSeq(flight, n + 1, Len(flight))
    /\ UNCHANGED <<setup, phase, stops>>

\* The process ends and a supervisor starts it again; the acknowledged position is
\* then the one of the checkpoint.
Ends == phase' = "down" /\ flight' = <<>> /\ acked' = ckpt.pos /\ UNCHANGED <<setup, ckpt>>

\* "source position moved backwards": the runtime fails.
Backwards ==
    /\ phase # "down" /\ \E n \in Batches : ~Ordered(n)
    /\ Ends /\ UNCHANGED <<view, taken, stops>>

\* The connector returned an error and everything it had sent is written.
Restart ==
    /\ phase = "failed" /\ flight = <<>>
    /\ Ends /\ UNCHANGED <<view, taken, stops>>

\* A crash before or after the sink has taken a batch.
Crash ==
    /\ phase # "down" /\ stops < setup.stops /\ stops' = stops + 1
    /\ \E n \in {0} \cup {m \in Batches : Ordered(m)} : Deliver(n)
    /\ Ends

\* Nothing but heartbeats and marks is under way.
NoRows == \A n \in DOMAIN flight : flight[n].key = NoKey

DeliveryInit ==
    /\ phase = "down" /\ flight = <<>> /\ view = [key \in Keys |-> 0] /\ taken = {}
    /\ ckpt = [pos |-> None, snap |-> FALSE] /\ acked = None /\ stops = 0
=============================================================================
