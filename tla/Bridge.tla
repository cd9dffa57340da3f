--------------------------------- MODULE Bridge ---------------------------------
(***************************************************************************)
(* The Debezium bridge (rustium-debezium, source.rs): an upstream engine   *)
(* sends its documents by HTTP or through a Kafka topic, and each is to be *)
(* checkpointed before the request is answered or the offset committed.    *)
(*                                                                         *)
(* setup.requests is what the engine has to say: requests of one or more   *)
(* documents.  A document has a record id, the snapshot marker of its      *)
(* source, a row, or no row at all.                                        *)
(***************************************************************************)
EXTENDS Delivery

VARIABLES
    answered,    \* requests answered 204, or the committed offset
    doc,         \* the document of the request in hand; 0: no request
    waiting,     \* the position wait_for_ack waits for; None: none
    processing,  \* next_serial, last_record_id, pending, snapshot_completed
    timeouts     \* of the engine and of request_timeout so far

bridge == <<answered, doc, waiting, processing, timeouts>>

Requests == setup.requests

Request == Requests[answered + 1]

Document == Request[doc]

NoRecord == 0

\* Document d of request r and all that the engine sends before it.
UpTo(r, d) == UNION {{<<q, e>> : e \in {m \in DOMAIN Requests[q] : q < r \/ m <= d}} : q \in 1 .. r}

\* Its place in everything the engine sends.
Ordinal(r, d) == Cardinality(UpTo(r, d))

\* BridgeCheckpoint::from_context.
Start ==
    /\ phase = "down" /\ phase' = "streaming"
    /\ processing' = [serial |-> IF ckpt.pos = None THEN 0 ELSE ckpt.pos.at[2],
                      lastId |-> IF ckpt.pos = None THEN NoRecord ELSE ckpt.pos.at[1],
                      pending |-> None, snap |-> ckpt.snap]
    /\ doc' = 0 /\ waiting' = None
    /\ UNCHANGED <<setup, runtime, stops, answered, timeouts>>

\* The engine sends its next request, or the one it has had no answer to again.
Post ==
    /\ phase = "streaming" /\ doc = 0 /\ answered < Len(Requests)
    /\ doc' = 1
    /\ UNCHANGED <<setup, phase, runtime, stops, answered, waiting, processing, timeouts>>

\* The next document of the request, or its answer; Kafka commits the offset.
NextDocument ==
    IF doc < Len(Request) THEN doc' = doc + 1 /\ UNCHANGED answered
    ELSE doc' = 0 /\ answered' = answered + 1

\* An exact replay of the last record is left out, and so is an empty payload.
Skip ==
    /\ doc # 0 /\ waiting = None
    /\ Document.id \in {processing.lastId, NoRecord}
    /\ NextDocument
    /\ UNCHANGED <<setup, phase, runtime, stops, waiting, processing, timeouts>>

\* A record sent and not acknowledged within the timeout is waited for again.
Again ==
    /\ doc # 0 /\ waiting = None /\ Document.id \notin {processing.lastId, NoRecord}
    /\ processing.pending # None /\ processing.pending.at[1] = Document.id
    /\ waiting' = processing.pending
    /\ UNCHANGED <<setup, phase, runtime, stops, answered, doc, processing, timeouts>>

\* A document that is not JSON, whose connector or operation is unknown, or that comes
\* while another record is pending: 422.  The Kafka bridge ends.
Reject ==
    /\ doc # 0 /\ waiting = None /\ Document.id \notin {processing.lastId, NoRecord}
    /\ \/ processing.pending # None /\ processing.pending.at[1] # Document.id
       \/ Document.marker = "refused"
    /\ doc' = 0
    /\ phase' = IF setup.kafka THEN "failed" ELSE phase
    /\ processing' = IF processing.pending = None THEN [processing EXCEPT !.serial = @ + 1] ELSE processing
    /\ timeouts < setup.timeouts /\ timeouts' = timeouts + 1
    /\ UNCHANGED <<setup, runtime, stops, answered, waiting>>

\* snapshot_marker.
InSnapshot(d) == d.marker \in {"true", "last", "incremental"}

\* decode_document: the last row of the snapshot completes it, or the first record that
\* is not of a snapshot.
Completes(d) == d.marker = "last" \/ (~InSnapshot(d) /\ ~processing.snap)

\* The record of a document: a row, or a heartbeat or transaction end without one.
RecordOf(d, pos) ==
    [Item(pos, IF d.row THEN d.key ELSE NoKey, IF d.row THEN d.val ELSE 0, Ordinal(answered + 1, doc)) EXCEPT
        !.last = Completes(d) \/ d.marker = "end", !.snapshotEnd = Completes(d) /\ d.marker # "end"]

\* process_http and run_kafka: decode, send, remember, wait.
Handle ==
    /\ doc # 0 /\ waiting = None /\ processing.pending = None
    /\ Document.id \notin {processing.lastId, NoRecord} /\ Document.marker # "refused"
    /\ LET pos == Position(<<IF InSnapshot(Document) THEN 0 ELSE 1, processing.serial + 1>>,
                           <<Document.id, processing.serial + 1>>)
       IN  /\ Send(RecordOf(Document, pos)) /\ waiting' = pos
           /\ processing' = [processing EXCEPT !.serial = @ + 1, !.snap = @ \/ Completes(Document),
                                               !.pending = IF setup.kafka THEN None ELSE pos]
    /\ UNCHANGED <<setup, phase, view, taken, ckpt, acked, stops, answered, doc, timeouts>>

\* Faulty variant: whatever is acknowledged will do.
AnyAcknowledged(pos) == acked # None

\* wait_for_ack: the position is acknowledged, or one after it.
Acknowledged(pos) == acked = pos \/ IsAfter(acked, pos)

Settle ==
    /\ waiting # None /\ Acknowledged(waiting)
    /\ processing' = [processing EXCEPT !.lastId = Document.id, !.pending = None]
    /\ waiting' = None /\ NextDocument
    /\ UNCHANGED <<setup, phase, runtime, stops, timeouts>>

\* request_timeout: the request fails and the record stays pending.
Timeout ==
    /\ ~setup.kafka /\ waiting # None /\ timeouts < setup.timeouts
    /\ timeouts' = timeouts + 1 /\ waiting' = None /\ doc' = 0
    /\ UNCHANGED <<setup, phase, runtime, stops, answered, processing>>

\* The commit of the offset fails, or the Kafka consumer does: run returns the error.
CommitFails ==
    /\ setup.kafka /\ phase = "streaming" /\ timeouts < setup.timeouts
    /\ timeouts' = timeouts + 1 /\ phase' = "failed" /\ doc' = 0 /\ waiting' = None
    /\ UNCHANGED <<setup, runtime, stops, answered, processing>>

BridgeInit ==
    /\ answered = 0 /\ doc = 0 /\ waiting = None /\ timeouts = 0
    /\ processing = [serial |-> 0, lastId |-> NoRecord, pending |-> None, snap |-> FALSE]

BridgeNext ==
    /\ phase # "failed"
    /\ Start \/ Post \/ (phase = "streaming" /\ (Skip \/ Again \/ Reject \/ Handle \/ Settle \/ Timeout \/ CommitFails))

\* Every document of an answered request has been written, but the empty ones and an
\* exact replay of the one before.
AnsweredWritten ==
    \A r \in 1 .. answered : \A d \in DOMAIN Requests[r] :
        LET n == Ordinal(r, d)
        IN  \/ n \in taken \/ Requests[r][d].id = NoRecord
            \/ \E q \in 1 .. r : \E e \in DOMAIN Requests[q] :
                Ordinal(q, e) = n - 1 /\ Requests[q][e].id = Requests[r][d].id
=============================================================================
