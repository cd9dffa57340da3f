------------------------------- MODULE MCSources -------------------------------
(***************************************************************************)
(* The Oracle and MongoDB connectors and the Debezium bridge, each with    *)
(* the runtime behind it: setup.connector says which.                      *)
(***************************************************************************)
EXTENDS Delivery

VARIABLES written, cursor, anchor, todo, serial, batch, missed, last, answered, doc, waiting, processing, timeouts

CONSTANT Setups

O == INSTANCE Oracle
D == INSTANCE MongoDb
B == INSTANCE Bridge

log == <<written, cursor, anchor, todo>>
oracle == <<serial, batch, missed>>
bridge == <<answered, doc, waiting, processing, timeouts>>

vars == <<setup, phase, stops, runtime, log, oracle, last, bridge>>

Init == setup \in Setups /\ DeliveryInit /\ O!OracleInit /\ D!MongoInit /\ B!BridgeInit

Source ==
    \/ setup.connector = "oracle" /\ O!OracleNext /\ UNCHANGED <<last, bridge>>
    \/ setup.connector = "mongodb" /\ D!MongoNext /\ UNCHANGED <<oracle, bridge>>
    \/ setup.connector = "bridge" /\ B!BridgeNext /\ UNCHANGED <<log, oracle, last>>

Delivering == (Flush \/ Backwards \/ Restart) /\ UNCHANGED <<log, oracle, last, bridge>>

Next == Source \/ Delivering \/ (Crash /\ UNCHANGED <<log, oracle, last, bridge>>)

Spec == Init /\ [][Next]_vars

\* What happens without being asked: the arms of the connector's loop, the flush
\* interval, a supervisor; the database does what it has to do.  Nobody has to crash,
\* to time out or to beat; a send that finds room again and again is made (the channel
\* of tokio serves its senders in order), hence strong fairness.
Progress ==
    \/ setup.connector = "oracle" /\ (O!Write \/ O!Start \/ O!SnapshotRow \/ O!SnapshotEnd \/ O!Poll \/ O!Handle)
        /\ UNCHANGED <<last, bridge>>
    \/ setup.connector = "mongodb" /\ (D!Apply \/ D!Start \/ D!SnapshotRow \/ D!SnapshotEnd \/ D!Take)
        /\ UNCHANGED <<oracle, bridge>>
    \/ setup.connector = "bridge" /\ phase # "failed" /\ (B!Start \/ B!Post \/ B!Skip \/ B!Again \/ B!Handle \/ B!Settle)
        /\ UNCHANGED <<log, oracle, last>>

FairSpec == Spec /\ SF_vars(Progress) /\ WF_vars(Delivering)

----------------------------------------------------------------------------

\* Nothing is passed over: once the connector has read all there is and the runtime has
\* written it, the sink has each row as the database has it.  Left out are the rows the
\* connectors cannot see: a row deleted before the snapshot of another start, a dropped
\* collection, an Oracle row whose transaction was open when the cursor went by (Poll,
\* anchor).  (run of both connectors: snapshot, cursor, position, checkpoint)
CaughtUp ==
    /\ setup.connector = "oracle" /\ O!OracleIdle =>
        \A key \in Keys : O!OracleSeen(key) =>
            view[key] = O!RowAsOf(key, written) \/ O!OutOfSight(key)
    /\ setup.connector = "mongodb" /\ D!MongoIdle =>
        \A key \in Keys : view[key] = D!Document(key, written) \/ D!OutOfSight(key)

\* A request is answered, and a Kafka offset committed, when every document of it has
\* been delivered and checkpointed.  (wait_for_ack)
AnsweredDelivered == setup.connector = "bridge" => B!AnsweredWritten

AtEnd ==
    CASE ~setup.steady                 -> TRUE
      [] setup.connector = "oracle"  -> O!OracleIdle /\ written = Len(setup.redo)
      [] setup.connector = "mongodb" -> D!MongoIdle /\ written = Len(setup.ops)
      [] setup.connector = "bridge"  -> answered = Len(setup.requests)

\* Whatever crashes, failures and timeouts there are, the connector reads on to the end
\* of what there is, and the engine has all its requests answered.  (run, process_http,
\* run_kafka)  A setup is not steady when the code does not promise that: Oracle
\* transactions that overlap and are read into one batch (their positions go back and
\* the runtime fails, at the next start too), an invalidated change stream, a document
\* that is refused, a request of three documents of which the last timed out.
ReachesEnd == []<>AtEnd

----------------------------------------------------------------------------

Redo(op, txn, key, val) == [op |-> op, txn |-> txn, key |-> key, val |-> val]
Begun(txn) == Redo("start", txn, NoKey, 0)
Done(txn) == Redo("commit", txn, NoKey, 0)
RowOf(txn, key, val) == Redo("row", txn, key, val)

Serial == <<Begun(1), RowOf(1, 1, 2), RowOf(1, 2, 3), Done(1), Begun(2), RowOf(2, 2, 0), RowOf(2, 1, 4), Done(2)>>
Overlapping == <<Begun(1), RowOf(1, 1, 2), Begun(2), RowOf(2, 2, 3), Done(2), RowOf(1, 1, 4), Done(1), Begun(3), RowOf(3, 2, 5), Done(3)>>

OracleSetup ==
    [connector |-> "oracle", steady |-> TRUE, rows |-> <<1, 0>>, stops |-> 2, mode |-> "initial", where |-> "key", early |-> 0,
     batchSize |-> 8, beats |-> FALSE, errors |-> FALSE, redo |-> Serial]

OracleSetups ==
    {[OracleSetup EXCEPT !.batchSize = n, !.errors = TRUE] : n \in {1, 3}} \cup
    {[OracleSetup EXCEPT !.beats = TRUE],
     [OracleSetup EXCEPT !.mode = "never", !.early = 4],
     [OracleSetup EXCEPT !.redo = Overlapping, !.early = 4, !.batchSize = 1, !.steady = FALSE]}

Op(op, key, val, update) == [op |-> op, key |-> key, val |-> val, update |-> update]
Insert(key, val) == Op("set", key, val, FALSE)
Update(key, val) == Op("set", key, val, TRUE)
Delete(key) == Op("delete", key, 0, FALSE)
Other(op) == Op(op, NoKey, 0, FALSE)

MongoSetup ==
    [connector |-> "mongodb", steady |-> TRUE, rows |-> <<1, 0>>, stops |-> 1, mode |-> "initial", early |-> 1, lookup |-> TRUE,
     beats |-> FALSE, errors |-> FALSE,
     ops |-> <<Update(1, 2), Insert(2, 3), Other("filtered"), Update(1, 4), Delete(2), Update(1, 5)>>]

MongoSetups ==
    {[MongoSetup EXCEPT !.lookup = b, !.beats = ~b] : b \in BOOLEAN} \cup
    {[MongoSetup EXCEPT !.mode = "never", !.stops = 2],
     [MongoSetup EXCEPT !.errors = TRUE, !.ops = <<Delete(1), Insert(1, 2), Update(1, 3), Other("drop"), Insert(2, 4)>>],
     [MongoSetup EXCEPT !.steady = FALSE, !.ops = <<Update(1, 2), Other("invalidate"), Insert(2, 3)>>]}

Document(id, marker, key, val) == [id |-> id, marker |-> marker, row |-> TRUE, key |-> key, val |-> val]
Event(id, marker) == [id |-> id, marker |-> marker, row |-> FALSE, key |-> NoKey, val |-> 0]

BridgeSetup ==
    [connector |-> "bridge", steady |-> TRUE, rows |-> <<0, 0>>, stops |-> 2, kafka |-> FALSE, timeouts |-> 2, early |-> 0,
     requests |-> <<<<Document(1, "true", 1, 1), Document(2, "last", 2, 2)>>, <<Event(3, "heartbeat")>>,
                    <<Document(4, "no", 1, 3), Event(5, "end")>>>>]

OneByOne ==
    [BridgeSetup EXCEPT !.kafka = TRUE,
        !.requests = <<<<Document(1, "true", 1, 1)>>, <<Event(0, "empty")>>, <<Document(2, "no", 2, 2)>>,
                       <<Event(3, "end")>>, <<Document(4, "no", 1, 3)>>>>]

BridgeSetups ==
    {BridgeSetup, OneByOne,
     [BridgeSetup EXCEPT !.requests = <<<<Document(1, "no", 1, 1)>>, <<Document(1, "no", 1, 1)>>,
                                        <<Document(2, "no", 2, 2), Document(3, "no", 1, 3)>>>>],
     [BridgeSetup EXCEPT !.steady = FALSE,
        !.requests = <<<<Document(1, "no", 1, 1), Document(2, "no", 2, 2), Document(3, "no", 1, 3)>>, <<Event(4, "refused")>>>>],
     [OneByOne EXCEPT !.steady = FALSE, !.requests = <<<<Document(1, "no", 1, 1)>>, <<Event(2, "refused")>>>>]}

\* An incremental snapshot's row after a streamed one.
EarlyAckSetups ==
    {[BridgeSetup EXCEPT !.requests = <<<<Document(1, "no", 1, 1)>>, <<Document(2, "incremental", 2, 2)>>>>]}

AllSetups == OracleSetups \cup MongoSetups \cup BridgeSetups
=============================================================================
