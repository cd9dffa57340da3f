------------------------------ MODULE MCRuntime -------------------------------
(***************************************************************************)
(* Instances of Runtime for TLC.                                           *)
(***************************************************************************)
EXTENDS Runtime

Row(p, n)      == [pos |-> p, outs |-> n, row |-> TRUE, snap |-> FALSE, boundary |-> "Data"]
SnapshotRow(p) == [Row(p, 1) EXCEPT !.snap = TRUE]
Mark(p, b)     == [pos |-> p, outs |-> 0, row |-> FALSE, snap |-> FALSE, boundary |-> b]
HeartbeatAt(p) == [Mark(p, "Heartbeat") EXCEPT !.outs = 1]

\* Two snapshot rows, so that a checkpoint made while the snapshot is repeated may be
\* behind the one before it; then a transaction that deletes, with a tombstone.
SnapshotLog == <<SnapshotRow(1), SnapshotRow(2), Mark(3, "SnapshotComplete"),
                 Row(4, 2), Mark(5, "TransactionCommit")>>

\* No snapshot; a heartbeat at the position of the commit before it, and one that goes
\* back: the source breaks its contract where both are in one batch.
StreamLog == <<Row(1, 2), Mark(2, "TransactionCommit"), HeartbeatAt(2), HeartbeatAt(1),
               Row(3, 1), Mark(4, "TransactionCommit")>>

\* errors_max_retries = -1: retry for ever
Unlimited == -1
=============================================================================
