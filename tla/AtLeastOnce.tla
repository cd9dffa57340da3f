------------------------------ MODULE AtLeastOnce ------------------------------
(***************************************************************************)
(* What Rustium promises, whatever fails in between: messages reach the    *)
(* sink in source order, a checkpoint covers only messages the sink has    *)
(* acknowledged and never goes back once the snapshot is complete, the     *)
(* source protocol is told of nothing that would be needed again, and an   *)
(* external signal channel of no signal that a checkpoint does not hold.   *)
(***************************************************************************)
EXTENDS SourceLog

VARIABLES
    delivered,   \* messages the sink holds
    ckpt,        \* the checkpoint: position, snapshot flag, applied signals
    confirmed,   \* position acknowledged to the source protocol
    sigOffset    \* signals whose offset is committed in the signal topic

promises == <<delivered, ckpt, confirmed, sigOffset>>

Init ==
    /\ delivered = {}
    /\ ckpt = [pos |-> 0, snap |-> FALSE, state |-> {}]
    /\ confirmed = 0
    /\ sigOffset = 0

\* The sink takes more messages, none out of order.
Deliver ==
    /\ delivered' \in SUBSET AllOutputs
    /\ delivered \subseteq delivered'
    /\ InOrder(delivered')
    /\ UNCHANGED <<ckpt, confirmed, sigOffset>>

\* A checkpoint replaces the previous one in a single transaction.
Checkpoint ==
    /\ Covers(delivered, ckpt'.pos)
    /\ ckpt.snap => ckpt'.snap
    /\ SnapshotOpen(ckpt) \/ ckpt'.pos >= ckpt.pos
    /\ ckpt.state \subseteq ckpt'.state
    /\ UNCHANGED <<delivered, confirmed, sigOffset>>

\* The source may forget what the sink holds and no start needs again: everything up
\* to the checkpoint, and before the end of the snapshot, which the next start would
\* repeat, everything up to an earlier one.
Confirm ==
    /\ confirmed' \in Nat /\ Covers(delivered, confirmed')
    /\ SnapshotOpen(ckpt) \/ confirmed' <= ckpt.pos
    /\ UNCHANGED <<delivered, ckpt, sigOffset>>

CommitSignal ==
    /\ sigOffset' = sigOffset + 1
    /\ sigOffset' \in ckpt.state
    /\ UNCHANGED <<delivered, ckpt, confirmed>>

Next == Deliver \/ Checkpoint \/ Confirm \/ CommitSignal

Spec == Init /\ [][Next]_promises
=============================================================================
