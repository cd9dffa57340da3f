------------------------------- MODULE SourceLog -------------------------------
(***************************************************************************)
(* What a source connector has to say, in the order in which it says it.   *)
(*                                                                         *)
(* The runtime sees a connector only through the typed SourceRecords it    *)
(* sends (rustium-core, event.rs and traits.rs), so the database behind it *)
(* is one sequence of records.  A position is the rank of a typed          *)
(* SourcePosition in the order of SourcePosition::is_after.                *)
(***************************************************************************)
EXTENDS Naturals, Sequences

CONSTANT
    Log     \* the records the connector sends when nothing interrupts it

Boundary == {"Data", "TransactionCommit", "SnapshotComplete", "Heartbeat"}

\* pos:  rank of the record's position, 1 or more (0 stands for None)
\* outs: how many messages encode_batch makes of its event, 0 without event
\* row:  the event is a row of the database and not a heartbeat
\* snap: the event is a row of the initial snapshot
Entry == [pos : Nat \ {0}, outs : Nat, row : BOOLEAN, snap : BOOLEAN, boundary : Boundary]

ASSUME LogAssumption == Log \in Seq(Entry)

(***************************************************************************)
(* The contract a connector owes to the runtime: positions never go back,  *)
(* and a row has a position of its own, after everything sent before it.   *)
(* It is a definition and not an assumption: PgStreaming shows a connector *)
(* that breaks it, and the runs of Runtime include a log that does.        *)
(***************************************************************************)
LogOrdered ==
    \A i, j \in DOMAIN Log :
        i < j => /\ Log[i].pos <= Log[j].pos
                 /\ Log[j].row => Log[i].pos < Log[j].pos

RowIndex == {i \in DOMAIN Log : Log[i].row}

HasSnapshot == \E i \in DOMAIN Log : Log[i].boundary = "SnapshotComplete"

\* The next start repeats the snapshot, whose end checkpoint c does not hold.
SnapshotOpen(c) == HasSnapshot /\ ~c.snap

\* The messages made of entry i; two for a delete with its tombstone.
Outputs(i) == {<<i, k>> : k \in 1 .. Log[i].outs}

AllOutputs == UNION {Outputs(i) : i \in DOMAIN Log}

RowsUpTo(p) == {i \in RowIndex : Log[i].pos <= p}

\* Every message of every row at or before p is in d.
Covers(d, p) == \A i \in RowsUpTo(p) : Outputs(i) \subseteq d

\* d holds no message of a row while an earlier message of a row is missing.
InOrder(d) ==
    \A i, j \in RowIndex :
        /\ i < j /\ Outputs(j) \cap d # {} => Outputs(i) \subseteq d
        /\ \A k, l \in 1 .. Log[i].outs : k < l /\ <<i, l>> \in d => <<i, k>> \in d

\* The sequence of the messages of entry i, in the order encode_batch returns.
Encode(i) == [k \in 1 .. Log[i].outs |-> <<i, k>>]

\* Faulty variants: the row at the checkpoint is sent again, or the one after it
\* is skipped.
ResumeIndexInclusive(i, p) ==
    /\ i \in 1 .. Len(Log) + 1
    /\ i <= Len(Log) => Log[i].pos >= p
    /\ \A j \in 1 .. i - 1 : Log[j].pos < p
ResumeIndexPast(i, p) ==
    /\ i \in 1 .. Len(Log) + 1
    /\ i <= Len(Log) => Log[i].pos > p + 1
    /\ \A j \in 1 .. i - 1 : Log[j].pos <= p + 1

\* Index i is where a connector resumes that skips everything up to p.
ResumeIndex(i, p) ==
    /\ i \in 1 .. Len(Log) + 1
    /\ i <= Len(Log) => Log[i].pos > p
    /\ \A j \in 1 .. i - 1 : Log[j].pos <= p
=============================================================================
