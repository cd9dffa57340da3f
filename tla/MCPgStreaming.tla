----------------------------- MODULE MCPgStreaming -----------------------------
(***************************************************************************)
(* Instances of PgStreaming for TLC: write-ahead logs that differ in how   *)
(* transactions lie in them, and configurations to run them with.          *)
(***************************************************************************)
EXTENDS PgStreaming

Change(l, x)   == [kind |-> "change", lsn |-> l, end |-> l + 1, xid |-> x]
CommitAt(l, x) == [Change(l, x) EXCEPT !.kind = "commit"]
AbortAt(l, x)  == [Change(l, x) EXCEPT !.kind = "abort"]
MessageAt(l)   == [Change(l, 0) EXCEPT !.kind = "message"]

\* Transactions one after the other: one row, a multi-insert of two rows and a
\* third one, a message outside of any transaction.
SerialWal == <<Change(1, 1), CommitAt(2, 1),
               Change(4, 2), Change(4, 2), Change(5, 2), CommitAt(6, 2),
               MessageAt(7)>>

\* The first transaction commits after the second one, which it surrounds.
InterleavedWal == <<Change(1, 1), Change(3, 2), CommitAt(4, 2), Change(6, 1), CommitAt(8, 1)>>

\* A transaction that rolls back beside one that commits.
AbortWal == <<Change(1, 1), Change(3, 2), AbortAt(4, 2), CommitAt(6, 1)>>

\* The defaults of the configuration, with two stops.
Default ==
    [wal |-> SerialWal, streamed |-> {}, mode |-> "Initial", strategy |-> "NoValidation",
     flush |-> "Connector", drop |-> FALSE, heartbeats |-> TRUE, stops |-> 2, losses |-> 0]

\* Interleaved transactions sent at their commits, while nothing stops.
Interleaved == [Default EXCEPT !.wal = InterleavedWal, !.stops = 0]

\* Interleaved and aborted transactions sent while in progress.
InProgressSent ==
    {[Default EXCEPT !.wal = w, !.streamed = {1, 2}, !.heartbeats = FALSE] :
        w \in {InterleavedWal, AbortWal}}

\* Feedback outruns the checkpoint, slots are dropped and lost: history is refused.
Refusing ==
    [Default EXCEPT !.strategy = "TrustOffset", !.flush = "ConnectorAndDriver",
                    !.drop = TRUE, !.heartbeats = FALSE, !.losses = 1]

\* The slot lags behind the checkpoint after a crash, and is advanced.
Advancing == [Default EXCEPT !.strategy = "TrustGreaterLsn", !.drop = TRUE, !.losses = 1]

\* Feedback outruns the checkpoint, and the slot is trusted.
Trusting == [Default EXCEPT !.strategy = "TrustSlot", !.flush = "ConnectorAndDriver"]

\* No snapshot, manual feedback, a slot that may get lost.
WithoutSnapshot == [Default EXCEPT !.mode = "Never", !.strategy = "TrustSlot", !.flush = "Manual", !.losses = 1]

\* A recovery snapshot that nothing interrupts.
Recovering == [Default EXCEPT !.mode = "WhenNeeded", !.drop = TRUE, !.heartbeats = FALSE,
                              !.stops = 1, !.losses = 1]

Supported == {Default, Interleaved, Refusing, Advancing, Trusting, WithoutSnapshot, Recovering}
                 \cup InProgressSent

\* A setup that refutes CaughtUpComplete: see the README.
InterleavedRestart == {[Interleaved EXCEPT !.stops = 1, !.heartbeats = FALSE]}
=============================================================================
