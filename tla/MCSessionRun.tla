---------------------------- MODULE MCSessionRun ----------------------------
(***************************************************************************)
(* SessionRun on small instances, and what comments and docs of the        *)
(* repository say of it.                                                   *)
(***************************************************************************)
EXTENDS SessionRun

CONSTANTS s1, s2

Perms == Permutations(Slots)

\* session_runtime/task_ledger.rs: "a stale `expected_revision` loses cleanly
\* instead of overwriting".  No write takes the ledger back to a revision it
\* has left.
LedgerNeverGoesBack == [][session'.ledger.revision >= session.ledger.revision]_vars

Unstopped(r) == At(r, "running") /\ ~ run[r].cancelled

\* cancel.rs: "Stop means stop for the whole session".  An abort that reports a
\* hit has cancelled the run that was executing when it began.
StopReachesRun ==
    abort.step = "report" /\ abort.hit => \A r \in abort.live : ~ Unstopped(r)

\* prompt.rs: the reservation is the scheduler's token "so aborts in the
\* boundary gap cannot be lost".
StopReachesReserved ==
    abort.step = "report" /\ abort.hit => \A r \in abort.live : run[r].reserved => ~ Unstopped(r)

\* cancel.rs: "the ledger keeps its pre-interrupt Next with provenance marked".
InterruptKeepsNext ==
    [][session.ledger.status = "Interrupted" /\ session.ledger.next # None
        => session'.ledger.next # None]_vars

\* docs/task-ledger.md: a follow-up queued during a run takes effect when the
\* run ends.  A queued prompt always has a run that will look at the queue.
QueuedHasRun == followups # <<>> => \E r \in Slots : ~ At(r, "none")

\* docs/task-ledger.md: a /goal submitted during an active run is queued until
\* the run has ended.
GoalWaitsItsTurn ==
    \A r, q \in Slots : At(r, "goal") /\ q # r => ~ At(q, "running")
=============================================================================
