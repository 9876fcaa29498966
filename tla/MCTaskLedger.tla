---------------------------- MODULE MCTaskLedger ----------------------------
(***************************************************************************)
(* TaskLedger on small instances, and three statements that comments of    *)
(* task_ledger.rs make about its operations.                               *)
(***************************************************************************)
EXTENDS TaskLedger, TLC

Perms == Permutations(Statements) \cup Permutations(Writers)

\* SetStatus(Completed) is commented "Same gate, same clearing semantics as the
\* Complete op -- there is no weaker side door through SetStatus": where Complete
\* without a declaration is refused, SetStatus is refused too.
NoSideDoorToCompleted ==
    ledger.status # "Completed" /\ SetCompletedOk(ledger) => CompletionReady(ledger)

\* SwapCoreLive is commented "the incoming statement takes the displaced
\* entry's place so slot 1/2 keep meaning across swaps": after a swap that
\* displaced slot k, the k-th live entry is the incoming statement.
SwapFillsItsSlot ==
    \A k \in 1..Cardinality(LiveCore(ledger)), s \in Statements :
        LET after == SwapCoreLive(ledger, k, s)
        IN  /\ Cardinality(LiveCore(after)) >= k
            /\ after.core[LiveSlot(after, k)].statement = s

\* OpenQuestion.id is documented as a "Stable, never-reused id": the number the
\* OpenQuestion operation would issue next never goes back.
OpenIdsNeverReused ==
    [][NextSequentialId(OpenIds(ledger)) <= NextSequentialId(OpenIds(ledger'))]_vars
=============================================================================
