----------------------------- MODULE LedgerSeams -----------------------------
(***************************************************************************)
(* The seam reducer of agendao-server (session_runtime/                    *)
(* task_ledger_reducer.rs): what one execution fact does to the ledger of  *)
(* its session.  dispatch_seam reads, reduces, applies and stores under    *)
(* the sessions lock, so a seam is one function from ledger to ledger; an  *)
(* empty or rejected candidate batch leaves the ledger as it is.           *)
(***************************************************************************)
EXTENDS LedgerDomain

\* A ledger is created with a next action, and an evaluator is a verifier.
ASSUME SeamsAssumption == Statements # {} /\ "Evaluator" \in Verifiers

\* No seam reads the revision; a protocol that does not either leaves it out.
Unrevised(L) == [L EXCEPT !.revision = 0]

\* A ledger that has just been created, with a goal without criteria.
Governed == Create(EmptyLedger, [criteria |-> {}, checks |-> {}],
                   CHOOSE s \in Statements : TRUE)

\* One candidate batch: M is the ledger with the candidates applied, ok says
\* that there are candidates and that each was accepted.
Dispatch(L, ok, M) ==
    IF L.goal # None /\ ok /\ ValidateSnapshot(M) THEN Bump(M) ELSE L

RunStarted(L) ==
    Dispatch(L, L.status = "Interrupted" /\ SetActiveOk(L), SetActive(L))

RecoveryInterrupted(L) ==
    Dispatch(L, L.status # "Interrupted" /\ InterruptOk(L), Interrupt(L))

FinalResponseCommitted(L) ==
    Dispatch(L, CompletionReady(L) /\ L.status # "Completed", Complete(L, {}))

\* A passed evaluation is evidence without coverage, and only for the goal it
\* was started under.
EvaluatorGateCompleted(L, generation) ==
    Dispatch(L, generation = L.goal_generation /\ AddCheckpointOk(L, {}, 0),
             AddCheckpoint(L, "Evaluator", {}, 0))

InteractionAwaiting(L, x) ==
    Dispatch(L, x \notin L.awaiting /\ SetAwaitingOk(L), SetAwaiting(L, x))

InteractionResolved(L, x) ==
    Dispatch(L, ResolveInteractionOk(L, x), ResolveInteraction(L, x))
=============================================================================
