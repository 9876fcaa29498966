---------------------------- MODULE MCQuestion ------------------------------
(***************************************************************************)
(* QuestionRendezvous on a small instance, and what comments of the server *)
(* say of it.                                                              *)
(***************************************************************************)
EXTENDS QuestionRendezvous

Quiet ==
    /\ \A q \in Asked : pc[q] \in Over \cup {"new", "waiting"}
    /\ \A h \in Handlers : reply[h].step \in {"idle", "done"}
    /\ abort.step \in {"idle", "done"}

\* Not so.  RuntimeStateStore: "every active execution aspect must be reflected
\* here".  When nothing is half-way the runtime state shows an open question
\* if there is one, and only an open one.
OpenQuestionIsShown ==
    Quiet => /\ shown # None => records[shown] # None
             /\ shown = None => \A q \in Asked : pc[q] = "waiting" => records[q] = None

\* Not so.  An ended run that was not aborted leaves a ledger that can go on.
EndedRunAwaitsNothing ==
    run = "ended" /\ Quiet => ledger.awaiting = {}

\* Not so.  An ended run leaves no sender behind.
EndedRunLeavesNoSender == run = "ended" /\ Quiet => waiters = {}
=============================================================================
