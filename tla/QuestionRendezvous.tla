------------------------- MODULE QuestionRendezvous -------------------------
(***************************************************************************)
(* Questions that tools of one run ask the user: request_question_answers  *)
(* over the RuntimeControlRegistry, the runtime state and the task ledger, *)
(* with the handlers that answer, reject or cancel a question, the abort   *)
(* of the session and the end of the run.                                  *)
(*                                                                         *)
(* The registry keeps a question twice: its execution record and its       *)
(* oneshot sender, each under a lock of its own.  Whoever takes the record *)
(* owns the right to reply.  The runtime state has one slot per session    *)
(* for the question it shows.                                              *)
(***************************************************************************)
EXTENDS LedgerSeams

CONSTANTS
    Asked,      \* the questions of the run's tools
    Handlers    \* HTTP handlers that reply to a question

Kinds == {"Answers", "Rejected", "Cancelled"}

ASSUME AskedAssumption ==
    /\ Interactions = Asked
    /\ None \notin Asked \cup Kinds \cup {"Waiting", "Done"}

VARIABLES
    pc,         \* where request_question_answers is, per question
    records,    \* executions: status of the question's record
    waiters,    \* question_waiters: questions whose sender is in the table
    channel,    \* what has been sent to the question's receiver
    shown,      \* pending_question of the runtime state
    ledger,     \* the session's task ledger
    reply,      \* per handler: its step, its question, its answer
    abort,      \* abort_session_execution: step, ids listed, id at hand, hits
    token,      \* the run's cancellation token
    run         \* the run: running, retired, cleaned, ended

registryVars == <<records, waiters, channel>>
runVars == <<token, run>>
vars == <<pc, records, waiters, channel, shown, ledger, reply, abort, token, run>>

Over == {"done", "dropped"}

Init ==
    /\ pc = [q \in Asked |-> "new"]
    /\ records = [q \in Asked |-> None]
    /\ waiters = {}
    /\ channel = [q \in Asked |-> None]
    /\ shown = None
    /\ ledger = Governed
    /\ reply = [h \in Handlers |-> [step |-> "idle", id |-> None, kind |-> None]]
    /\ abort = [step |-> "idle", ids |-> {}, id |-> None, hit |-> FALSE]
    /\ token = FALSE
    /\ run = "running"

Goto(q, step) == pc' = [pc EXCEPT ![q] = step]

---------------------------------------------------------------------------
(* The registry.                                                            *)

InsertWaiter(q) == waiters' = waiters \cup {q} /\ UNCHANGED <<records, channel>>

\* Variant: the record says Running, which list_questions leaves out.
UpsertRunning(q) == records' = [records EXCEPT ![q] = "Running"] /\ UNCHANGED <<waiters, channel>>

UpsertRecord(q) == records' = [records EXCEPT ![q] = "Waiting"] /\ UNCHANGED <<waiters, channel>>

\* Variant: the record stays, and a second reply finds it.
TakePeeks(q) == records[q] # None /\ UNCHANGED registryVars

\* take_question, whatever the record's status.
Take(q) ==
    /\ records[q] # None
    /\ records' = [records EXCEPT ![q] = None]
    /\ UNCHANGED <<waiters, channel>>

\* The sender is removed and used; a receiver that is gone hears nothing.
Send(q, kind) ==
    /\ waiters' = waiters \ {q}
    /\ channel' = [channel EXCEPT ![q] = IF q \in waiters THEN kind ELSE @]
    /\ UNCHANGED records

---------------------------------------------------------------------------
(* request_question_answers.                                                *)

\* register_question: the sender is in the table before the record is.
Register(q) ==
    /\ pc[q] = "new" /\ run = "running"
    /\ InsertWaiter(q)
    /\ Goto(q, "registered")
    /\ UNCHANGED <<shown, ledger, reply, abort, runVars>>

Publish(q) ==
    /\ pc[q] = "registered"
    /\ UpsertRecord(q)
    /\ Goto(q, "published")
    /\ UNCHANGED <<shown, ledger, reply, abort, runVars>>

QuestionCreated(q) ==
    /\ pc[q] = "published"
    /\ shown' = q
    /\ Goto(q, "shown")
    /\ UNCHANGED <<registryVars, ledger, reply, abort, runVars>>

Announce(q) ==
    /\ pc[q] = "shown"
    /\ ledger' = Unrevised(InteractionAwaiting(ledger, q))
    /\ Goto(q, "waiting")
    /\ UNCHANGED <<registryVars, shown, reply, abort, runVars>>

\* The reply arrives, in the select or after a cancellation that lost its race.
Receive(q) ==
    /\ pc[q] \in {"waiting", "draining"} /\ channel[q] # None
    /\ Goto(q, "replied")
    /\ UNCHANGED <<registryVars, shown, ledger, reply, abort, runVars>>

\* Variant: the aborted wait leaves its question to others and awaits the reply.
SeeAbortAwaits(q) ==
    /\ pc[q] = "waiting" /\ token
    /\ Goto(q, "draining")
    /\ UNCHANGED <<registryVars, shown, ledger, reply, abort, runVars>>

\* The abort wins the select: cancel_question, which finds the record or not.
SeeAbort(q) ==
    /\ pc[q] = "waiting" /\ token
    /\ \/ Take(q) /\ Goto(q, "cancelling")
       \/ records[q] = None /\ Goto(q, "draining") /\ UNCHANGED registryVars
    /\ UNCHANGED <<shown, ledger, reply, abort, runVars>>

CancelOwn(q) ==
    /\ pc[q] = "cancelling"
    /\ Send(q, "Cancelled")
    /\ Goto(q, "cancelled")
    /\ UNCHANGED <<shown, ledger, reply, abort, runVars>>

ResolveOwn(q) ==
    /\ pc[q] = "cancelled"
    /\ shown' = None
    /\ Goto(q, "draining")
    /\ UNCHANGED <<registryVars, ledger, reply, abort, runVars>>

\* Variant: a cancelled question returns before it tells the ledger.
FinishUntold(q) ==
    /\ pc[q] = "replied"
    /\ ledger' = IF channel[q] = "Cancelled" THEN ledger
                 ELSE Unrevised(InteractionResolved(ledger, q))
    /\ Goto(q, "done")
    /\ UNCHANGED <<registryVars, shown, reply, abort, runVars>>

\* The ledger is told and the tool gets its result.
Finish(q) ==
    /\ pc[q] = "replied"
    /\ ledger' = Unrevised(InteractionResolved(ledger, q))
    /\ Goto(q, "done")
    /\ UNCHANGED <<registryVars, shown, reply, abort, runVars>>

\* The future is dropped at an await: the deadline, a failed sibling branch, or
\* the end of the clean-up window.  No guard cleans up after it.
Drop(q) ==
    /\ pc[q] \notin Over \cup {"new"}
    /\ Goto(q, "dropped")
    /\ UNCHANGED <<registryVars, shown, ledger, reply, abort, runVars>>

---------------------------------------------------------------------------
(* A handler: answer, reject, or cancel_execution of a question.            *)

TakeReply(h, q, kind) ==
    /\ reply[h].step = "idle"
    /\ Take(q)
    /\ reply' = [reply EXCEPT ![h] = [step |-> "taken", id |-> q, kind |-> kind]]
    /\ UNCHANGED <<pc, shown, ledger, abort, runVars>>

SendReply(h) ==
    /\ reply[h].step = "taken"
    /\ Send(reply[h].id, reply[h].kind)
    /\ reply' = [reply EXCEPT ![h].step = "sent"]
    /\ UNCHANGED <<pc, shown, ledger, abort, runVars>>

\* question_resolved and finish_control_input_wait: the slot is cleared,
\* whichever question it shows.
Resolve(h) ==
    /\ reply[h].step = "sent"
    /\ shown' = None
    /\ reply' = [reply EXCEPT ![h].step = "done"]
    /\ UNCHANGED <<pc, registryVars, ledger, abort, runVars>>

---------------------------------------------------------------------------
(* abort_session_execution: cancel_questions_for_session, the token, then   *)
(* the ledger.                                                              *)

AbortLists ==
    /\ abort.step = "idle"
    /\ abort' = [abort EXCEPT !.step = "next", !.ids = {q \in Asked : records[q] # None}]
    /\ UNCHANGED <<pc, registryVars, shown, ledger, reply, runVars>>

AbortTakes(q) ==
    /\ abort.step = "next" /\ q \in abort.ids
    /\ \/ /\ Take(q)
          /\ abort' = [abort EXCEPT !.step = "taken", !.ids = @ \ {q}, !.id = q]
       \/ /\ records[q] = None
          /\ abort' = [abort EXCEPT !.ids = @ \ {q}]
          /\ UNCHANGED registryVars
    /\ UNCHANGED <<pc, shown, ledger, reply, runVars>>

\* Variant: the abort removes the record and not the sender.
AbortForgets ==
    /\ abort.step = "taken"
    /\ abort' = [abort EXCEPT !.step = "next", !.id = None, !.hit = TRUE]
    /\ UNCHANGED <<pc, registryVars, shown, ledger, reply, runVars>>

AbortSends ==
    /\ abort.step = "taken"
    /\ Send(abort.id, "Cancelled")
    /\ abort' = [abort EXCEPT !.step = "next", !.id = None, !.hit = TRUE]
    /\ UNCHANGED <<pc, shown, ledger, reply, runVars>>

AbortResolves ==
    /\ abort.step = "next" /\ abort.ids = {}
    /\ shown' = IF abort.hit THEN None ELSE shown
    /\ abort' = [abort EXCEPT !.step = "listed"]
    /\ UNCHANGED <<pc, registryVars, ledger, reply, runVars>>

\* request_scheduler_cancel: the token, if the run is still registered.
AbortCancels ==
    /\ abort.step = "listed"
    /\ token' = (token \/ run = "running")
    /\ abort' = [abort EXCEPT !.step = "cancelled", !.hit = @ \/ run = "running"]
    /\ UNCHANGED <<pc, registryVars, shown, ledger, reply, run>>

AbortInterrupts ==
    /\ abort.step = "cancelled"
    /\ ledger' = IF abort.hit THEN Unrevised(RecoveryInterrupted(ledger)) ELSE ledger
    /\ abort' = [abort EXCEPT !.step = "done"]
    /\ UNCHANGED <<pc, registryVars, shown, reply, runVars>>

---------------------------------------------------------------------------
(* The end of the run, once no future of its tools is left.                 *)

\* finish_scheduler_run: every record of the scheduler's subtree is Done; a
\* question's parent was the session's deepest record when it was asked.
Retire ==
    /\ run = "running" /\ \A q \in Asked : pc[q] \in Over \cup {"new"}
    /\ records' = [q \in Asked |-> IF records[q] = None THEN None ELSE "Done"]
    /\ run' = "retired"
    /\ UNCHANGED <<pc, waiters, channel, shown, ledger, reply, abort, token>>

\* cleanup_done_executions
Cleanup ==
    /\ run = "retired"
    /\ records' = [q \in Asked |-> IF records[q] = "Done" THEN None ELSE records[q]]
    /\ run' = "cleaned"
    /\ UNCHANGED <<pc, waiters, channel, shown, ledger, reply, abort, token>>

\* Variant: the question shown outlives the run.
MarkIdleKeeps ==
    /\ run = "cleaned"
    /\ run' = "ended"
    /\ UNCHANGED <<pc, registryVars, shown, ledger, reply, abort, token>>

MarkIdle ==
    /\ run = "cleaned"
    /\ shown' = None
    /\ run' = "ended"
    /\ UNCHANGED <<pc, registryVars, ledger, reply, abort, token>>

---------------------------------------------------------------------------

Wait(q) ==
    \/ Register(q) \/ Publish(q) \/ QuestionCreated(q) \/ Announce(q)
    \/ Receive(q) \/ SeeAbort(q) \/ CancelOwn(q) \/ ResolveOwn(q) \/ Finish(q)

Reply(h) == SendReply(h) \/ Resolve(h)

Abort ==
    \/ AbortSends \/ AbortResolves \/ AbortCancels \/ AbortInterrupts
    \/ \E q \in Asked : AbortTakes(q)

EndRun == Retire \/ Cleanup \/ MarkIdle

Next ==
    \/ \E q \in Asked : Wait(q) \/ Drop(q)
    \/ \E h \in Handlers : Reply(h) \/ \E q \in Asked, kind \in Kinds : TakeReply(h, q, kind)
    \/ AbortLists \/ Abort \/ EndRun

Spec == Init /\ [][Next]_vars

\* The runtime polls the futures that are ready.  Users need not answer.
Fairness ==
    /\ \A q \in Asked : WF_vars(Wait(q))
    /\ \A h \in Handlers : WF_vars(Reply(h))
    /\ WF_vars(Abort)

FairSpec == Spec /\ Fairness

---------------------------------------------------------------------------
(* Properties.                                                              *)

Steps == {"new", "registered", "published", "shown", "waiting", "cancelling", "cancelled",
          "draining", "replied"} \cup Over

\* Every variable has its type.
TypeOK ==
    /\ pc \in [Asked -> Steps]
    /\ records \in [Asked -> {"Waiting", "Done", None}]
    /\ waiters \subseteq Asked
    /\ channel \in [Asked -> Kinds \cup {None}]
    /\ shown \in Asked \cup {None}
    /\ ledger \in Ledgers
    /\ reply \in [Handlers -> [step : {"idle", "taken", "sent", "done"}, id : Asked \cup {None},
                               kind : Kinds \cup {None}]]
    /\ abort \in [step : {"idle", "next", "taken", "listed", "cancelled", "done"},
                  ids : SUBSET Asked, id : Asked \cup {None}, hit : BOOLEAN]
    /\ token \in BOOLEAN
    /\ run \in {"running", "retired", "cleaned", "ended"}

Repliers(q) ==
    {h \in Handlers : reply[h].step = "taken" /\ reply[h].id = q}
    \cup (IF abort.step = "taken" /\ abort.id = q THEN {"abort"} ELSE {})
    \cup (IF pc[q] = "cancelling" THEN {"tool"} ELSE {})

\* A tool that waits can be replied to: its sender is in the table, and its
\* record is there to be taken or someone has taken it and is about to reply
\* (register_question's order, take_question).
QuestionIsAnswerable ==
    \A q \in Asked :
        pc[q] \in {"waiting", "draining"} /\ channel[q] = None
            => q \in waiters /\ (records[q] # None \/ Repliers(q) # {})

\* What a handler reports as accepted is what the tool is sent, whoever else
\* replies, rejects, cancels or aborts at the same time (answer_question).
AcceptedReplyIsSent ==
    \A h \in Handlers : reply[h].step \in {"sent", "done"} => channel[reply[h].id] = reply[h].kind

\* A run that has ended leaves no question for recovery to count or a client
\* to see, even those whose tool was dropped (finish_scheduler_run: an
\* orphaned record cannot keep recovery running).
EndedRunAsksNothing ==
    run = "ended" => shown = None /\ \A q \in Asked : records[q] = None

\* A question whose tool has its result is not awaited by the ledger, in
\* whatever order replies, aborts and the two seams come.
AnsweredIsNotAwaited == \A q \in Asked : pc[q] = "done" => q \notin ledger.awaiting

\* Aborting the run ends every wait, though no user answers: also the one that
\* registers while the abort lists, and the one whose record a reply has taken.
AbortEndsWaits == token ~> \A q \in Asked : pc[q] \in Over \cup {"new"}

\* The rendezvous of asker and answerer: one can be answered, the other is not
\* lied to (register_question, take_question, answer_question).
QuestionSound == TypeOK /\ QuestionIsAnswerable /\ AcceptedReplyIsSent

\* What is over is asked no more, neither in the registry nor in the ledger.
NothingIsAsked == EndedRunAsksNothing /\ AnsweredIsNotAwaited
=============================================================================
