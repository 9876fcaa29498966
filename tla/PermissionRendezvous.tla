------------------------ MODULE PermissionRendezvous ------------------------
(***************************************************************************)
(* Permission requests of one session: routes/permission.rs over the       *)
(* PermissionEngine, with abort_session_execution and the run they race.   *)
(*                                                                         *)
(* A request (a tool call of the run, or an HTTP handler such as the PTY   *)
(* route) enters the engine's pending table, registers a oneshot sender in *)
(* PERMISSION_WAITERS, shows itself in the runtime state, tells the task   *)
(* ledger that the session waits, and waits.  A reply and an abort each    *)
(* walk over the same four places in their own order; every place has its  *)
(* own lock, so each visit is one action.  A future that is dropped while  *)
(* it waits leaves a spawned task that cleans the four places up.          *)
(***************************************************************************)
EXTENDS LedgerSeams

CONSTANTS
    RunRequests,    \* requests of the run's tool calls: they carry its token
    HttpRequests,   \* requests of HTTP handlers: no token, dropped on disconnect
    Keys, KeyOf,    \* the grant descriptor of a request
    Answers,        \* the answers users give
    Ledgers0,       \* the ledgers the session may start with, by name
    MaxRuns         \* bound on the runs of the session

Requests == RunRequests \cup HttpRequests

ASSUME RequestsAssumption ==
    /\ Interactions = Requests
    /\ RunRequests \cap HttpRequests = {}
    /\ KeyOf \in [Requests -> Keys]
    /\ Answers \subseteq {"once", "turn", "session", "reject"}
    /\ Ledgers0 \subseteq {"none", "goal", "evidenced"}
    /\ MaxRuns \in Nat
    /\ None \notin Requests \cup {"once", "turn", "session", "reject"}

Grants == {"once", "turn", "session"}

Replies == Grants \cup {"reject"}

VARIABLES
    pc,         \* where request_permission_inner is, per request
    pending,    \* PermissionEngine.pending
    waiters,    \* PERMISSION_WAITERS: requests whose sender is in the table
    channel,    \* what has been sent to the request's receiver
    approved,   \* PermissionEngine.approved: keys granted for the session
    turn,       \* PermissionEngine.turn_approved: keys granted for the turn
    shown,      \* runtime state's single pending_permission
    ledger,     \* the session's task ledger
    reply,      \* reply_permission of the request: step, answer, acceptances, turn
    abort,      \* abort_session_execution: step, ids listed, id at hand, hits
    run,        \* the run: idle, starting, running, committing, tail, closing
    cancelled,  \* the run's cancellation token
    runs        \* runs started

engineVars == <<pending, approved, turn>>
runVars == <<run, cancelled, runs>>
vars == <<pc, pending, waiters, channel, approved, turn, shown, ledger, reply, abort,
          run, cancelled, runs>>

Unguarded == {"hook", "pended", "registered", "shown", "announced"}
Guarded == {"waiting", "received"}
Unwinding == {"unwind_waiter", "unwind_pending", "unwind_shown", "unwind_ledger"}
Over == {"allowed", "denied", "granted", "rejected", "dropped", "cancelled"}

Steps == {"new"} \cup Unguarded \cup Guarded \cup Unwinding \cup Over

\* The ledgers a session may have when a request arrives: none, one without
\* evidence, and one whose goal can be completed.
LedgerNamed == [none |-> EmptyLedger, goal |-> Governed,
                evidenced |-> AddCheckpoint(Governed, "Evaluator", {}, 0)]

Init ==
    /\ pc = [r \in Requests |-> "new"]
    /\ pending = {}
    /\ waiters = {}
    /\ channel = [r \in Requests |-> None]
    /\ approved = {}
    /\ turn = {}
    /\ shown = None
    /\ ledger \in {LedgerNamed[n] : n \in Ledgers0}
    /\ reply = [r \in Requests |-> [step |-> "none", answer |-> None, accepted |-> 0, turn |-> 0]]
    /\ abort = [step |-> "idle", ids |-> {}, id |-> None, hit |-> FALSE]
    /\ run = "idle"
    /\ cancelled = FALSE
    /\ runs = 0

-----------------------------------------------------------------------------
(* request_permission_inner *)

Goto(r, step) == pc' = [pc EXCEPT ![r] = step]

\* Variant: the entry survives its removal.
RemovePendingNot(r) == pending' = pending

RemovePending(r) == pending' = pending \ {r}

\* Variant: the turn's grants survive the turn.
ClearTurnNot == turn' = turn

ClearTurn == turn' = {}

Granted(r) == KeyOf[r] \in approved \cup turn

\* Session mode, grants and rules, under the engine lock.  A mode or a rule
\* may allow or deny any request; only an undecided one goes on.
Evaluate(r) ==
    /\ pc[r] = "new"
    /\ r \in RunRequests => run = "running"
    /\ \/ Goto(r, "allowed")
       \/ ~ Granted(r) /\ (Goto(r, "denied") \/ Goto(r, "hook"))
    /\ UNCHANGED <<engineVars, waiters, channel, shown, ledger, reply, abort, runVars>>

\* commit_ask after the plugin hook: a grant that came in meanwhile wins, then
\* the hook's word, then the request is pending.
CommitAsk(r) ==
    /\ pc[r] = "hook"
    /\ \/ Goto(r, "allowed") /\ UNCHANGED pending
       \/ ~ Granted(r) /\ Goto(r, "denied") /\ UNCHANGED pending
       \/ ~ Granted(r) /\ Goto(r, "pended") /\ pending' = pending \cup {r}
    /\ UNCHANGED <<approved, turn, waiters, channel, shown, ledger, reply, abort, runVars>>

Register(r) ==
    /\ pc[r] = "pended"
    /\ waiters' = waiters \cup {r}
    /\ Goto(r, "registered")
    /\ UNCHANGED <<engineVars, channel, shown, ledger, reply, abort, runVars>>

Show(r) ==
    /\ pc[r] = "registered"
    /\ shown' = r
    /\ Goto(r, "shown")
    /\ UNCHANGED <<engineVars, waiters, channel, ledger, reply, abort, runVars>>

Announce(r) ==
    /\ pc[r] = "shown"
    /\ ledger' = Unrevised(InteractionAwaiting(ledger, r))
    /\ Goto(r, "announced")
    /\ UNCHANGED <<engineVars, waiters, channel, shown, reply, abort, runVars>>

\* The guard is built and the future awaits its receiver.
Arm(r) ==
    /\ pc[r] = "announced"
    /\ Goto(r, "waiting")
    /\ UNCHANGED <<engineVars, waiters, channel, shown, ledger, reply, abort, runVars>>

Receive(r) ==
    /\ pc[r] = "waiting"
    /\ channel[r] # None
    /\ waiters' = waiters \ {r}
    /\ Goto(r, "received")
    /\ UNCHANGED <<engineVars, channel, shown, ledger, reply, abort, runVars>>

\* The runtime state is cleared for the session, the guard defused.
Conclude(r) ==
    /\ pc[r] = "received"
    /\ shown' = None
    /\ Goto(r, IF channel[r] \in Grants THEN "granted" ELSE "rejected")
    /\ UNCHANGED <<engineVars, waiters, channel, ledger, reply, abort, runVars>>

\* select! takes the token's branch, even when a reply is there too.
CancelWait(r) ==
    /\ pc[r] = "waiting"
    /\ r \in RunRequests
    /\ cancelled
    /\ Goto(r, "unwind_waiter")
    /\ UNCHANGED <<engineVars, waiters, channel, shown, ledger, reply, abort, runVars>>

\* The future is dropped at an await: the client disconnected, the run's
\* deadline passed, or its clean-up window after a cancellation did.  Only a
\* guarded future leaves a clean-up task.
DropFuture(r) ==
    /\ \/ pc[r] \in Unguarded /\ Goto(r, "dropped")
       \/ pc[r] \in Guarded /\ Goto(r, "unwind_waiter")
    /\ UNCHANGED <<engineVars, waiters, channel, shown, ledger, reply, abort, runVars>>

(* PendingPermissionGuard::drop's task *)

UnwindWaiter(r) ==
    /\ pc[r] = "unwind_waiter"
    /\ waiters' = waiters \ {r}
    /\ Goto(r, "unwind_pending")
    /\ UNCHANGED <<engineVars, channel, shown, ledger, reply, abort, runVars>>

UnwindPending(r) ==
    /\ pc[r] = "unwind_pending"
    /\ RemovePending(r)
    /\ Goto(r, "unwind_shown")
    /\ UNCHANGED <<approved, turn, waiters, channel, shown, ledger, reply, abort, runVars>>

UnwindShown(r) ==
    /\ pc[r] = "unwind_shown"
    /\ shown' = None
    /\ Goto(r, "unwind_ledger")
    /\ UNCHANGED <<engineVars, waiters, channel, ledger, reply, abort, runVars>>

UnwindLedger(r) ==
    /\ pc[r] = "unwind_ledger"
    /\ ledger' = Unrevised(InteractionResolved(ledger, r))
    /\ Goto(r, "cancelled")
    /\ UNCHANGED <<engineVars, waiters, channel, shown, reply, abort, runVars>>

-----------------------------------------------------------------------------
(* reply_permission.  A reply to a request that is not pending is a 404. *)

\* Variants: the grant is stored under the request's id; the entry stays
\* pending after its answer.
RespondStoresId(r, answer) ==
    /\ pending' = pending \ {r}
    /\ approved' = IF answer = "session" THEN approved \cup {r} ELSE approved
    /\ turn' = IF answer = "turn" THEN turn \cup {KeyOf[r]} ELSE turn

RespondKeepsPending(r, answer) ==
    /\ pending' = pending
    /\ approved' = IF answer = "session" THEN approved \cup {KeyOf[r]} ELSE approved
    /\ turn' = IF answer = "turn" THEN turn \cup {KeyOf[r]} ELSE turn

Respond(r, answer) ==
    /\ pending' = pending \ {r}
    /\ approved' = IF answer = "session" THEN approved \cup {KeyOf[r]} ELSE approved
    /\ turn' = IF answer = "turn" THEN turn \cup {KeyOf[r]} ELSE turn

Accept(r, answer) ==
    /\ r \in pending
    /\ Respond(r, answer)
    /\ reply' = [reply EXCEPT ![r] = [step |-> "accepted", answer |-> answer,
                                      accepted |-> @.accepted + 1, turn |-> runs]]
    /\ UNCHANGED <<pc, waiters, channel, shown, ledger, abort, runVars>>

Send(r) ==
    /\ reply[r].step = "accepted"
    /\ channel' = IF r \in waiters THEN [channel EXCEPT ![r] = reply[r].answer] ELSE channel
    /\ waiters' = waiters \ {r}
    /\ reply' = [reply EXCEPT ![r].step = "sent"]
    /\ UNCHANGED <<pc, engineVars, shown, ledger, abort, runVars>>

Retire(r) ==
    /\ reply[r].step = "sent"
    /\ shown' = None
    /\ reply' = [reply EXCEPT ![r].step = "retired"]
    /\ UNCHANGED <<pc, engineVars, waiters, channel, ledger, abort, runVars>>

Resume(r) ==
    /\ reply[r].step = "retired"
    /\ ledger' = Unrevised(InteractionResolved(ledger, r))
    /\ reply' = [reply EXCEPT ![r].step = "done"]
    /\ UNCHANGED <<pc, engineVars, waiters, channel, shown, abort, runVars>>

-----------------------------------------------------------------------------
(* abort_session_execution and cancel_pending_permissions_for_session *)

AbortBegin ==
    /\ abort.step = "idle"
    /\ ClearTurn
    /\ abort' = [abort EXCEPT !.step = "list"]
    /\ UNCHANGED <<pc, pending, approved, waiters, channel, shown, ledger, reply, runVars>>

AbortList ==
    /\ abort.step = "list"
    /\ abort' = [abort EXCEPT !.step = "each", !.ids = pending, !.hit = pending # {}]
    /\ UNCHANGED <<pc, engineVars, waiters, channel, shown, ledger, reply, runVars>>

\* Variant: the waiter is taken out of the table and nothing is sent.
AbortSendSilently ==
    /\ abort.step = "each"
    /\ \E r \in abort.ids :
          /\ waiters' = waiters \ {r}
          /\ abort' = [abort EXCEPT !.step = "remove", !.id = r]
    /\ UNCHANGED <<pc, engineVars, channel, shown, ledger, reply, runVars>>

AbortSend ==
    /\ abort.step = "each"
    /\ \E r \in abort.ids :
          /\ channel' = IF r \in waiters THEN [channel EXCEPT ![r] = "reject"] ELSE channel
          /\ waiters' = waiters \ {r}
          /\ abort' = [abort EXCEPT !.step = "remove", !.id = r]
    /\ UNCHANGED <<pc, engineVars, shown, ledger, reply, runVars>>

AbortRemove ==
    /\ abort.step = "remove"
    /\ RemovePending(abort.id)
    /\ abort' = [abort EXCEPT !.step = "retire"]
    /\ UNCHANGED <<pc, approved, turn, waiters, channel, shown, ledger, reply, runVars>>

AbortRetire ==
    /\ abort.step = "retire"
    /\ shown' = None
    /\ abort' = [abort EXCEPT !.step = "resolve"]
    /\ UNCHANGED <<pc, engineVars, waiters, channel, ledger, reply, runVars>>

AbortResolve ==
    /\ abort.step = "resolve"
    /\ ledger' = Unrevised(InteractionResolved(ledger, abort.id))
    /\ abort' = [abort EXCEPT !.step = "each", !.ids = @ \ {abort.id}, !.id = None]
    /\ UNCHANGED <<pc, engineVars, waiters, channel, shown, reply, runVars>>

\* The run's token is registered with the scheduler once the run has started;
\* before that only a run that reserved the session has one to cancel, yet the
\* prompt run counts as aborted.
AbortToken ==
    /\ abort.step = "each"
    /\ abort.ids = {}
    /\ \/ run = "idle" /\ UNCHANGED cancelled
       \/ run = "starting" /\ cancelled' \in {cancelled, TRUE}
       \/ run \notin {"idle", "starting"} /\ cancelled' = TRUE
    /\ abort' = [abort EXCEPT !.step = IF abort.hit \/ run # "idle" THEN "interrupt" ELSE "idle",
                              !.hit = FALSE]
    /\ UNCHANGED <<pc, engineVars, waiters, channel, shown, ledger, reply, run, runs>>

AbortInterrupt ==
    /\ abort.step = "interrupt"
    /\ ledger' = Unrevised(RecoveryInterrupted(ledger))
    /\ abort' = [abort EXCEPT !.step = "idle"]
    /\ UNCHANGED <<pc, engineVars, waiters, channel, shown, reply, runVars>>

-----------------------------------------------------------------------------
(* The run the tool calls belong to *)

BeginRun ==
    /\ run = "idle"
    /\ runs < MaxRuns
    /\ ClearTurn
    /\ run' = "starting"
    /\ runs' = runs + 1
    /\ cancelled' = FALSE
    /\ UNCHANGED <<pc, pending, approved, waiters, channel, shown, ledger, reply, abort>>

StartLedgerRun ==
    /\ run = "starting"
    /\ ledger' = Unrevised(RunStarted(ledger))
    /\ run' = "running"
    /\ UNCHANGED <<pc, engineVars, waiters, channel, shown, reply, abort, cancelled, runs>>

\* Variant: the loop's end waits until the pending table is empty.
FinishLoopWaits ==
    /\ run = "running"
    /\ pending = {}
    /\ \A r \in RunRequests : pc[r] \in {"new"} \cup Unwinding \cup Over
    /\ run' = IF cancelled THEN "tail" ELSE "committing"
    /\ UNCHANGED <<pc, engineVars, waiters, channel, shown, ledger, reply, abort, cancelled, runs>>

\* The agent loop has returned: no tool future is left.  The token is read
\* before the response is committed.
FinishLoop ==
    /\ run = "running"
    /\ \A r \in RunRequests : pc[r] \in {"new"} \cup Unwinding \cup Over
    /\ run' = IF cancelled THEN "tail" ELSE "committing"
    /\ UNCHANGED <<pc, engineVars, waiters, channel, shown, ledger, reply, abort, cancelled, runs>>

CommitFinal ==
    /\ run = "committing"
    /\ ledger' = Unrevised(FinalResponseCommitted(ledger))
    /\ run' = "tail"
    /\ UNCHANGED <<pc, engineVars, waiters, channel, shown, reply, abort, cancelled, runs>>

\* Variant: a cancelled run leaves the ledger to the abort.
RunTailNoInterrupt ==
    /\ run = "tail"
    /\ run' = "closing"
    /\ UNCHANGED <<pc, engineVars, waiters, channel, shown, ledger, reply, abort, cancelled, runs>>

RunTail ==
    /\ run = "tail"
    /\ ledger' = IF cancelled THEN Unrevised(RecoveryInterrupted(ledger)) ELSE ledger
    /\ run' = "closing"
    /\ UNCHANGED <<pc, engineVars, waiters, channel, shown, reply, abort, cancelled, runs>>

\* mark_idle clears the session's transient runtime state.
CloseRun ==
    /\ run = "closing"
    /\ run' = "idle"
    /\ shown' = None
    /\ UNCHANGED <<pc, engineVars, waiters, channel, ledger, reply, abort, cancelled, runs>>

-----------------------------------------------------------------------------
\* What a request's future, its clean-up task and a reply handler do by themselves.
RequestStep(r) ==
    \/ Evaluate(r) \/ CommitAsk(r) \/ Register(r) \/ Show(r) \/ Announce(r) \/ Arm(r)
    \/ Receive(r) \/ Conclude(r) \/ CancelWait(r)
    \/ UnwindWaiter(r) \/ UnwindPending(r) \/ UnwindShown(r) \/ UnwindLedger(r)

ReplyStep(r) == Send(r) \/ Retire(r) \/ Resume(r)

AbortStep ==
    \/ AbortList \/ AbortSend \/ AbortRemove \/ AbortRetire \/ AbortResolve
    \/ AbortToken \/ AbortInterrupt

RunStep == StartLedgerRun \/ FinishLoop \/ CommitFinal \/ RunTail \/ CloseRun

Next ==
    \/ \E r \in Requests :
          \/ RequestStep(r)
          \/ DropFuture(r)
          \/ ReplyStep(r)
          \/ \E a \in Answers : Accept(r, a)
    \/ AbortBegin
    \/ AbortStep
    \/ BeginRun
    \/ RunStep

Spec == Init /\ [][Next]_vars

\* Spawned tasks make progress: the run, and the requests of its tool calls; a
\* request of a cancelled run that does not (its plugin hook hangs) is dropped
\* when the clean-up window closes.  The handlers of a reply and of an abort may
\* be dropped with their connection, so they, like users, need not go on.
CleanUpWindow(r) == cancelled /\ DropFuture(r)

Fairness ==
    /\ \A r \in RunRequests : WF_vars(RequestStep(r) \/ CleanUpWindow(r))
    /\ WF_vars(RunStep)

FairSpec == Spec /\ Fairness

-----------------------------------------------------------------------------
(* Properties *)

\* Every variable holds a value of its type.
TypeOK ==
    /\ pc \in [Requests -> Steps]
    /\ pending \subseteq Requests
    /\ waiters \subseteq Requests
    /\ channel \in [Requests -> Replies \cup {None}]
    /\ approved \subseteq Keys
    /\ turn \subseteq Keys
    /\ shown \in Requests \cup {None}
    /\ ledger \in Ledgers
    /\ reply \in [Requests -> [step : {"none", "accepted", "sent", "retired", "done"},
                               answer : Replies \cup {None}, accepted : Nat, turn : 0..MaxRuns]]
    /\ abort \in [step : {"idle", "list", "each", "remove", "retire", "resolve", "interrupt"},
                  ids : SUBSET Requests, id : Requests \cup {None}, hit : BOOLEAN]
    /\ run \in {"idle", "starting", "running", "committing", "tail", "closing"}
    /\ cancelled \in BOOLEAN
    /\ runs \in 0..MaxRuns

\* A request is answered at most once, whoever races (two frontends, a reply
\* and an abort), and a tool that had to ask runs only on that one answer.
AnsweredOnce ==
    \A r \in Requests :
        /\ reply[r].accepted <= 1
        /\ pc[r] = "granted" => reply[r].answer \in Grants

\* A session grant is in force only if a request with that descriptor was
\* answered with it, a turn grant only if it was in this very turn: no order of
\* replies, aborts and run starts carries it into the next one.
GrantsWereAnswered ==
    /\ \A k \in approved : \E r \in Requests : KeyOf[r] = k /\ reply[r].answer = "session"
    /\ \A k \in turn : \E r \in Requests :
          KeyOf[r] = k /\ reply[r].answer = "turn" /\ reply[r].turn = runs

\* A future that waits has a sender in the table or an answer in its channel:
\* recv never fails, the "response channel closed" branch is dead code.
WaitHasSender ==
    \A r \in Requests : pc[r] = "waiting" => r \in waiters \/ channel[r] # None

\* A cancelled wait is gone from the engine, the waiter table and the ledger,
\* whatever reply or abort ran at the same time.
CancelledLeavesNothing ==
    \A r \in Requests : pc[r] = "cancelled" =>
        r \notin pending \cup waiters \cup ledger.awaiting

\* Once a cancelled run is over and the abort has settled, the ledger waits for
\* none of its requests: the interrupt of the run tail catches the waits
\* announced after the interrupt of the abort.
StoppedRunAwaitsNothing ==
    run = "idle" /\ cancelled /\ abort.step # "interrupt" =>
        ledger.awaiting \cap RunRequests = {}

\* A cancelled run ends, even when a request of it entered the pending table
\* after the abort had listed it: the token reaches those the list missed.
CancelledRunEnds == (cancelled /\ run # "idle") ~> (run = "idle")

\* Requests and grants: one answer for each request, and no grant without one
\* (reply_permission, the permission engine's tables).
PermissionSound == TypeOK /\ AnsweredOnce /\ GrantsWereAnswered

\* What is over is gone from every table: a cancelled wait at once, the waits
\* of a cancelled run when it has ended (PendingPermissionGuard, cancel_pending_permissions_for_session).
NothingIsLeft == CancelledLeavesNothing /\ StoppedRunAwaitsNothing
=============================================================================
