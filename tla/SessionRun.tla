----------------------------- MODULE SessionRun -----------------------------
(***************************************************************************)
(* The prompt lifecycle of one session: session_prompt_inner (routes/      *)
(* session/prompt.rs), abort_session_execution (cancel.rs), the run        *)
(* reservation of SessionPrompt and the scheduler token registry.          *)
(*                                                                         *)
(* A prompt passes the ingress checks, may be queued behind a reserved     *)
(* run, and is then executed by a spawned task that works on a copy of the *)
(* session record and writes the whole copy back three times.  The task    *)
(* ledger and the auto-continuation marker live in that record.  At its    *)
(* end a run verifies and commits the ledger, decides whether the goal     *)
(* needs another round, retires its token and its reservation and adopts a *)
(* queued prompt or its own continuation.  Each await ends an action.      *)
(*                                                                         *)
(* Pending permissions and questions are PermissionRendezvous's, the       *)
(* batching of web prompts and the stall detector are left to their own    *)
(* modules: here a web prompt leads its batch, and the detector may at any *)
(* time replan or block.                                                   *)
(***************************************************************************)
EXTENDS LedgerSeams

CONSTANTS
    Slots,              \* prompts in flight at a time
    Kinds,              \* the prompts users submit: "plain", "goal", "web"
    StagnationLimit,    \* AUTO_CONTINUATION_STAGNATION_LIMIT
    InputErrors,        \* scheduler inputs may be rejected
    Disconnects,        \* HTTP clients may go away
    MaxPrompts, MaxAborts, MaxFacts, MaxOps, \* bounds
    Leaked              \* a reservation whose handler is gone

Fingerprints == [generation : Nat, status : Statuses, blocked : BOOLEAN,
                 next : Statements \cup {None}, open : SUBSET Nat, checkpoints : SUBSET Nat]

Markers == [generation : Nat, fingerprint : Fingerprints, stagnant : 0..(StagnationLimit - 1)]

ASSUME SessionAssumption ==
    /\ Kinds \subseteq {"plain", "goal", "web"}
    /\ StagnationLimit \in Nat \ {0}
    /\ InputErrors \in BOOLEAN /\ Disconnects \in BOOLEAN
    /\ MaxPrompts \in Nat /\ MaxAborts \in Nat /\ MaxFacts \in Nat /\ MaxOps \in Nat
    /\ IsFiniteSet(Criteria) /\ {"DeterministicCheck", "UserConfirmation"} \subseteq Verifiers
    /\ None \notin Markers
    /\ None \notin Slots /\ Leaked \notin Slots /\ Leaked # None

VARIABLES
    session,    \* the session record: ledger and auto-continuation marker
    run,        \* per slot: the prompt's step, its request, token and copies
    holder,     \* SessionPrompt.state: whose reservation the session has
    token,      \* scheduler_tokens: whose token is registered
    busy,       \* the prompt execution record is not done
    followups,  \* queued_followups
    abort,      \* abort_session_execution
    calm,       \* no abort, input error, disconnect or ledger API call so far
    prompts, aborts, facts, ops

bounds == <<prompts, aborts, facts, ops>>
vars == <<session, run, holder, token, busy, followups, abort, calm, bounds>>

PlainGoal == [criteria |-> {}, checks |-> {}]

\* The marker: goal generation, fingerprint and rounds without progress.
Fingerprint(L) ==
    [generation |-> L.goal_generation, status |-> L.status, blocked |-> L.blocked_reason,
     next |-> IF L.next = None THEN None ELSE L.next.statement,
     open |-> {L.open[i].id : i \in OpenQuestions(L)},
     checkpoints |-> {L.verified[i].id : i \in CurrentCheckpoints(L)}]

NoSession == [ledger |-> EmptyLedger, marker |-> None]

NoRun == [step |-> "none", kind |-> None, generation |-> 0, adopted |-> FALSE,
          reserved |-> FALSE, copy |-> NoSession, cancelled |-> FALSE, armed |-> 0,
          scope |-> 0, revision |-> 0]

Ingress == {"validate", "reserve", "insert", "check", "enqueue", "goal", "clear"}

Init ==
    /\ session = NoSession
    /\ run = [r \in Slots |-> NoRun]
    /\ holder = None
    /\ token = None
    /\ busy = FALSE
    /\ followups = <<>>
    /\ abort = [step |-> "idle", hit |-> FALSE, live |-> {}, lost |-> FALSE]
    /\ calm = TRUE
    /\ prompts = 0
    /\ aborts = 0
    /\ facts = 0
    /\ ops = 0

-----------------------------------------------------------------------------
(* Ingress *)

Goto(r, step) == run' = [run EXCEPT ![r].step = step]

At(r, step) == run[r].step = step

FirstStep(kind) ==
    CASE kind = "auto" -> "validate" [] kind = "web" -> "reserve" [] OTHER -> "check"

\* A request begins to run in a slot of its own, or in the one of the run that
\* adopts it.
Requested(kind, generation, adopted) ==
    [NoRun EXCEPT !.step = FirstStep(kind), !.kind = kind, !.generation = generation,
                  !.adopted = adopted]

Submit(r, kind) ==
    /\ At(r, "none")
    /\ prompts < MaxPrompts
    /\ prompts' = prompts + 1
    /\ run' = [run EXCEPT ![r] = Requested(kind, 0, FALSE)]
    /\ UNCHANGED <<session, holder, token, busy, followups, abort, calm, aborts, facts, ops>>

\* A synthetic request must still match goal, status, next and marker.
ValidateAuto(r) ==
    /\ At(r, "validate")
    /\ run' = [run EXCEPT ![r] =
          IF /\ session.ledger.goal_generation = @.generation
             /\ session.ledger.status = "Active"
             /\ session.ledger.next # None
             /\ session.marker # None
             /\ session.marker.generation = @.generation
          THEN [@ EXCEPT !.step = "reserve"]
          ELSE NoRun]
    /\ UNCHANGED <<session, holder, token, busy, followups, abort, calm, bounds>>

\* reserve_session_run, first half: a web prompt that finds the session taken is
\* refused, a synthetic one goes on to the busy check without a reservation.
ReserveCheck(r) ==
    /\ At(r, "reserve")
    /\ run' = [run EXCEPT ![r] = CASE holder = None -> [@ EXCEPT !.step = "insert"]
                                   [] holder # None /\ @.kind = "auto" -> [@ EXCEPT !.step = "check"]
                                   [] OTHER -> NoRun]
    /\ UNCHANGED <<session, holder, token, busy, followups, abort, calm, bounds>>

\* Second half, under the lock again but without a second check.
ReserveInsert(r) ==
    /\ At(r, "insert")
    /\ holder' = r
    /\ run' = [run EXCEPT ![r].step = "clear", ![r].reserved = TRUE]
    /\ UNCHANGED <<session, token, busy, followups, abort, calm, bounds>>

BusyCheck(r) ==
    /\ At(r, "check")
    /\ Goto(r, CASE holder # None -> "enqueue"
                 [] holder = None /\ run[r].kind = "goal" -> "goal"
                 [] OTHER -> "clear")
    /\ UNCHANGED <<session, holder, token, busy, followups, abort, calm, bounds>>

Enqueue(r) ==
    /\ At(r, "enqueue")
    /\ followups' = Append(followups, [kind |-> run[r].kind, generation |-> run[r].generation])
    /\ run' = [run EXCEPT ![r] = NoRun]
    /\ UNCHANGED <<session, holder, token, busy, abort, calm, bounds>>

\* start_task_goal; it refuses while an interaction is unresolved.
StartTaskGoal(r) ==
    /\ At(r, "goal")
    /\ IF session.ledger.awaiting = {}
       THEN /\ \E s \in Statements :
                  session' = [ledger |-> Bump(StartGoal(session.ledger, PlainGoal, s)),
                              marker |-> None]
            /\ Goto(r, "clear")
       ELSE run' = [run EXCEPT ![r] = NoRun] /\ UNCHANGED session
    /\ UNCHANGED <<holder, token, busy, followups, abort, calm, bounds>>

\* Variant: a synthetic request clears the marker too.
ClearMarkerAlways(r) ==
    /\ At(r, "clear")
    /\ session' = [session EXCEPT !.marker = None]
    /\ Goto(r, "clone")
    /\ UNCHANGED <<holder, token, busy, followups, abort, calm, bounds>>

ClearMarker(r) ==
    /\ At(r, "clear")
    /\ session' = IF run[r].kind = "auto" THEN session ELSE [session EXCEPT !.marker = None]
    /\ Goto(r, "clone")
    /\ UNCHANGED <<holder, token, busy, followups, abort, calm, bounds>>

\* The handler's future is dropped with its connection; a reservation it made is
\* nobody's.
Disconnect(r) ==
    /\ Disconnects
    /\ run[r].step \in Ingress
    /\ ~ run[r].adopted
    /\ holder' = IF run[r].reserved /\ holder = r THEN Leaked ELSE holder
    /\ run' = [run EXCEPT ![r] = NoRun]
    /\ calm' = FALSE
    /\ UNCHANGED <<session, token, busy, followups, abort, bounds>>

-----------------------------------------------------------------------------
(* The spawned task, up to the scheduler *)

CloneSession(r) ==
    /\ At(r, "clone")
    /\ run' = [run EXCEPT ![r].copy = session, ![r].step = "busy"]
    /\ UNCHANGED <<session, holder, token, busy, followups, abort, calm, bounds>>

SetBusy(r) ==
    /\ At(r, "busy")
    /\ busy' = TRUE
    /\ Goto(r, "input")
    /\ UNCHANGED <<session, holder, token, followups, abort, calm, bounds>>

\* Variant: the rejected input keeps its reservation.
InputErrorKeeps(r) ==
    /\ InputErrors
    /\ At(r, "input")
    /\ session' = run[r].copy
    /\ Goto(r, "guard")
    /\ calm' = FALSE
    /\ UNCHANGED <<holder, token, busy, followups, abort, bounds>>

InputError(r) ==
    /\ InputErrors
    /\ At(r, "input")
    /\ session' = run[r].copy
    /\ Goto(r, IF run[r].reserved THEN "give_up" ELSE "guard")
    /\ calm' = FALSE
    /\ UNCHANGED <<holder, token, busy, followups, abort, bounds>>

GiveUpReservation(r) ==
    /\ At(r, "give_up")
    /\ holder' = None
    /\ Goto(r, "guard")
    /\ UNCHANGED <<session, token, busy, followups, abort, calm, bounds>>

\* IdleGuard::drop's task.
GuardIdle(r) ==
    /\ At(r, "guard")
    /\ busy' = FALSE
    /\ run' = [run EXCEPT ![r] = NoRun]
    /\ UNCHANGED <<session, holder, token, followups, abort, calm, bounds>>

\* commit_scheduler_input_and_start_ledger_run: write, seam, read back.
CommitInput(r) ==
    /\ At(r, "input")
    /\ session' = run[r].copy
    /\ Goto(r, "seam")
    /\ UNCHANGED <<holder, token, busy, followups, abort, calm, bounds>>

StartLedgerRun(r) ==
    /\ At(r, "seam")
    /\ session' = [session EXCEPT !.ledger = RunStarted(@)]
    /\ Goto(r, "fetch")
    /\ UNCHANGED <<holder, token, busy, followups, abort, calm, bounds>>

FetchSession(r) ==
    /\ At(r, "fetch")
    /\ run' = [run EXCEPT ![r].copy = session, ![r].step = "assistant"]
    /\ UNCHANGED <<session, holder, token, busy, followups, abort, calm, bounds>>

AddAssistant(r) ==
    /\ At(r, "assistant")
    /\ session' = run[r].copy
    /\ Goto(r, "register")
    /\ UNCHANGED <<holder, token, busy, followups, abort, calm, bounds>>

\* register_scheduler_run, and the evaluator scope run_scheduler reads first.
RegisterRun(r) ==
    /\ At(r, "register")
    /\ token' = r
    /\ run' = [run EXCEPT ![r].step = "running", ![r].scope = session.ledger.goal_generation]
    /\ UNCHANGED <<session, holder, busy, followups, abort, calm, bounds>>

\* What the scheduler run does to the ledger: an evaluator gate passes, or the
\* stall detector, unless cancelled, replaces the next action or blocks.
RunFact(r) ==
    /\ At(r, "running")
    /\ facts < MaxFacts
    /\ facts' = facts + 1
    /\ \E L \in {EvaluatorGateCompleted(session.ledger, run[r].scope)} \cup
                (IF run[r].cancelled THEN {} ELSE
                   {Dispatch(session.ledger, SetNextOk(session.ledger), SetNext(session.ledger, s)) :
                        s \in Statements} \cup
                   {Dispatch(session.ledger, SetBlockedOk(session.ledger), SetBlocked(session.ledger))}) :
          /\ L # session.ledger
          /\ session' = [session EXCEPT !.ledger = L]
    /\ UNCHANGED <<run, holder, token, busy, followups, abort, calm, prompts, aborts, ops>>

-----------------------------------------------------------------------------
(* The task, from the scheduler's return on *)

SchedulerReturns(r) ==
    /\ At(r, "running")
    /\ run' = [run EXCEPT ![r].copy = session, ![r].step = "review"]
    /\ UNCHANGED <<session, holder, token, busy, followups, abort, calm, bounds>>

\* The copy, read before review, title and telemetry were awaited, replaces the
\* session record.
UpdateSession(r) ==
    /\ At(r, "review")
    /\ session' = run[r].copy
    /\ run' = [run EXCEPT ![r].copy = NoSession, ![r].step = "verify"]
    /\ UNCHANGED <<holder, token, busy, followups, abort, calm, bounds>>

NothingToVerify(L) == L.goal = None \/ L.goal.checks = {} \/ L.status = "Completed"

VerifyBegin(r) ==
    /\ At(r, "verify")
    /\ LET L == session.ledger
       IN  run' = [run EXCEPT ![r] =
              IF @.cancelled THEN [@ EXCEPT !.step = "tail"]
              ELSE IF NothingToVerify(L) THEN [@ EXCEPT !.step = "final"]
              ELSE [@ EXCEPT !.step = "checking", !.revision = L.revision]]
    /\ UNCHANGED <<session, holder, token, busy, followups, abort, calm, bounds>>

\* One checkpoint for each bound criterion, in one transaction.
CheckedCriteria(L) ==
    LET order == SetToSeq(L.goal.checks)
        first == NewCheckpoint(L, "DeterministicCheck", {}, 0)
        new   == [k \in DOMAIN order |-> [first EXCEPT !.id = @ + k - 1, !.covered = {order[k]}]]
    IN  [L EXCEPT !.verified = @ \o new]

\* The checks fail, or the run is cancelled, or they pass and commit if the
\* ledger is still the one they were read from.
VerifyEnd(r) ==
    /\ At(r, "checking")
    /\ \/ /\ run' = [run EXCEPT ![r].step = "tail", ![r].revision = 0]
          /\ UNCHANGED session
       \/ /\ ~ run[r].cancelled
          /\ session.ledger.revision = run[r].revision
          /\ session' = [session EXCEPT !.ledger = Bump(CheckedCriteria(@))]
          /\ run' = [run EXCEPT ![r].step = "final", ![r].revision = 0]
    /\ UNCHANGED <<holder, token, busy, followups, abort, calm, bounds>>

\* The token is read here and the response committed after it.
FinalCheck(r) ==
    /\ At(r, "final")
    /\ Goto(r, IF run[r].cancelled THEN "tail" ELSE "settle")
    /\ UNCHANGED <<session, holder, token, busy, followups, abort, calm, bounds>>

CommitFinal(r) ==
    /\ At(r, "settle")
    /\ session' = [session EXCEPT !.ledger = FinalResponseCommitted(@)]
    /\ Goto(r, "tail")
    /\ UNCHANGED <<holder, token, busy, followups, abort, calm, bounds>>

\* Variant: a cancelled run leaves the ledger to the abort.
RunTailSilent(r) ==
    /\ At(r, "tail")
    /\ Goto(r, "prepare")
    /\ UNCHANGED <<session, holder, token, busy, followups, abort, calm, bounds>>

RunTail(r) ==
    /\ At(r, "tail")
    /\ session' = IF run[r].cancelled
                  THEN [session EXCEPT !.ledger = RecoveryInterrupted(@)] ELSE session
    /\ Goto(r, "prepare")
    /\ UNCHANGED <<holder, token, busy, followups, abort, calm, bounds>>

PrepareCheck(r) ==
    /\ At(r, "prepare")
    /\ Goto(r, IF run[r].cancelled THEN "finish" ELSE "plan")
    /\ UNCHANGED <<session, holder, token, busy, followups, abort, calm, bounds>>

\* plan_task_ledger_auto_continuation
MayContinue(L) == L.goal # None /\ L.status = "Active" /\ L.next # None

Stagnant(marker, L) ==
    IF /\ marker # None
       /\ marker.generation = L.goal_generation
       /\ marker.fingerprint = Fingerprint(L)
    THEN marker.stagnant + 1 ELSE 0

NextMarker(marker, L) ==
    [generation |-> L.goal_generation, fingerprint |-> Fingerprint(L),
     stagnant |-> Stagnant(marker, L)]

\* Variant: one round too many.
ExhaustedLate(marker, L) == Stagnant(marker, L) > StagnationLimit

Exhausted(marker, L) == Stagnant(marker, L) >= StagnationLimit

\* A stop forgets the marker, except while the user is awaited or there is no
\* next action.
KeepsMarker(L) == L.goal # None /\ L.status \in {"AwaitingUser", "Active"}

PlanContinuation(r) ==
    /\ At(r, "plan")
    /\ LET L == session.ledger
           m == session.marker
       IN  \/ /\ MayContinue(L) /\ ~ Exhausted(m, L)
              /\ session' = [session EXCEPT !.marker = NextMarker(m, L)]
              /\ run' = [run EXCEPT ![r].step = "finish", ![r].armed = L.goal_generation]
           \/ /\ MayContinue(L) /\ Exhausted(m, L)
              /\ session' = [session EXCEPT !.marker = None]
              /\ run' = [run EXCEPT ![r].step = "block", ![r].revision = L.revision]
           \/ /\ ~ MayContinue(L)
              /\ session' = IF KeepsMarker(L) THEN session ELSE [session EXCEPT !.marker = None]
              /\ Goto(r, "finish")
    /\ UNCHANGED <<holder, token, busy, followups, abort, calm, bounds>>

\* SetStatus(Blocked) against the revision of the plan; a conflict is logged.
BlockStagnant(r) ==
    /\ At(r, "block")
    /\ session' = [session EXCEPT !.ledger =
          IF @.revision = run[r].revision /\ SetBlockedOk(@) THEN Bump(SetBlocked(@)) ELSE @]
    /\ run' = [run EXCEPT ![r].step = "finish", ![r].revision = 0]
    /\ UNCHANGED <<holder, token, busy, followups, abort, calm, bounds>>

\* finish_scheduler_run takes the session's token out, whoever registered it.
FinishRun(r) ==
    /\ At(r, "finish")
    /\ token' = None
    /\ Goto(r, "release")
    /\ UNCHANGED <<session, holder, busy, followups, abort, calm, bounds>>

\* release_reserved_session_run takes the reservation out, whoever made it.
ReleaseRun(r) ==
    /\ At(r, "release")
    /\ holder' = IF run[r].reserved THEN None ELSE holder
    /\ Goto(r, "idle")
    /\ UNCHANGED <<session, token, busy, followups, abort, calm, bounds>>

SetIdle(r) ==
    /\ At(r, "idle")
    /\ busy' = FALSE
    /\ Goto(r, "adopt")
    /\ UNCHANGED <<session, holder, token, followups, abort, calm, bounds>>

\* take_followup_prompt: the first prompt of a human, else the first one.
Preferred ==
    LET human == {i \in DOMAIN followups : followups[i].kind # "auto"}
    IN  IF human = {} THEN 1 ELSE CHOOSE i \in human : \A j \in human : i <= j

TakeFollowup(r) ==
    /\ run' = [run EXCEPT ![r] = Requested(followups[Preferred].kind,
                                           followups[Preferred].generation, TRUE)]
    /\ followups' = RemoveAt(followups, Preferred)

\* Variant: an empty queue ends the task, whatever the plan was.
AdoptForgets(r) ==
    /\ At(r, "adopt")
    /\ IF ~ run[r].cancelled /\ followups # <<>> THEN TakeFollowup(r)
       ELSE run' = [run EXCEPT ![r] = NoRun] /\ UNCHANGED followups
    /\ UNCHANGED <<session, holder, token, busy, abort, calm, bounds>>

\* A run that was not cancelled adopts a queued prompt, else queues its own
\* continuation.
Adopt(r) ==
    /\ At(r, "adopt")
    /\ IF ~ run[r].cancelled /\ followups # <<>> THEN TakeFollowup(r)
       ELSE /\ run' = [run EXCEPT ![r] = IF ~ @.cancelled /\ @.armed # 0
                                         THEN [@ EXCEPT !.step = "queue"] ELSE NoRun]
            /\ UNCHANGED followups
    /\ UNCHANGED <<session, holder, token, busy, abort, calm, bounds>>

QueueContinuation(r) ==
    /\ At(r, "queue")
    /\ followups' = Append(followups, [kind |-> "auto", generation |-> run[r].armed])
    /\ Goto(r, "take")
    /\ UNCHANGED <<session, holder, token, busy, abort, calm, bounds>>

TakeQueued(r) ==
    /\ At(r, "take")
    /\ IF followups # <<>> THEN TakeFollowup(r)
       ELSE run' = [run EXCEPT ![r] = NoRun] /\ UNCHANGED followups
    /\ UNCHANGED <<session, holder, token, busy, abort, calm, bounds>>

-----------------------------------------------------------------------------
(* abort_session_execution *)

\* The stretch of a run in which it could still be stopped.
Executing(r) ==
    run[r].reserved \/ run[r].step \in {"input", "seam", "fetch", "assistant", "register", "running"}

\* Follow-ups are dropped.  live notes which runs the stop is meant for, lost that
\* the handler of an abort was dropped and none has reported a hit since.
AbortDrain ==
    /\ abort.step = "idle"
    /\ aborts < MaxAborts
    /\ aborts' = aborts + 1
    /\ calm' = FALSE
    /\ abort' = [abort EXCEPT !.step = "marker", !.hit = followups # <<>>,
                              !.live = {r \in Slots : Executing(r)}]
    /\ followups' = <<>>
    /\ UNCHANGED <<session, run, holder, token, busy, prompts, facts, ops>>

AbortMarker ==
    /\ abort.step = "marker"
    /\ session' = [session EXCEPT !.marker = None]
    /\ abort' = [abort EXCEPT !.step = "token", !.hit = @ \/ session.marker # None]
    /\ UNCHANGED <<run, holder, token, busy, followups, calm, bounds>>

\* request_scheduler_cancel
AbortToken ==
    /\ abort.step = "token"
    /\ run' = IF token = None THEN run ELSE [run EXCEPT ![token].cancelled = TRUE]
    /\ abort' = [abort EXCEPT !.step = "prompt", !.hit = @ \/ token # None]
    /\ UNCHANGED <<session, holder, token, busy, followups, calm, bounds>>

\* has_prompt_run
AbortPrompt ==
    /\ abort.step = "prompt"
    /\ abort' = [abort EXCEPT !.step = IF busy THEN "runner" ELSE "report", !.hit = @ \/ busy]
    /\ UNCHANGED <<session, run, holder, token, busy, followups, calm, bounds>>

\* SessionPrompt::cancel cancels and removes the reservation.
AbortRunner ==
    /\ abort.step = "runner"
    /\ run' = IF holder \in Slots THEN [run EXCEPT ![holder].cancelled = TRUE] ELSE run
    /\ holder' = None
    /\ abort' = [abort EXCEPT !.step = "report"]
    /\ UNCHANGED <<session, token, busy, followups, calm, bounds>>

AbortReport ==
    /\ abort.step = "report"
    /\ session' = IF abort.hit THEN [session EXCEPT !.ledger = RecoveryInterrupted(@)] ELSE session
    /\ abort' = [step |-> "idle", hit |-> FALSE, live |-> {}, lost |-> abort.lost /\ ~ abort.hit]
    /\ UNCHANGED <<run, holder, token, busy, followups, calm, bounds>>

\* The handler is dropped with its connection, whatever it still had to do.
AbortDisconnect ==
    /\ Disconnects
    /\ abort.step # "idle"
    /\ abort' = [step |-> "idle", hit |-> FALSE, live |-> {}, lost |-> TRUE]
    /\ UNCHANGED <<session, run, holder, token, busy, followups, calm, bounds>>

-----------------------------------------------------------------------------
\* apply_task_ledger_op of the ledger API, with the revision it expects.
UserOps(L) ==
    {SetNext(L, s) : s \in {s \in Statements : SetNextOk(L)}}
    \cup (IF AddCheckpointOk(L, {}, 0) THEN {AddCheckpoint(L, "UserConfirmation", {}, 0)} ELSE {})
    \cup {SetGoal(L, g) : g \in {g \in Goals : SetGoalOk(L, g) /\ g # PlainGoal}}

UserOp ==
    /\ ops < MaxOps
    /\ ops' = ops + 1
    /\ \E M \in UserOps(session.ledger) :
          /\ ValidateSnapshot(M)
          /\ session' = [session EXCEPT !.ledger = Bump(M)]
    /\ calm' = FALSE
    /\ UNCHANGED <<run, holder, token, busy, followups, abort, prompts, aborts, facts>>

-----------------------------------------------------------------------------
RunStep(r) ==
    \/ ValidateAuto(r) \/ ReserveCheck(r) \/ ReserveInsert(r) \/ BusyCheck(r) \/ Enqueue(r)
    \/ StartTaskGoal(r) \/ ClearMarker(r) \/ CloneSession(r) \/ SetBusy(r)
    \/ InputError(r) \/ GiveUpReservation(r) \/ GuardIdle(r)
    \/ CommitInput(r) \/ StartLedgerRun(r) \/ FetchSession(r) \/ AddAssistant(r)
    \/ RegisterRun(r) \/ SchedulerReturns(r) \/ UpdateSession(r) \/ VerifyBegin(r) \/ VerifyEnd(r)
    \/ FinalCheck(r) \/ CommitFinal(r) \/ RunTail(r) \/ PrepareCheck(r)
    \/ PlanContinuation(r) \/ BlockStagnant(r) \/ FinishRun(r) \/ ReleaseRun(r) \/ SetIdle(r)
    \/ Adopt(r) \/ QueueContinuation(r) \/ TakeQueued(r)

AbortStep == AbortMarker \/ AbortToken \/ AbortPrompt \/ AbortRunner \/ AbortReport

Next ==
    \/ \E r \in Slots : RunStep(r) \/ RunFact(r) \/ Disconnect(r)
    \/ \E r \in Slots, k \in Kinds : Submit(r, k)
    \/ AbortDrain \/ AbortStep \/ AbortDisconnect
    \/ UserOp

Spec == Init /\ [][Next]_vars

\* The tasks make progress, and a scheduler run returns: its step, token and
\* wall-time budgets see to that.
FairSpec == Spec /\ \A r \in Slots : WF_vars(RunStep(r))

-----------------------------------------------------------------------------
(* Properties *)

RunSteps ==
    Ingress \cup
    {"none", "clone", "busy", "input", "give_up", "guard", "seam", "fetch", "assistant",
     "register", "running", "review", "verify", "checking", "final", "settle", "tail",
     "prepare", "plan", "block", "finish", "release", "idle", "adopt", "queue", "take"}

SessionRecords == [ledger : Ledgers, marker : Markers \cup {None}]

Runs == [step : RunSteps, kind : Kinds \cup {"auto", None}, generation : Nat, adopted : BOOLEAN,
         reserved : BOOLEAN, copy : SessionRecords, cancelled : BOOLEAN, armed : Nat,
         scope : Nat, revision : Nat]

\* Every variable holds a value of its type: a marker has not reached the
\* stagnation limit, and no web prompt is queued.
TypeOK ==
    /\ session \in SessionRecords
    /\ run \in [Slots -> Runs]
    /\ holder \in Slots \cup {None, Leaked}
    /\ token \in Slots \cup {None}
    /\ busy \in BOOLEAN
    /\ followups \in Seq([kind : (Kinds \ {"web"}) \cup {"auto"}, generation : Nat])
    /\ abort \in [step : {"idle", "marker", "token", "prompt", "runner", "report"},
                   hit : BOOLEAN, live : SUBSET Slots, lost : BOOLEAN]
    /\ calm \in BOOLEAN

AllIdle == abort.step = "idle" /\ \A r \in Slots : At(r, "none")

\* When no prompt is in flight the session has no reservation, no token and no
\* busy flag, whatever mixture of errors, aborts and overlapping runs ended,
\* though runs retire each other's tokens and reservations; only a reservation
\* whose handler was dropped with its connection stays.
QuiescentIsClean == AllIdle => holder \in {None, Leaked} /\ token = None /\ ~ busy

\* A run that was cancelled before its tail, and an abort that has reported,
\* leave the goal interrupted: not the final commit, not the stale write-back,
\* not the plan undoes it.
StopIsRecorded ==
    \A r \in Slots :
        /\ run[r].step \in {"prepare", "plan", "block", "finish", "release", "idle", "adopt"}
        /\ run[r].cancelled
        /\ abort.step = "idle" /\ ~ abort.lost
        /\ session.ledger.goal # None
        => session.ledger.status = "Interrupted"

\* Without aborts, errors and ledger API calls an active goal is not left alone:
\* the session comes to rest only with the goal completed, blocked or awaiting.
ActiveGoalIsDriven == calm /\ AllIdle /\ session.ledger.goal # None => session.ledger.status # "Active"

\* If every scheduler run returns, the session comes to rest: continuations
\* that make no progress on the ledger end.
ComesToRest == <>[](\A r \in Slots : At(r, "none"))

\* The run's records are well formed and a stop stays recorded in the ledger.
RunSound == TypeOK /\ StopIsRecorded
=============================================================================
