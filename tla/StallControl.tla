---------------------------- MODULE StallControl ----------------------------
(***************************************************************************)
(* Stall detection and bounded replanning (session_runtime/                *)
(* task_ledger_stall.rs).  Every seam that changes the ledger, and every   *)
(* tool batch of a run, leaves a frame in the session's window; repeated   *)
(* evidence of no progress first replaces the next action and steers the   *)
(* run, and blocks the ledger when attempts or time are used up.           *)
(*                                                                         *)
(* A seam reads the ledger under the sessions lock, records the frame      *)
(* under the registry's mutex and acts under the sessions lock again, so   *)
(* the agents of a parallel blueprint, the task that projects scheduler    *)
(* events, the run's own task and the users of the ledger API interleave   *)
(* between the three.                                                      *)
(***************************************************************************)
EXTENDS LedgerSeams

CONSTANTS
    Agents,         \* agent loops of the run: they complete tool batches
    Projector,      \* the task that projects evaluator gates
    Task,           \* the task of the run itself
    Window,         \* WINDOW
    MaxReplans,     \* MAX_REPLAN_ATTEMPTS
    ReplanNext,     \* the next statement of each attempt
    MaxRuns,        \* bound on runs
    MaxStallFacts   \* bound on ledger changes by users, evaluators and waits

ASSUME StallAssumption ==
    /\ IsFiniteSet(Agents) /\ "UserConfirmation" \in Verifiers
    /\ Window \in Nat \ {0}
    /\ MaxReplans \in Nat
    /\ ReplanNext \in [1..MaxReplans -> Statements]
    /\ Projector \notin Agents /\ Task \notin Agents /\ Projector # Task
    /\ MaxRuns \in Nat
    /\ MaxStallFacts \in Nat

Actors == Agents \cup {Projector, Task}

VARIABLES
    ledger,     \* the session's task ledger
    control,    \* SessionStallControl: frames, phase, hits, attempts, deadline
    seam,       \* record_stall_frame of each actor: step, ledger, flags, action
    stallRun,   \* [on, auto, scope]: the run, its auto_replan and its evaluator scope
    cancelled,  \* the run's cancellation token
    steered,    \* system steerings of the run
    quiet,      \* tool batches recorded since a checkpoint was added, up to Window
    runs, stallFacts \* bounds

stallVars == <<ledger, control, seam, stallRun, cancelled, steered, quiet, runs, stallFacts>>

Phases == {"Healthy", "Suspected", "Stalled", "Replanning", "Blocked"}

Suppressed == {"AwaitingUser", "Interrupted"}

\* Only whether there was no, one or a further hit matters.
HitCap == 2

-----------------------------------------------------------------------------
(* The detector *)

Frame(L) == [next |-> IF L.next = None THEN None ELSE L.next.statement,
             verified |-> Len(L.verified), open |-> Cardinality(OpenQuestions(L))]

\* Variant: the window is never trimmed.
PushFrameKeepsAll(frames, L) ==
    IF L.status \in Suppressed THEN frames ELSE Append(frames, Frame(L))

\* push_frame: a suppressed frame does not accrue, the oldest one falls out.
PushFrame(frames, L) ==
    LET pushed == Append(frames, Frame(L))
    IN  IF L.status \in Suppressed THEN frames
        ELSE IF Len(pushed) > Window THEN Tail(pushed) ELSE pushed

NextUnchanged(frames) ==
    frames[1].next # None /\ \A i \in DOMAIN frames : frames[i].next = frames[1].next

NoNewVerification(frames) == frames[1].verified = frames[Len(frames)].verified

OpenCountGrowing(frames) ==
    \A i \in 1..(Len(frames) - 1) : frames[i + 1].open > frames[i].open

\* observe and the rule of evaluate: a full window, flat, in one direction.
StallEvidence(frames) ==
    /\ Len(frames) = Window
    /\ NoNewVerification(frames)
    /\ NextUnchanged(frames) \/ OpenCountGrowing(frames)

Quietly(c) == [control |-> c, action |-> "none"]

Blocking(c) == [control |-> [c EXCEPT !.phase = "Blocked"], action |-> "block"]

Replanning(c) ==
    [control |-> [c EXCEPT !.phase = "Replanning", !.attempts = @ + 1], action |-> "replan"]

\* Variant: used-up attempts are only reported.
DecideNeverBlocks(c, tokenCancelled) ==
    IF tokenCancelled \/ c.late \/ c.attempts >= MaxReplans
    THEN Quietly([c EXCEPT !.phase = "Stalled"])
    ELSE Replanning(c)

\* A further hit in a row: nothing for a cancelled run, a block when the
\* deadline has passed or the attempts are used up, else another attempt.
Decide(c, tokenCancelled) ==
    IF tokenCancelled THEN Quietly([c EXCEPT !.phase = "Stalled"])
    ELSE IF c.late \/ c.attempts >= MaxReplans THEN Blocking(c)
    ELSE Replanning(c)

Restarted(L) == [frames |-> PushFrame(<<>>, L), phase |-> "Healthy", hits |-> 0,
                 attempts |-> 0, late |-> FALSE, set |-> TRUE]

\* evaluate on a governed ledger.  Runs without auto_replan, and seams outside
\* a run, only clear the window.
Evaluate(c, L, started, auto, tokenCancelled) ==
    LET pushed == [c EXCEPT !.frames = PushFrame(@, L)]
        hit    == [pushed EXCEPT !.hits = IF @ < HitCap THEN @ + 1 ELSE @]
    IN  IF started THEN Quietly(Restarted(L))
        ELSE IF ~ auto THEN Quietly([c EXCEPT !.frames = <<>>, !.phase = "Healthy", !.hits = 0])
        ELSE IF L.status \in Suppressed THEN Quietly(pushed)
        ELSE IF L.status = "Blocked" THEN Quietly([pushed EXCEPT !.phase = "Blocked"])
        ELSE IF ~ StallEvidence(pushed.frames)
             THEN Quietly([pushed EXCEPT !.phase = "Healthy", !.hits = 0])
        ELSE IF hit.hits = 1 THEN Quietly([hit EXCEPT !.phase = "Suspected"])
        ELSE Decide(hit, tokenCancelled)

\* Variant: a committed replan gives the attempts back.
RebaselinedAnew(c, L) == [c EXCEPT !.frames = PushFrame(<<>>, L), !.hits = 0, !.attempts = 0]

\* rebaseline after a committed replan.
Rebaselined(c, L) == [c EXCEPT !.frames = PushFrame(<<>>, L), !.hits = 0]

-----------------------------------------------------------------------------
NoSeam == [step |-> "none", ledger |-> EmptyLedger, started |-> FALSE, auto |-> FALSE,
           action |-> "none", attempt |-> 0]

\* Before the first RunStarted of a governed ledger the deadline is zero, which
\* every clock has passed.
StallInit ==
    /\ ledger = EmptyLedger
    /\ control = [frames |-> <<>>, phase |-> "Healthy", hits |-> 0, attempts |-> 0,
                  late |-> TRUE, set |-> FALSE]
    /\ seam = [a \in Actors |-> NoSeam]
    /\ stallRun = [on |-> FALSE, auto |-> FALSE, scope |-> 0]
    /\ cancelled = FALSE
    /\ steered = 0
    /\ quiet = 0
    /\ runs = 0
    /\ stallFacts = 0

\* dispatch_seam_with_control of a fact that is no tool batch: the ledger
\* becomes L, and its frame is to be recorded unless the fact had no effect.
Dispatched(a, L, started) ==
    /\ seam[a].step = "none"
    /\ ledger' = L
    /\ seam' = [seam EXCEPT ![a] =
          IF L # ledger \/ started
          THEN [NoSeam EXCEPT !.step = "record", !.ledger = L, !.started = started]
          ELSE NoSeam]
    /\ quiet' = IF Len(L.verified) > Len(ledger.verified) THEN 0 ELSE quiet

CountFact == stallFacts < MaxStallFacts /\ stallFacts' = stallFacts + 1

RunBegin ==
    /\ ~ stallRun.on
    /\ runs < MaxRuns
    /\ runs' = runs + 1
    /\ \E auto \in BOOLEAN : stallRun' = [on |-> TRUE, auto |-> auto, scope |-> ledger.goal_generation]
    /\ cancelled' = FALSE
    /\ steered' = 0
    /\ Dispatched(Task, RunStarted(ledger), TRUE)
    /\ UNCHANGED <<control, stallFacts>>

\* The server's summary of a step names no open item, next step or blocker, so
\* the fact changes nothing and is only observed.
ToolBatch(a) ==
    /\ stallRun.on
    /\ seam[Task].step = "none"
    /\ seam[a].step = "none"
    /\ seam' = [seam EXCEPT ![a] = [NoSeam EXCEPT !.step = "record", !.ledger = ledger,
                                                  !.auto = stallRun.auto]]
    /\ UNCHANGED <<ledger, control, stallRun, cancelled, steered, quiet, runs, stallFacts>>

EvaluatorPass ==
    /\ stallRun.on
    /\ CountFact
    /\ Dispatched(Projector, EvaluatorGateCompleted(ledger, stallRun.scope), FALSE)
    /\ UNCHANGED <<control, stallRun, cancelled, steered, runs>>

\* A tool call of an agent asks the user, or the user has answered.
Interact(a) ==
    /\ stallRun.on
    /\ CountFact
    /\ \E x \in Interactions :
          \/ Dispatched(a, InteractionAwaiting(ledger, x), FALSE)
          \/ Dispatched(a, InteractionResolved(ledger, x), FALSE)
    /\ UNCHANGED <<control, stallRun, cancelled, steered, runs>>

\* The run is over once its agents and the projection are.
RunEnd ==
    /\ stallRun.on
    /\ \A a \in Actors : seam[a].step = "none"
    /\ stallRun' = [stallRun EXCEPT !.on = FALSE]
    /\ Dispatched(Task, IF cancelled THEN RecoveryInterrupted(ledger)
                                     ELSE FinalResponseCommitted(ledger), FALSE)
    /\ UNCHANGED <<control, cancelled, steered, runs, stallFacts>>

-----------------------------------------------------------------------------
(* record_stall_frame *)

Record(a) ==
    /\ seam[a].step = "record"
    /\ IF seam[a].ledger.revision = 0
       THEN UNCHANGED <<control, quiet>> /\ seam' = [seam EXCEPT ![a] = NoSeam]
       ELSE LET d == Evaluate(control, seam[a].ledger, seam[a].started, seam[a].auto,
                              seam[a].auto /\ cancelled)
            IN  /\ control' = d.control
                /\ seam' = [seam EXCEPT ![a] = IF d.action = "none" THEN NoSeam
                                ELSE [@ EXCEPT !.step = "act", !.action = d.action,
                                               !.attempt = d.control.attempts]]
                /\ quiet' = IF seam[a].auto /\ quiet < Window THEN quiet + 1 ELSE quiet
    /\ UNCHANGED <<ledger, stallRun, cancelled, steered, runs, stallFacts>>

\* Variants: the token is read before the lock only; the revision is not compared.
ApplyUnlessCancelledEarly(a, ok) == ok /\ ledger.revision = seam[a].ledger.revision

ApplyUnlessCancelledBlind(a, ok) == ok /\ ~ cancelled

\* apply_task_ledger_op_unless_cancelled commits: the token is live under the
\* lock, and the ledger is still the one of the frame.
ApplyUnlessCancelled(a, ok) ==
    ok /\ ~ cancelled /\ ledger.revision = seam[a].ledger.revision

Replan(a) ==
    /\ seam[a].step = "act"
    /\ seam[a].action = "replan"
    /\ IF ApplyUnlessCancelled(a, SetNextOk(ledger))
       THEN /\ ledger' = Bump(SetNext(ledger, ReplanNext[seam[a].attempt]))
            /\ seam' = [seam EXCEPT ![a].step = "rebaseline", ![a].ledger = ledger']
       ELSE UNCHANGED ledger /\ seam' = [seam EXCEPT ![a] = NoSeam]
    /\ UNCHANGED <<control, stallRun, cancelled, steered, quiet, runs, stallFacts>>

Rebaseline(a) ==
    /\ seam[a].step = "rebaseline"
    /\ control' = Rebaselined(control, seam[a].ledger)
    /\ seam' = [seam EXCEPT ![a].step = "steer"]
    /\ UNCHANGED <<ledger, stallRun, cancelled, steered, quiet, runs, stallFacts>>

\* enqueue_system_steering, unless the token went meanwhile.
Steer(a) ==
    /\ seam[a].step = "steer"
    /\ steered' = IF cancelled THEN steered ELSE steered + 1
    /\ seam' = [seam EXCEPT ![a] = NoSeam]
    /\ UNCHANGED <<ledger, control, stallRun, cancelled, quiet, runs, stallFacts>>

Block(a) ==
    /\ seam[a].step = "act"
    /\ seam[a].action = "block"
    /\ ledger' = IF ApplyUnlessCancelled(a, SetBlockedOk(ledger)) THEN Bump(SetBlocked(ledger))
                 ELSE ledger
    /\ seam' = [seam EXCEPT ![a] = NoSeam]
    /\ UNCHANGED <<control, stallRun, cancelled, steered, quiet, runs, stallFacts>>

-----------------------------------------------------------------------------
(* The surroundings: the ledger API, which records no frame, Stop, and time *)

StallUserOp ==
    /\ CountFact
    /\ \/ /\ CreateOk(ledger, [criteria |-> {}, checks |-> {}])
          /\ \E s \in Statements :
                ledger' = Bump(Create(ledger, [criteria |-> {}, checks |-> {}], s))
          /\ UNCHANGED quiet
       \/ /\ AddCheckpointOk(ledger, {}, 0)
          /\ ledger' = Bump(AddCheckpoint(ledger, "UserConfirmation", {}, 0))
          /\ quiet' = 0
       \/ /\ OpenQuestionOk(ledger)
          /\ \E s \in Statements : ledger' = Bump(OpenQuestion(ledger, s))
          /\ UNCHANGED quiet
    /\ ValidateSnapshot(ledger')
    /\ UNCHANGED <<control, seam, stallRun, cancelled, steered, runs>>

Cancel ==
    /\ stallRun.on
    /\ ~ cancelled
    /\ cancelled' = TRUE
    /\ UNCHANGED <<ledger, control, seam, stallRun, steered, quiet, runs, stallFacts>>

Expire ==
    /\ ~ control.late
    /\ control' = [control EXCEPT !.late = TRUE]
    /\ UNCHANGED <<ledger, seam, stallRun, cancelled, steered, quiet, runs, stallFacts>>

-----------------------------------------------------------------------------
SeamStep(a) == Record(a) \/ Replan(a) \/ Rebaseline(a) \/ Steer(a) \/ Block(a)

AgentStep(a) == ToolBatch(a) \/ SeamStep(a)

StallNext ==
    \/ RunBegin \/ RunEnd \/ EvaluatorPass \/ StallUserOp \/ Cancel \/ Expire
    \/ \E a \in Agents : ToolBatch(a) \/ Interact(a)
    \/ \E a \in Actors : SeamStep(a)

StallSpec == StallInit /\ [][StallNext]_stallVars

\* The tasks of a run make progress, and its agents go on making tool calls;
\* users, evaluators and the clock need not do anything.
StallFairSpec ==
    /\ StallSpec
    /\ \A a \in Agents : WF_stallVars(AgentStep(a))
    /\ WF_stallVars(SeamStep(Projector))
    /\ WF_stallVars(SeamStep(Task))

-----------------------------------------------------------------------------
(* Properties *)

Frames == [next : Statements \cup {None}, verified : Nat, open : Nat]

\* Every variable holds a value of its type.
StallTypeOK ==
    /\ ledger \in Ledgers
    /\ control \in [frames : Seq(Frames), phase : Phases, hits : 0..HitCap,
                    attempts : 0..MaxReplans, late : BOOLEAN, set : BOOLEAN]
    /\ Len(control.frames) <= Window
    /\ seam \in [Actors -> [step : {"none", "record", "act", "rebaseline", "steer"},
                            ledger : Ledgers, started : BOOLEAN, auto : BOOLEAN,
                            action : {"none", "replan", "block"}, attempt : 0..MaxReplans]]
    /\ stallRun \in [on : BOOLEAN, auto : BOOLEAN, scope : Nat]
    /\ cancelled \in BOOLEAN
    /\ steered \in Nat
    /\ quiet \in 0..Window
    /\ runs \in 0..MaxRuns
    /\ stallFacts \in 0..MaxStallFacts

\* Between two RunStarted facts the detector steers the run at most
\* MAX_REPLAN_ATTEMPTS times, however many agents hit evidence at once and
\* however often an attempt loses against another writer.
ReplanBudget == steered <= MaxReplans

ActsOf(a) == seam[a].step = "act" /\ seam'[a].step # "act"

\* Once the run's token is cancelled no decision taken before it changes the
\* ledger any more.
CancelledRunKeepsLedger == [][(\E a \in Actors : ActsOf(a)) /\ cancelled => ledger' = ledger]_stallVars

\* A decision that commits, however old, still rests on Window tool batches
\* recorded since a checkpoint was last added: neither frames recorded out of
\* order by two agents nor evidence that came in meanwhile are overridden.
ActsOnEvidence ==
    [][(\E a \in Actors : ActsOf(a)) /\ ledger' # ledger => quiet = Window]_stallVars

Governing == stallRun.on /\ stallRun.auto /\ ~ cancelled /\ ledger.goal # None

\* A governed run that goes on making tool batches and nothing else does not
\* spin for ever: its ledger ends up blocked, unless it waits for the user or
\* was completed before.
SpinningRunIsStopped ==
    <>[]Governing => <>[](ledger.status \in {"Blocked", "AwaitingUser", "Completed"})

\* The detector's records are well formed and its budget of replans holds
\* (StallControl::evaluate, record).
StallSound == StallTypeOK /\ ReplanBudget

\* A decision that commits holds when it commits: Window batches without
\* evidence, and a run that nobody has stopped (record_stall_frame, which reads
\* evidence and token again under the sessions lock).
DecisionsHold == CancelledRunKeepsLedger /\ ActsOnEvidence
=============================================================================
