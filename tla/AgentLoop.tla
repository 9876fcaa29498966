----------------------------- MODULE AgentLoop ------------------------------
(***************************************************************************)
(* The agents of one scheduler run: AgentLoop::run for every branch of a   *)
(* parallel node, over what they share: the ExecutionBudget, the           *)
(* InteractionClock, the run's cancellation and the session's steering     *)
(* inbox, which take_boundary_inputs of the server's observer empties.     *)
(*                                                                         *)
(* A steering message is enqueued, echoed and shown in the runtime state   *)
(* under three locks; an agent drains the inbox, writes the transcript and *)
(* clears what is shown under three locks too.                             *)
(***************************************************************************)
EXTENDS Integers, Sequences, FiniteSets, SequencesExt

CONSTANTS
    Agents,         \* the agents that run side by side
    Messages,       \* steering messages
    Modes,          \* failure modes of the parallel node: FailFast, Collect
    MaxSteps,       \* max_steps of an agent
    MaxModelCalls, MaxToolCalls, MaxTokens, MaxTime,   \* ExecutionLimits
    TurnTokens,     \* what a model turn may cost
    TurnCalls       \* how many tools a turn may call

ASSUME LimitsAssumption ==
    /\ IsFiniteSet(Agents)
    /\ {MaxSteps, MaxModelCalls, MaxToolCalls, MaxTokens, MaxTime} \subseteq Nat \ {0}
    /\ TurnTokens \subseteq Nat /\ TurnCalls \subseteq Nat
    /\ \E t \in TurnTokens : \A u \in TurnTokens : u <= t   \* a u64 in the code
    /\ Modes \subseteq {"FailFast", "Collect"}

VARIABLES
    mode,         \* the parallel node's failure mode
    pc,           \* where AgentLoop::run is
    step,         \* its step
    calls,        \* tool calls of the turn not yet made
    ask,          \* its tool has not asked the user, waits (and holds a pause guard), or has asked
    held,         \* messages drained and not yet handed to the conversation
    heard,        \* messages its conversation contains
    usage,        \* ExecutionBudget.usage: model calls, tool calls, tokens
    elapsed,      \* active wall time
    depth,        \* InteractionClock.pause_depth
    token,        \* the run's CancellationToken
    cancelled,    \* the CancellationFlag a task sets after the token
    inbox,        \* steering_store
    shown,        \* pending_steering of the runtime state
    transcript,   \* consumed messages in the session record
    submit        \* submit_session_steering, per message

budgetVars == <<usage, elapsed, depth>>
cancelVars == <<token, cancelled>>
steerVars == <<inbox, shown, transcript, submit>>
agentVars == <<pc, step, calls, ask, held, heard>>
vars == <<mode, pc, step, calls, ask, held, heard, usage, elapsed, depth, token, cancelled,
          inbox, shown, transcript, submit>>

Over == {"finished", "failed", "dropped"}

Expired == elapsed >= MaxTime

Init ==
    /\ mode \in Modes
    /\ pc = [a \in Agents |-> "top"]
    /\ step = [a \in Agents |-> 0]
    /\ calls = [a \in Agents |-> 0]
    /\ ask = [a \in Agents |-> "not"]
    /\ held = [a \in Agents |-> << >>]
    /\ heard = [a \in Agents |-> {}]
    /\ usage = [model |-> 0, tool |-> 0, tokens |-> 0]
    /\ elapsed = 0 /\ depth = 0
    /\ token = FALSE /\ cancelled = FALSE
    /\ inbox = << >> /\ shown = {} /\ transcript = << >>
    /\ submit = [m \in Messages |-> "none"]

---------------------------------------------------------------------------
(* How an agent's future ends.                                              *)

\* Variant: the guard's pause outlives the future that held it.
UnpauseNone(A) == depth' = depth

\* The pause guards of A's futures are dropped with them.
Unpause(A) == depth' = depth - Cardinality({a \in A : ask[a] = "waits"})

\* a returns Err.  FailFast drops the futures of the other branches with what
\* they hold; Collect lets them run.
Fail(a) ==
    LET gone == {a} \cup (IF mode = "FailFast" THEN {b \in Agents : pc[b] \notin Over} ELSE {})
    IN  /\ pc' = [b \in Agents |-> IF b = a THEN "failed" ELSE IF b \in gone THEN "dropped" ELSE pc[b]]
        /\ ask' = [b \in Agents |-> IF b \in gone THEN "not" ELSE ask[b]]
        /\ Unpause(gone)
        /\ UNCHANGED <<mode, step, calls, held, heard, elapsed, cancelVars, steerVars>>

FailOnly(a) == Fail(a) /\ UNCHANGED usage

Goto(a, where) == pc' = [pc EXCEPT ![a] = where]

---------------------------------------------------------------------------
(* The step boundary.                                                       *)

BeginStep(a) ==
    /\ pc[a] = "top" /\ ~cancelled /\ step[a] < MaxSteps
    /\ Goto(a, "boundary")
    /\ step' = [step EXCEPT ![a] = @ + 1]
    /\ UNCHANGED <<mode, calls, ask, held, heard, budgetVars, cancelVars, steerVars>>

\* Cancelled, or StepLimitExceeded.
StepRefused(a) == pc[a] = "top" /\ (cancelled \/ step[a] >= MaxSteps) /\ FailOnly(a)

\* Variant: the inbox is read under one lock and emptied under another.
DrainPeeks(a) ==
    /\ pc[a] = "boundary"
    /\ held' = [held EXCEPT ![a] = inbox]
    /\ Goto(a, IF inbox = << >> THEN "reserve" ELSE "record")
    /\ UNCHANGED <<mode, step, calls, ask, heard, budgetVars, cancelVars, steerVars>>

Drain(a) ==
    /\ pc[a] = "boundary"
    /\ held' = [held EXCEPT ![a] = inbox]
    /\ inbox' = << >>
    /\ Goto(a, IF inbox = << >> THEN "reserve" ELSE "record")
    /\ UNCHANGED <<mode, step, calls, ask, heard, budgetVars, cancelVars, shown, transcript, submit>>

RecordSteering(a) ==
    /\ pc[a] = "record"
    /\ transcript' = transcript \o held[a]
    /\ Goto(a, "clear")
    /\ UNCHANGED <<mode, step, calls, ask, held, heard, budgetVars, cancelVars, inbox, shown, submit>>

ClearShown(a) ==
    /\ pc[a] = "clear"
    /\ shown' = {}
    /\ heard' = [heard EXCEPT ![a] = @ \cup ToSet(held[a])]
    /\ held' = [held EXCEPT ![a] = << >>]
    /\ Goto(a, "reserve")
    /\ UNCHANGED <<mode, step, calls, ask, budgetVars, cancelVars, inbox, transcript, submit>>

---------------------------------------------------------------------------
(* The model.                                                               *)

\* Variant: the limit is off by one.
ReserveOneMore(a) ==
    /\ pc[a] = "reserve" /\ ~Expired /\ usage.model <= MaxModelCalls
    /\ usage' = [usage EXCEPT !.model = @ + 1]
    /\ Goto(a, "model")
    /\ UNCHANGED <<mode, step, calls, ask, held, heard, elapsed, depth, cancelVars, steerVars>>

ReserveModelCall(a) ==
    /\ pc[a] = "reserve" /\ ~Expired /\ usage.model < MaxModelCalls
    /\ usage' = [usage EXCEPT !.model = @ + 1]
    /\ Goto(a, "model")
    /\ UNCHANGED <<mode, step, calls, ask, held, heard, elapsed, depth, cancelVars, steerVars>>

ModelRefused(a) ==
    pc[a] = "reserve" /\ (Expired \/ usage.model >= MaxModelCalls) /\ FailOnly(a)

\* The turn is accepted: not cancelled, in time, and within the token budget.
ModelReturns(a, tokens, n) ==
    /\ pc[a] = "model" /\ ~cancelled /\ ~Expired
    /\ usage.tokens + tokens <= MaxTokens
    /\ usage' = [usage EXCEPT !.tokens = @ + tokens]
    /\ calls' = [calls EXCEPT ![a] = n]
    /\ Goto(a, IF n = 0 THEN "answer" ELSE "calls")
    /\ UNCHANGED <<mode, step, ask, held, heard, elapsed, depth, cancelVars, steerVars>>

\* Variant: the budget's excess is noted and the agent goes on.
ModelOverspendsOn(a, tokens) ==
    /\ pc[a] = "model" /\ ~cancelled /\ ~Expired
    /\ usage.tokens + tokens > MaxTokens
    /\ usage' = [usage EXCEPT !.tokens = @ + tokens]
    /\ Goto(a, "top")
    /\ UNCHANGED <<mode, step, calls, ask, held, heard, elapsed, depth, cancelVars, steerVars>>

\* record_tokens adds the tokens and then finds the budget exceeded.
ModelOverspends(a, tokens) ==
    /\ pc[a] = "model" /\ ~cancelled /\ ~Expired
    /\ usage.tokens + tokens > MaxTokens
    /\ usage' = [usage EXCEPT !.tokens = @ + tokens]
    /\ Fail(a)

ModelFails(a) == pc[a] = "model" /\ FailOnly(a)

\* step_started, take_boundary_inputs, assistant_turn or step_finished fails:
\* the session is gone.
ObserverFails(a) == pc[a] \in {"boundary", "record", "answer", "calls"} /\ FailOnly(a)

\* Variant: the model's answer is awaited whatever the deadline.
ModelStopsOnCancel(a) == pc[a] = "model" /\ cancelled /\ FailOnly(a)

ModelStops(a) == pc[a] = "model" /\ (cancelled \/ Expired) /\ FailOnly(a)

Finish(a) ==
    /\ pc[a] = "answer"
    /\ Goto(a, "finished")
    /\ UNCHANGED <<mode, step, calls, ask, held, heard, budgetVars, cancelVars, steerVars>>

---------------------------------------------------------------------------
(* Tools.                                                                   *)

ReserveToolCall(a) ==
    /\ pc[a] = "calls" /\ calls[a] > 0
    /\ ~cancelled /\ ~Expired /\ usage.tool < MaxToolCalls
    /\ usage' = [usage EXCEPT !.tool = @ + 1]
    /\ calls' = [calls EXCEPT ![a] = @ - 1]
    /\ Goto(a, "tool")
    /\ UNCHANGED <<mode, step, ask, held, heard, elapsed, depth, cancelVars, steerVars>>

\* Cancelled, out of time or out of tool calls.
ToolRefused(a) ==
    /\ pc[a] = "calls" /\ calls[a] > 0
    /\ cancelled \/ Expired \/ usage.tool >= MaxToolCalls
    /\ FailOnly(a)

StepEnds(a) ==
    /\ pc[a] = "calls" /\ calls[a] = 0
    /\ Goto(a, "top")
    /\ UNCHANGED <<mode, step, calls, ask, held, heard, budgetVars, cancelVars, steerVars>>

\* with_ask and with_ask_question: the pause guard is taken, then the wait.  A
\* call asks once: the bound on its waits.
Ask(a) ==
    /\ pc[a] \in {"tool", "cleanup"} /\ ask[a] = "not" /\ ~token
    /\ ask' = [ask EXCEPT ![a] = "waits"]
    /\ depth' = depth + 1
    /\ UNCHANGED <<mode, pc, step, calls, held, heard, usage, elapsed, cancelVars, steerVars>>

StopAsking(a) ==
    /\ ask[a] = "waits"
    /\ ask' = [ask EXCEPT ![a] = "asked"]
    /\ Unpause({a})
    /\ UNCHANGED <<mode, pc, step, calls, held, heard, usage, elapsed, cancelVars, steerVars>>

Answer(a) == StopAsking(a)

AskAborted(a) == token /\ StopAsking(a)

ToolReturns(a) ==
    /\ pc[a] = "tool" /\ ask[a] # "waits"
    /\ ask' = [ask EXCEPT ![a] = "not"]
    /\ Goto(a, "calls")
    /\ UNCHANGED <<mode, step, calls, held, heard, budgetVars, cancelVars, steerVars>>

\* A tool the node does not declare, before its call is reserved.
Undeclared(a) == pc[a] = "calls" /\ calls[a] > 0 /\ ~cancelled /\ FailOnly(a)

\* The tool backend fails, or the observer does.
ToolFails(a) == pc[a] = "tool" /\ ask[a] # "waits" /\ FailOnly(a)

\* The deadline drops the tool's future at once.
ToolOutOfTime(a) == pc[a] = "tool" /\ Expired /\ FailOnly(a)

\* A cancelled tool gets five seconds to finish.
ToolCancelled(a) ==
    /\ pc[a] = "tool" /\ cancelled
    /\ Goto(a, "cleanup")
    /\ UNCHANGED <<mode, step, calls, ask, held, heard, budgetVars, cancelVars, steerVars>>

\* Variant: the clean-up awaits the tool without a timeout.
CleanupAwaits(a) == pc[a] = "cleanup" /\ pc[a] = "calls" /\ FailOnly(a)

CleanupEnds(a) == pc[a] = "cleanup" /\ FailOnly(a)

---------------------------------------------------------------------------
(* The user and the clock.                                                  *)

Abort ==
    /\ ~token /\ token' = TRUE
    /\ UNCHANGED <<mode, agentVars, budgetVars, cancelled, steerVars>>

ForwardCancel ==
    /\ token /\ ~cancelled /\ cancelled' = TRUE
    /\ UNCHANGED <<mode, agentVars, budgetVars, token, steerVars>>

\* Time passes; while some agent waits for the user it is not charged.
Tick ==
    /\ depth = 0 /\ ~Expired
    /\ \E a \in Agents : pc[a] \notin Over
    /\ elapsed' = elapsed + 1
    /\ UNCHANGED <<mode, agentVars, usage, depth, cancelVars, steerVars>>

Enqueue(m) ==
    /\ submit[m] = "none"
    /\ inbox' = Append(inbox, m)
    /\ submit' = [submit EXCEPT ![m] = "enqueued"]
    /\ UNCHANGED <<mode, agentVars, budgetVars, cancelVars, shown, transcript>>

\* steering_enqueued of the runtime state, after the transcript's echo.
Show(m) ==
    /\ submit[m] = "enqueued"
    /\ shown' = shown \cup {m}
    /\ submit' = [submit EXCEPT ![m] = "done"]
    /\ UNCHANGED <<mode, agentVars, budgetVars, cancelVars, inbox, transcript>>

---------------------------------------------------------------------------

\* What the runtime does of itself when it polls agent a.
Poll(a) ==
    \/ BeginStep(a) \/ StepRefused(a) \/ Drain(a) \/ RecordSteering(a) \/ ClearShown(a)
    \/ ReserveModelCall(a) \/ ModelRefused(a) \/ ModelStops(a) \/ Finish(a)
    \/ ReserveToolCall(a) \/ ToolRefused(a) \/ StepEnds(a)
    \/ ToolOutOfTime(a) \/ ToolCancelled(a) \/ AskAborted(a) \/ CleanupEnds(a)

\* What models, tools and users do.
Outcome(a) ==
    \/ \E tokens \in TurnTokens :
          ModelOverspends(a, tokens) \/ \E n \in TurnCalls : ModelReturns(a, tokens, n)
    \/ ModelFails(a) \/ ObserverFails(a) \/ Ask(a) \/ Undeclared(a) \/ ToolReturns(a) \/ ToolFails(a)

Next ==
    \/ \E a \in Agents : Poll(a) \/ Outcome(a) \/ Answer(a)
    \/ Abort \/ ForwardCancel \/ Tick
    \/ \E m \in Messages : Enqueue(m) \/ Show(m)

Spec == Init /\ [][Next]_vars

\* The runtime polls every agent, time passes and the forwarding task runs.
Fairness ==
    /\ \A a \in Agents : WF_vars(Poll(a))
    /\ WF_vars(Tick) /\ WF_vars(ForwardCancel)
    /\ \A m \in Messages : WF_vars(Show(m))

\* Users answer what they are asked, sooner or later.
Answering == \A a \in Agents : WF_vars(Answer(a))

FairSpec == Spec /\ Fairness

---------------------------------------------------------------------------
(* Properties.                                                              *)

Places == {"top", "boundary", "record", "clear", "reserve", "model", "answer", "calls", "tool",
           "cleanup"} \cup Over

\* Every variable has its type.
TypeOK ==
    /\ mode \in Modes
    /\ pc \in [Agents -> Places]
    /\ step \in [Agents -> 0..MaxSteps]
    /\ calls \in [Agents -> Nat]
    /\ ask \in [Agents -> {"not", "waits", "asked"}]
    /\ held \in [Agents -> Seq(Messages)]
    /\ heard \in [Agents -> SUBSET Messages]
    /\ usage \in [model : 0..MaxModelCalls, tool : 0..MaxToolCalls, tokens : Nat]
    /\ elapsed \in 0..MaxTime
    /\ depth \in Nat
    /\ token \in BOOLEAN /\ cancelled \in BOOLEAN
    /\ inbox \in Seq(Messages) /\ transcript \in Seq(Messages)
    /\ shown \subseteq Messages
    /\ submit \in [Messages -> {"none", "enqueued", "done"}]

Dearest == CHOOSE t \in TurnTokens : \A u \in TurnTokens : u <= t

\* The budget is shared and charged after the fact: however the branches
\* interleave, an agent overspends in at most one turn, its last
\* (ExecutionBudget::record_tokens).
OverspendsOnce ==
    usage.tokens <= MaxTokens + Dearest * Cardinality({a \in Agents : pc[a] = "failed"})

\* Parallel agents share one inbox: every message is in one place, waiting,
\* drained and not yet recorded, or recorded, and one agent at most hears it
\* (SteeringStore::drain, take_boundary_inputs).
SteeredOnce ==
    \A m \in Messages :
        LET drained == {a \in Agents : m \in ToSet(held[a])}
            copies == Cardinality({i \in DOMAIN inbox : inbox[i] = m})
                      + Cardinality({i \in DOMAIN transcript : transcript[i] = m})
                      + Cardinality({a \in drained : m \notin ToSet(transcript)})
        IN  /\ copies = IF submit[m] = "none" THEN 0 ELSE 1
            /\ Cardinality(drained \cup {a \in Agents : m \in heard[a]}) <= 1

\* The clock stands still exactly while some agent that has not ended waits
\* for the user, the futures FailFast or a deadline dropped included
\* (InteractionPauseGuard::drop).
PausedWhileWaiting == depth = Cardinality({a \in Agents : ask[a] = "waits" /\ pc[a] \notin Over})

\* The agents' records are well formed and their clock is paused by exactly
\* those who wait.
AgentsSound == TypeOK /\ PausedWhileWaiting

AllOver == \A a \in Agents : pc[a] \in Over

\* An aborted run ends, even if no user, model or tool ever answers
\* (CancellationFlag::cancelled, the five-second clean-up of a tool).
AbortEndsAgents == token ~> AllOver

\* The agents end, if users answer: models and tools that never return are
\* stopped by the active-time deadline, which waits only delay.
AgentsEnd == Answering => <>AllOver

\* The agents come to an end, by the abort or by their own budget.
AgentsComeToEnd == AbortEndsAgents /\ AgentsEnd

\* Not so: what the runtime state shows as pending is what the inbox holds,
\* once no submission is half-way and no agent is at its boundary
\* (runtime_state.rs: pending steering messages must be observable).
PendingSteeringIsShown ==
    (/\ \A m \in Messages : submit[m] # "enqueued"
     /\ \A a \in Agents : pc[a] \notin {"record", "clear"})
        => shown = ToSet(inbox)

\* Not so: a drained message is recorded, or still on its way to be.
DrainedIsRecorded ==
    \A a \in Agents : pc[a] = "dropped" => ToSet(held[a]) \subseteq ToSet(transcript)
=============================================================================
