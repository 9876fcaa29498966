-------------------------- MODULE SchedulerEngine ---------------------------
(***************************************************************************)
(* Scheduler runs: SchedulerEngine::run and execute_graph of the           *)
(* orchestrator over the server's WorkspaceCapabilityHost.                 *)
(*                                                                         *)
(* A call of execute_graph is a frame.  A frame walks its graph node by    *)
(* node; a parallel node opens a frame per branch, a loop node one per     *)
(* iteration of its body.  A frame that returns Err at once drops what is  *)
(* below it.  Checkpoint, restore and artifact are done by blocking        *)
(* workers that outlive a dropped frame.  Runs work in one directory; runs *)
(* of one session do not overlap.                                          *)
(***************************************************************************)
EXTENDS SchedulerBlueprint, SequencesExt

CONSTANTS
    Runs,         \* the runs, numbered in the order they start
    SessionOf,    \* the session of a run
    Blueprints,   \* the blueprints a run may be given
    MaxCrashes,   \* bound on crashes of the server
    None

ASSUME RunsAssumption ==
    /\ Runs \subseteq Nat
    /\ DOMAIN SessionOf = Runs
    /\ DOMAIN Blueprints = Runs
    /\ MaxCrashes \in Nat
    /\ None \notin Runs

ASSUME ValidatedAssumption == \A r \in Runs : \A b \in Blueprints[r] : ValidBlueprint(b)

\* The shape of a blueprint: graphs are nested in the loops that run them.
ASSUME NestedAssumption ==
    \A r \in Runs : \A b \in Blueprints[r] :
        /\ b.root \in DOMAIN b.graphs
        /\ \A g \in DOMAIN b.graphs : \A n \in DOMAIN b.graphs[g].nodes :
              LET node == b.graphs[g].nodes[n]
              IN  /\ n # None
                  /\ node.kind \in {"agent", "parallel", "gate", "loop", "end"}
                  /\ node.kind = "parallel" =>
                        node.branches \in Seq(DOMAIN b.graphs[g].nodes) /\ node.width \in Nat
                  /\ node.kind = "loop" => node.body \in DOMAIN b.graphs

VARIABLES
    status,       \* idle, running, committed, failed, dirty (cleanup failed), crashed
    plan,         \* the run's validated blueprint
    frames,       \* the live calls of execute_graph, by path
    workers,      \* WorkspaceCapabilityHost.in_flight: workers not yet finished
    made,         \* created_checkpoints and created_artifacts
    cancelled,    \* the run's CancellationFlag
    expired,      \* its wall-time budget is used up
    content,      \* the workspace outside .agendao: the edits made to it
    checkpoints,  \* .agendao/checkpoints: directory -> edits copied
    partials,     \* artifacts being written (.name.partial)
    artifacts,    \* .agendao/artifacts: name -> run that wrote it
    accepted,     \* history: loop iterations the evaluator passed
    stopped,      \* history: a frame returned Cancelled or DeadlineExceeded
    fatal,        \* history: a frame outside every Collect branch failed
    broken,       \* history: a restore failed
    crashes

runVars == <<status, plan>>
diskVars == <<content, checkpoints, partials, artifacts>>
historyVars == <<accepted, stopped, fatal, broken>>
vars == <<status, plan, frames, workers, made, cancelled, expired, content, checkpoints,
          partials, artifacts, accepted, stopped, fatal, broken, crashes>>

---------------------------------------------------------------------------
(* Frames.  A path is a sequence of <<node, iteration>>; a branch has       *)
(* iteration 0 and its parent's scope, an iteration a scope of its own.     *)

Scope(f) == SelectSeq(f, LAMBDA step : step[2] > 0)

NewFrame(graph, start, stop, under, sheltered) ==
    [graph |-> graph, at |-> start, stop |-> stop, phase |-> "enter", iteration |-> 0,
     opened |-> 0, results |-> {}, reply |-> "none", error |-> FALSE,
     under |-> under, sheltered |-> sheltered]

Node(r, f) == plan[r].graphs[frames[r][f].graph].nodes[frames[r][f].at]

In(r, f, phase) == f \in DOMAIN frames[r] /\ frames[r][f].phase = phase

IsAt(r, f, phase, kind) == In(r, f, phase) /\ Node(r, f).kind = kind

Children(r, f) == {g \in DOMAIN frames[r] : Len(g) = Len(f) + 1 /\ IsPrefix(f, g)}

Returned(r, g) == frames[r][g].phase \in {"done", "failed"}

Stopping(r) == cancelled[r] \/ expired[r]

\* fn with k mapped to v.
With(fn, k, v) == [x \in (DOMAIN fn) \cup {k} |-> IF x = k THEN v ELSE fn[x]]

Set(r, f, new) == frames' = [frames EXCEPT ![r][f] = new]

\* Drop the frames strictly below f and set f.
Collapse(r, f, new) ==
    frames' = [frames EXCEPT ![r] =
                 [g \in {h \in DOMAIN frames[r] : ~IsStrictPrefix(f, h)} |->
                    IF g = f THEN new ELSE frames[r][g]]]

Call(r, f, new, g, frame) ==
    frames' = [frames EXCEPT ![r] = With([@ EXCEPT ![f] = new], g, frame)]

Go(frame, node) == [frame EXCEPT !.phase = "enter", !.at = node, !.iteration = 0]

\* BranchState::record, and go on to the next node.
Record(frame, node) == [Go(frame, node) EXCEPT !.results = @ \cup {frame.at}]

\* Variant: the frames below go on.
FailsAlone(r, f, why) ==
    /\ Set(r, f, [frames[r][f] EXCEPT !.phase = "failed"])
    /\ fatal' = [fatal EXCEPT ![r] = @ \/ ~frames[r][f].sheltered]
    /\ stopped' = [stopped EXCEPT ![r] = @ \/ why = "stop"]

\* The frame returns Err; why is "stop" for Cancelled and DeadlineExceeded.
Fails(r, f, why) ==
    /\ Collapse(r, f, [frames[r][f] EXCEPT !.phase = "failed"])
    /\ fatal' = [fatal EXCEPT ![r] = @ \/ ~frames[r][f].sheltered]
    /\ stopped' = [stopped EXCEPT ![r] = @ \/ why = "stop"]

diskAndMade == <<content, checkpoints, partials, artifacts, workers, made>>
outside == <<status, plan, cancelled, expired, crashes>>

FailsOnly(r, f, why) == Fails(r, f, why) /\ UNCHANGED <<outside, diskAndMade, accepted, broken>>

FrameOnly == UNCHANGED <<outside, diskAndMade, historyVars>>

Spawn(r, kind, f, key) ==
    workers' = [workers EXCEPT ![r] = @ \cup {[kind |-> kind, frame |-> f, key |-> key, step |-> "begin"]}]

---------------------------------------------------------------------------
(* The run.                                                                 *)

Init ==
    /\ status = [r \in Runs |-> "idle"]
    /\ plan = [r \in Runs |-> None]
    /\ frames = [r \in Runs |-> << >>]
    /\ workers = [r \in Runs |-> {}]
    /\ made = [r \in Runs |-> [checkpoints |-> {}, artifacts |-> {}]]
    /\ cancelled = [r \in Runs |-> FALSE]
    /\ expired = [r \in Runs |-> FALSE]
    /\ content = {}
    /\ checkpoints = << >>
    /\ partials = {}
    /\ artifacts = << >>
    /\ accepted = [r \in Runs |-> {}]
    /\ stopped = [r \in Runs |-> FALSE]
    /\ fatal = [r \in Runs |-> FALSE]
    /\ broken = [r \in Runs |-> FALSE]
    /\ crashes = 0

StartRun(r, b) ==
    /\ status[r] = "idle"
    /\ \A q \in Runs : q < r => status[q] # "idle"
    /\ \A q \in Runs : SessionOf[q] = SessionOf[r] => status[q] # "running"
    /\ status' = [status EXCEPT ![r] = "running"]
    /\ plan' = [plan EXCEPT ![r] = b]
    /\ frames' = [frames EXCEPT ![r] =
                    [f \in {<< >>} |-> NewFrame(b.root, b.graphs[b.root].entry, None, {}, FALSE)]]
    /\ UNCHANGED <<diskAndMade, cancelled, expired, historyVars, crashes>>

Cancel(r) ==
    /\ status[r] = "running" /\ ~cancelled[r]
    /\ cancelled' = [cancelled EXCEPT ![r] = TRUE]
    /\ UNCHANGED <<runVars, frames, expired, crashes, diskAndMade, historyVars>>

Expire(r) ==
    /\ status[r] = "running" /\ ~expired[r]
    /\ expired' = [expired EXCEPT ![r] = TRUE]
    /\ UNCHANGED <<runVars, frames, cancelled, crashes, diskAndMade, historyVars>>

\* Variant: finalize does not wait for the workers of dropped frames.
FinalizingAtOnce(r) == status[r] = "running" /\ Returned(r, << >>)

\* Finalize waits for every registered worker; then it removes the checkpoints
\* and, on rollback, the artifacts, by the paths that were registered.
Finalizing(r) == status[r] = "running" /\ Returned(r, << >>) /\ workers[r] = {}

Cleanup(r, keys, names) ==
    /\ checkpoints' = [k \in (DOMAIN checkpoints) \ keys |-> checkpoints[k]]
    /\ artifacts' = [n \in (DOMAIN artifacts) \ names |-> artifacts[n]]
    /\ made' = [made EXCEPT ![r] = [checkpoints |-> {}, artifacts |-> {}]]
    /\ frames' = [frames EXCEPT ![r] = << >>]
    /\ plan' = [plan EXCEPT ![r] = None]
    /\ cancelled' = [cancelled EXCEPT ![r] = FALSE]
    /\ expired' = [expired EXCEPT ![r] = FALSE]
    /\ UNCHANGED <<workers, content, partials, historyVars, crashes>>

\* Variant: rollback clears the artifact directory.
RolledAll(r) == IF frames[r][<< >>].phase = "failed" THEN DOMAIN artifacts ELSE {}

Rolled(r) == IF frames[r][<< >>].phase = "failed" THEN made[r].artifacts ELSE {}

Finalize(r) ==
    /\ Finalizing(r)
    /\ Cleanup(r, made[r].checkpoints, Rolled(r))
    /\ status' = [status EXCEPT ![r] =
                    IF frames[r][<< >>].phase = "failed" THEN "failed" ELSE "committed"]

\* Some of what is there cannot be removed: EngineError::Cleanup.
FinalizeFails(r, keys, names) ==
    /\ Finalizing(r)
    /\ keys \subseteq made[r].checkpoints \cap DOMAIN checkpoints
    /\ names \subseteq Rolled(r) \cap DOMAIN artifacts
    /\ keys # {} \/ names # {}
    /\ Cleanup(r, made[r].checkpoints \ keys, Rolled(r) \ names)
    /\ status' = [status EXCEPT ![r] = "dirty"]

\* The server dies: frames, workers and registries are gone, the disk stays.
Crash ==
    /\ crashes < MaxCrashes
    /\ \E r \in Runs : status[r] = "running"
    /\ crashes' = crashes + 1
    /\ status' = [r \in Runs |-> IF status[r] = "running" THEN "crashed" ELSE status[r]]
    /\ frames' = [r \in Runs |-> << >>]
    /\ plan' = [r \in Runs |-> None]
    /\ workers' = [r \in Runs |-> {}]
    /\ made' = [r \in Runs |-> [checkpoints |-> {}, artifacts |-> {}]]
    /\ cancelled' = [r \in Runs |-> FALSE]
    /\ expired' = [r \in Runs |-> FALSE]
    /\ UNCHANGED <<diskVars, historyVars>>

---------------------------------------------------------------------------
(* execute_graph: the top of its loop, then one group per node kind.        *)

ReachJoin(r, f) ==
    /\ In(r, f, "enter") /\ frames[r][f].at = frames[r][f].stop
    /\ Set(r, f, [frames[r][f] EXCEPT !.phase = "done"])
    /\ FrameOnly

\* Variant: a node is entered without the checks.
EnteringUnchecked(r, f, kind) == IsAt(r, f, "enter", kind) /\ frames[r][f].at # frames[r][f].stop

Entering(r, f, kind) ==
    /\ IsAt(r, f, "enter", kind)
    /\ frames[r][f].at # frames[r][f].stop
    /\ ~Stopping(r)

EnterStopped(r, f) ==
    /\ In(r, f, "enter") /\ frames[r][f].at # frames[r][f].stop
    /\ Stopping(r)
    /\ FailsOnly(r, f, "stop")

EnterWork(r, f) ==
    \E step \in {<<"agent", "agent">>, <<"parallel", "branches">>, <<"gate", "gate">>} :
        /\ Entering(r, f, step[1])
        /\ Set(r, f, [frames[r][f] EXCEPT !.phase = step[2], !.opened = 0])
        /\ FrameOnly

\* A tool call of the agent changes the workspace.
AgentEdits(r, f) ==
    LET edit == [run |-> r, frame |-> f, node |-> frames[r][f].at, under |-> frames[r][f].under]
    IN  /\ IsAt(r, f, "agent", "agent")
        /\ edit \notin content
        /\ content' = content \cup {edit}
        /\ UNCHANGED <<outside, frames, workers, made, checkpoints, partials, artifacts, historyVars>>

AgentReturns(r, f) ==
    /\ IsAt(r, f, "agent", "agent")
    /\ Set(r, f, Record(frames[r][f], Node(r, f).next))
    /\ FrameOnly

\* The model, a tool, the budget or the observer fails the agent.
AgentFails(r, f) == IsAt(r, f, "agent", "agent") /\ FailsOnly(r, f, "error")

\* Variant: the deadline does not interrupt the model.
AgentStopsOnCancel(r, f) == IsAt(r, f, "agent", "agent") /\ cancelled[r] /\ FailsOnly(r, f, "stop")

AgentStops(r, f) == IsAt(r, f, "agent", "agent") /\ Stopping(r) /\ FailsOnly(r, f, "stop")

\* buffer_unordered polls at most width branches.
OpenBranch(r, f) ==
    LET i == frames[r][f].opened + 1
        branch == Node(r, f).branches[i]
    IN  /\ IsAt(r, f, "branches", "parallel")
        /\ i <= Len(Node(r, f).branches)
        /\ Cardinality(Children(r, f)) < Node(r, f).width
        /\ Call(r, f, [frames[r][f] EXCEPT !.opened = i], Append(f, <<branch, 0>>),
                NewFrame(frames[r][f].graph, branch, Node(r, f).join, frames[r][f].under,
                         frames[r][f].sheltered \/ Node(r, f).mode = "Collect"))
        /\ FrameOnly

\* The next finished branch: its results are merged, or its error collected.
TakeBranch(r, f, g) ==
    /\ IsAt(r, f, "branches", "parallel")
    /\ g \in Children(r, f)
    /\ frames[r][g].phase = "done" \/ (frames[r][g].phase = "failed" /\ Node(r, f).mode = "Collect")
    /\ frames' = [frames EXCEPT ![r] =
                    [h \in {h \in DOMAIN frames[r] : ~IsPrefix(g, h)} |->
                       IF h = f /\ frames[r][g].phase = "done"
                       THEN [frames[r][f] EXCEPT !.results = @ \cup frames[r][g].results]
                       ELSE frames[r][h]]]
    /\ FrameOnly

BranchFailsFast(r, f, g) ==
    /\ IsAt(r, f, "branches", "parallel")
    /\ g \in Children(r, f)
    /\ frames[r][g].phase = "failed" /\ Node(r, f).mode = "FailFast"
    /\ FailsOnly(r, f, "error")

Join(r, f) ==
    /\ IsAt(r, f, "branches", "parallel")
    /\ frames[r][f].opened = Len(Node(r, f).branches) /\ Children(r, f) = {}
    /\ Set(r, f, Record(frames[r][f], Node(r, f).join))
    /\ FrameOnly

GateEvaluates(r, f) ==
    /\ IsAt(r, f, "gate", "gate")
    /\ \E target \in {Node(r, f).pass, Node(r, f).fail, Node(r, f).unsure} :
          Set(r, f, Go(frames[r][f], target))
    /\ FrameOnly

GateFails(r, f) == IsAt(r, f, "gate", "gate") /\ FailsOnly(r, f, "error")

GateStops(r, f) == IsAt(r, f, "gate", "gate") /\ Stopping(r) /\ FailsOnly(r, f, "stop")

---------------------------------------------------------------------------
(* Loop nodes.                                                              *)

Key(r, f) == <<Scope(f), frames[r][f].at, frames[r][f].iteration>>

BodyOf(r, f) == Append(f, <<frames[r][f].at, frames[r][f].iteration>>)

EnterLoop(r, f) ==
    /\ Entering(r, f, "loop")
    /\ Set(r, f, [frames[r][f] EXCEPT !.phase = "iterate", !.iteration = 1])
    /\ FrameOnly

Exhaust(r, f) ==
    /\ IsAt(r, f, "iterate", "loop") /\ frames[r][f].iteration > Node(r, f).max
    /\ Set(r, f, Go(frames[r][f], Node(r, f).exhausted))
    /\ FrameOnly

Iterating(r, f) == IsAt(r, f, "iterate", "loop") /\ frames[r][f].iteration <= Node(r, f).max

RunBody(r, f) ==
    LET body == Node(r, f).body
        under == frames[r][f].under \cup (IF Node(r, f).checkpoint THEN {BodyOf(r, f)} ELSE {})
    IN  Call(r, f, [frames[r][f] EXCEPT !.phase = "body", !.reply = "none"], BodyOf(r, f),
             NewFrame(body, plan[r].graphs[body].entry, None, under, frames[r][f].sheltered))

IteratePlain(r, f) ==
    /\ Iterating(r, f) /\ ~Node(r, f).checkpoint
    /\ RunBody(r, f)
    /\ FrameOnly

\* The checkpoint is registered before its worker is spawned.
BeginCheckpoint(r, f) ==
    /\ Iterating(r, f) /\ Node(r, f).checkpoint /\ ~cancelled[r]
    /\ Set(r, f, [frames[r][f] EXCEPT !.phase = "checkpointing", !.reply = "none"])
    /\ made' = [made EXCEPT ![r].checkpoints = @ \cup {Key(r, f)}]
    /\ Spawn(r, "checkpoint", f, Key(r, f))
    /\ UNCHANGED <<outside, diskVars, historyVars>>

IterateCancelled(r, f) ==
    /\ Iterating(r, f) /\ Node(r, f).checkpoint /\ cancelled[r]
    /\ FailsOnly(r, f, "stop")

CheckpointTaken(r, f) ==
    /\ In(r, f, "checkpointing") /\ frames[r][f].reply = "ok" /\ ~Stopping(r)
    /\ RunBody(r, f)
    /\ FrameOnly

CheckpointFails(r, f) ==
    /\ In(r, f, "checkpointing")
    /\ \/ frames[r][f].reply = "err" /\ FailsOnly(r, f, "error")
       \/ frames[r][f].reply = "ok" /\ Stopping(r) /\ FailsOnly(r, f, "stop")

BodyReturns(r, f) ==
    /\ In(r, f, "body") /\ frames[r][BodyOf(r, f)].phase = "done"
    /\ Collapse(r, f, [frames[r][f] EXCEPT !.phase = "evaluate", !.results = @ \cup {frames[r][f].at}])
    /\ FrameOnly

\* Restore the checkpoint and then return the error (error) or iterate again.
Restoring(r, f, error) ==
    /\ Collapse(r, f, [frames[r][f] EXCEPT !.phase = "restoring", !.reply = "none", !.error = error])
    /\ Spawn(r, "restore", f, Key(r, f))
    /\ UNCHANGED <<outside, diskVars, made, accepted, fatal, broken>>

Again(frame) == [frame EXCEPT !.phase = "iterate", !.iteration = @ + 1]

\* Variant: the error is returned without the restore.
IterationFailsBare(r, f, why) == FailsOnly(r, f, why)

\* The iteration ends in an error, of its body or of its evaluation.
IterationFails(r, f, why) ==
    \/ ~Node(r, f).checkpoint /\ FailsOnly(r, f, why)
    \/ /\ Node(r, f).checkpoint
       /\ Restoring(r, f, TRUE)
       /\ stopped' = [stopped EXCEPT ![r] = @ \/ why = "stop"]

BodyFails(r, f) ==
    /\ In(r, f, "body") /\ frames[r][BodyOf(r, f)].phase = "failed"
    /\ IterationFails(r, f, "error")

EvaluationFails(r, f) == In(r, f, "evaluate") /\ IterationFails(r, f, "error")

EvaluationStops(r, f) == In(r, f, "evaluate") /\ Stopping(r) /\ IterationFails(r, f, "stop")

IterationPasses(r, f) ==
    /\ In(r, f, "evaluate")
    /\ Set(r, f, Go(frames[r][f], Node(r, f).satisfied))
    /\ accepted' = [accepted EXCEPT ![r] = @ \cup {BodyOf(r, f)}]
    /\ UNCHANGED <<outside, diskAndMade, stopped, fatal, broken>>

IterationRejected(r, f) ==
    /\ In(r, f, "evaluate")
    /\ \/ Node(r, f).checkpoint /\ Restoring(r, f, FALSE) /\ UNCHANGED stopped
       \/ ~Node(r, f).checkpoint /\ Set(r, f, Again(frames[r][f])) /\ FrameOnly

RestoreReturns(r, f) ==
    /\ In(r, f, "restoring") /\ frames[r][f].reply = "ok"
    /\ \/ frames[r][f].error /\ FailsOnly(r, f, "error")
       \/ ~frames[r][f].error /\ Set(r, f, Again(frames[r][f])) /\ FrameOnly

RestoreFails(r, f) ==
    /\ In(r, f, "restoring") /\ frames[r][f].reply = "err"
    /\ Fails(r, f, "error")
    /\ broken' = [broken EXCEPT ![r] = TRUE]
    /\ UNCHANGED <<outside, diskAndMade, accepted>>

---------------------------------------------------------------------------
(* End nodes.                                                               *)

EndReturns(r, f) ==
    /\ Entering(r, f, "end")
    /\ \/ Node(r, f).source = "last"
       \/ Node(r, f).source = "named" /\ Node(r, f).name \in frames[r][f].results
    /\ Set(r, f, [frames[r][f] EXCEPT !.phase = "done", !.results = @ \cup {frames[r][f].at}])
    /\ FrameOnly

MissingResult(r, f) ==
    /\ Entering(r, f, "end")
    /\ Node(r, f).source = "named" /\ Node(r, f).name \notin frames[r][f].results
    /\ FailsOnly(r, f, "error")

BeginArtifact(r, f) ==
    /\ Entering(r, f, "end") /\ Node(r, f).source = "artifact"
    /\ Set(r, f, [frames[r][f] EXCEPT !.phase = "storing", !.reply = "none"])
    /\ made' = [made EXCEPT ![r].artifacts = @ \cup {Node(r, f).name}]
    /\ Spawn(r, "artifact", f, Node(r, f).name)
    /\ UNCHANGED <<outside, diskVars, historyVars>>

ArtifactStored(r, f) ==
    /\ In(r, f, "storing") /\ frames[r][f].reply = "ok" /\ ~Stopping(r)
    /\ Set(r, f, [frames[r][f] EXCEPT !.phase = "done", !.results = @ \cup {frames[r][f].at}])
    /\ FrameOnly

ArtifactFails(r, f) ==
    /\ In(r, f, "storing")
    /\ \/ frames[r][f].reply = "err" /\ FailsOnly(r, f, "error")
       \/ frames[r][f].reply = "ok" /\ Stopping(r) /\ FailsOnly(r, f, "stop")

---------------------------------------------------------------------------
(* The blocking workers of the capability host.                             *)

\* The worker is over; its oneshot reaches the frame if the frame is still there.
Report(r, w, reply) ==
    /\ workers' = [workers EXCEPT ![r] = @ \ {w}]
    /\ IF w.frame \in DOMAIN frames[r]
       THEN Set(r, w.frame, [frames[r][w.frame] EXCEPT !.reply = reply])
       ELSE UNCHANGED frames

Advance(r, w) ==
    /\ workers' = [workers EXCEPT ![r] = (@ \ {w}) \cup {[w EXCEPT !.step = "write"]}]
    /\ UNCHANGED frames

WorkerOnly == UNCHANGED <<outside, made, historyVars>>

CheckpointBegins(r, w) ==
    /\ w.kind = "checkpoint" /\ w.step = "begin"
    /\ \/ /\ w.key \notin DOMAIN checkpoints
          /\ checkpoints' = With(checkpoints, w.key, {})
          /\ Advance(r, w)
       \/ \* the directory exists, or a limit is exceeded
          Report(r, w, "err") /\ UNCHANGED checkpoints
    /\ WorkerOnly /\ UNCHANGED <<content, partials, artifacts>>

CheckpointCopies(r, w) ==
    /\ w.kind = "checkpoint" /\ w.step = "write"
    /\ \/ checkpoints' = With(checkpoints, w.key, content) /\ Report(r, w, "ok")
       \/ /\ checkpoints' = [k \in (DOMAIN checkpoints) \ {w.key} |-> checkpoints[k]]
          /\ Report(r, w, "err")
    /\ WorkerOnly /\ UNCHANGED <<content, partials, artifacts>>

\* The scan of the checkpoint, then clear_workspace_entries.
RestoreClears(r, w) ==
    /\ w.kind = "restore" /\ w.step = "begin"
    /\ \/ w.key \in DOMAIN checkpoints /\ content' = {} /\ Advance(r, w)
       \/ Report(r, w, "err") /\ UNCHANGED content
    /\ WorkerOnly /\ UNCHANGED <<checkpoints, partials, artifacts>>

RestoreCopies(r, w) ==
    /\ w.kind = "restore" /\ w.step = "write"
    /\ \/ w.key \in DOMAIN checkpoints /\ content' = content \cup checkpoints[w.key] /\ Report(r, w, "ok")
       \/ Report(r, w, "err") /\ UNCHANGED content
    /\ WorkerOnly /\ UNCHANGED <<checkpoints, partials, artifacts>>

ArtifactBegins(r, w) ==
    /\ w.kind = "artifact" /\ w.step = "begin"
    /\ \/ /\ w.key \notin DOMAIN artifacts \cup partials
          /\ partials' = partials \cup {w.key}
          /\ Advance(r, w)
       \/ \* the partial file exists: create_new fails and the file is removed
          /\ w.key \in partials \ DOMAIN artifacts
          /\ partials' = partials \ {w.key}
          /\ Report(r, w, "err")
       \/ \* the target exists, or the disk or the time limit is exceeded
          Report(r, w, "err") /\ UNCHANGED partials
    /\ WorkerOnly /\ UNCHANGED <<content, checkpoints, artifacts>>

\* Variant: the artifact is copied and its partial file stays.
ArtifactCopies(r, w) ==
    /\ w.kind = "artifact" /\ w.step = "write"
    /\ artifacts' = With(artifacts, w.key, r) /\ Report(r, w, "ok")
    /\ WorkerOnly /\ UNCHANGED <<content, checkpoints, partials>>

ArtifactRenames(r, w) ==
    /\ w.kind = "artifact" /\ w.step = "write"
    /\ partials' = partials \ {w.key}
    /\ \/ artifacts' = With(artifacts, w.key, r) /\ Report(r, w, "ok")
       \/ UNCHANGED artifacts /\ Report(r, w, "err")
    /\ WorkerOnly /\ UNCHANGED <<content, checkpoints>>

---------------------------------------------------------------------------

WorkerStep(r) ==
    \E w \in workers[r] :
        \/ CheckpointBegins(r, w) \/ CheckpointCopies(r, w)
        \/ RestoreClears(r, w) \/ RestoreCopies(r, w)
        \/ ArtifactBegins(r, w) \/ ArtifactRenames(r, w)

\* What a polled frame does of itself.
EngineStep(r) ==
    \/ \E f \in DOMAIN frames[r] :
          \/ ReachJoin(r, f) \/ EnterStopped(r, f) \/ EnterWork(r, f) \/ AgentStops(r, f)
          \/ OpenBranch(r, f) \/ Join(r, f) \/ GateStops(r, f)
          \/ \E g \in Children(r, f) : TakeBranch(r, f, g) \/ BranchFailsFast(r, f, g)
          \/ EnterLoop(r, f) \/ Exhaust(r, f) \/ IteratePlain(r, f) \/ BeginCheckpoint(r, f)
          \/ IterateCancelled(r, f) \/ CheckpointTaken(r, f) \/ CheckpointFails(r, f)
          \/ BodyReturns(r, f) \/ BodyFails(r, f) \/ EvaluationStops(r, f)
          \/ RestoreReturns(r, f) \/ RestoreFails(r, f)
          \/ EndReturns(r, f) \/ MissingResult(r, f) \/ BeginArtifact(r, f)
          \/ ArtifactStored(r, f) \/ ArtifactFails(r, f)
    \/ Finalize(r)
    \/ \E keys \in SUBSET made[r].checkpoints, names \in SUBSET made[r].artifacts :
          FinalizeFails(r, keys, names)

\* What models, tools and evaluators decide.
Outcome(r) ==
    \E f \in DOMAIN frames[r] :
        \/ AgentEdits(r, f) \/ AgentReturns(r, f) \/ AgentFails(r, f)
        \/ GateEvaluates(r, f) \/ GateFails(r, f)
        \/ IterationPasses(r, f) \/ IterationRejected(r, f) \/ EvaluationFails(r, f)

Next ==
    \/ \E r \in Runs :
          \/ \E b \in Blueprints[r] : StartRun(r, b)
          \/ Cancel(r) \/ Expire(r)
          \/ EngineStep(r) \/ Outcome(r) \/ WorkerStep(r)
    \/ Crash

Spec == Init /\ [][Next]_vars

\* The runtime polls frames and runs workers; the wall-time budget runs out.
\* Nothing is assumed of models, tools and evaluators.
Fairness ==
    \A r \in Runs : WF_vars(EngineStep(r)) /\ WF_vars(WorkerStep(r)) /\ WF_vars(Expire(r))

FairSpec == Spec /\ Fairness
---------------------------------------------------------------------------
(* Properties.                                                              *)

Phases == {"enter", "agent", "branches", "gate", "iterate", "checkpointing", "body", "evaluate",
           "restoring", "storing", "done", "failed"}

\* The shapes of the variables; a frame is at a node of its graph.
TypeOK ==
    /\ status \in [Runs -> {"idle", "running", "committed", "failed", "dirty", "crashed"}]
    /\ cancelled \in [Runs -> BOOLEAN] /\ expired \in [Runs -> BOOLEAN]
    /\ stopped \in [Runs -> BOOLEAN] /\ fatal \in [Runs -> BOOLEAN] /\ broken \in [Runs -> BOOLEAN]
    /\ \A r \in Runs :
          /\ \A f \in DOMAIN frames[r] :
                /\ frames[r][f].phase \in Phases
                /\ frames[r][f].graph \in DOMAIN plan[r].graphs
                /\ frames[r][f].at \in DOMAIN plan[r].graphs[frames[r][f].graph].nodes
          /\ \A w \in workers[r] : w.kind \in {"checkpoint", "restore", "artifact"} /\ w.step \in {"begin", "write"}
    /\ partials \cap DOMAIN artifacts = {}
    /\ crashes \in 0 .. MaxCrashes

Ended(r) == status[r] \in {"committed", "failed"}

\* SchedulerEngine::run with WorkspaceCapabilityHost::finalize: when a run is
\* over no worker of it is under way, none of the artifacts it wrote remains if
\* it failed, and none of its session's checkpoints if no run was cut short.
\* A worker whose frame was dropped by a failing sibling must not write after
\* the cleanup.
EndedRunLeavesNothing ==
    \A r \in Runs : Ended(r) =>
        /\ workers[r] = {} /\ DOMAIN frames[r] = {}
        /\ status[r] = "failed" => \A n \in DOMAIN artifacts : artifacts[n] # r
        /\ (\A q \in Runs : status[q] \in {"idle", "committed", "failed"}) => DOMAIN checkpoints = {}

\* execute_graph, Loop: when a run is over the workspace holds no edit of an
\* iteration with a checkpoint that the evaluator did not pass, whether the
\* iteration was rejected, failed, was cancelled or lay inside a rejected one.
\* A restore that failed is the exception, and the run has failed with it.
UnacceptedEditsAreUndone ==
    \A r \in Runs : Ended(r) =>
        /\ broken[r] => status[r] = "failed"
        /\ ~broken[r] => \A e \in content : e.run = r => e.under \subseteq accepted[r]

\* execute_graph, Parallel and the checks at the top of its loop: a failure is
\* absorbed only by a Collect branch, and a cancellation or an expired budget
\* not even by that: the run that met one does not commit.
CommitMeansSuccess ==
    \A r \in Runs : status[r] = "committed" => ~stopped[r] /\ ~fatal[r]

\* buffer_unordered and the drop of the stream: a branch is only executed while
\* its parallel node is, at most max_parallelism at a time, and a loop's body
\* while its loop is.  No frame outlives its caller.
FramesAreNested ==
    \A r \in Runs : \A g \in DOMAIN frames[r] :
        g # << >> =>
            LET f == Front(g)
            IN  /\ In(r, f, IF Last(g)[2] = 0 THEN "branches" ELSE "body")
                /\ Last(g)[2] = 0 => Cardinality(Children(r, f)) <= Node(r, f).width

EndNames(graph) ==
    {graph.nodes[n].name : n \in {m \in DOMAIN graph.nodes : graph.nodes[m].kind = "end"}}

\* The artifacts that the blueprints of a run may name.
NamesOf(r) == UNION {UNION {EndNames(b.graphs[g]) : g \in DOMAIN b.graphs} : b \in Blueprints[r]}

\* What the artifacts of the directory look like from outside: RunTransaction.
Transaction ==
    INSTANCE RunTransaction WITH
        Names <- UNION {NamesOf(r) : r \in Runs},
        phase <- [r \in Runs |-> IF status[r] = "running" THEN "open" ELSE status[r]],
        published <- {<<n, artifacts[n]>> : n \in {m \in DOMAIN artifacts : status[artifacts[m]] # "running"}}

\* A run publishes its artifacts when it ends, a failing one publishes none, and
\* no step of a run takes or replaces what another has published.
ArtifactsAreTransactional == Transaction!Spec

\* Every run ends: workers are bounded, and the wall-time budget interrupts
\* agents and evaluators that do not answer.
RunEnds == \A r \in Runs : status[r] = "running" ~> status[r] # "running"

\* The execution of a graph: well-formed frames inside their callers, and no
\* commit over a failure that nobody absorbed (execute_graph).
SchedulerSound == TypeOK /\ FramesAreNested /\ CommitMeansSuccess
=============================================================================
