---------------------------- MODULE LedgerDomain ----------------------------
(***************************************************************************)
(* The task-ledger domain of crates/agendao-types/src/task_ledger.rs: the  *)
(* ledger snapshot and, for each TaskLedgerOp, the condition under which   *)
(* apply_op accepts it (XOk) and the snapshot it produces (X).             *)
(*                                                                         *)
(* Data.  Statements, questions and claims are opaque values that are      *)
(* never blank: a blank one makes apply_op fail whatever the ledger is,    *)
(* so it is the same as giving the transaction up.  Ids (chk-NN, open-NN,  *)
(* core-NN) are their numbers; 0 is "no id".  Timestamps, actors, prose    *)
(* and artifact ids carry no control and are left out.                     *)
(***************************************************************************)
EXTENDS Integers, Sequences, FiniteSets, SequencesExt

CONSTANTS
    Criteria,       \* acceptance criteria a goal may name
    Statements,     \* non-blank statements (next actions, core entries, questions)
    Interactions,   \* permission and question requests, kind and id together
    Verifiers,      \* the variants of VerifierRef
    None            \* the absent Option

ASSUME NoneAssumption ==
    /\ None \notin Statements
    /\ None \notin [criteria : SUBSET Criteria, checks : SUBSET Criteria]
    /\ None \notin [statement : Statements, pre_interrupt : BOOLEAN]

Statuses == {"Active", "AwaitingUser", "Blocked", "Interrupted", "Completed"}

Goals == [criteria : SUBSET Criteria, checks : SUBSET Criteria]

NextActions == [statement : Statements, pre_interrupt : BOOLEAN]

Checkpoints == [id : Nat, verifier : Verifiers, covered : SUBSET Criteria,
                goal_generation : Nat, supersedes : Nat, superseded_by : Nat]

Questions == [id : Nat, question : Statements, closed_by : Nat]

CoreConstraints == [id : Nat, statement : Statements, live : BOOLEAN]

Ledgers ==
    [revision : Nat, goal_generation : Nat, goal : Goals \cup {None},
     core : Seq(CoreConstraints), verified : Seq(Checkpoints),
     open : Seq(Questions), next : NextActions \cup {None}, status : Statuses,
     awaiting : SUBSET Interactions, blocked_reason : BOOLEAN,
     uncovered : SUBSET Criteria]

EmptyLedger ==
    [revision |-> 0, goal_generation |-> 0, goal |-> None, core |-> <<>>,
     verified |-> <<>>, open |-> <<>>, next |-> None, status |-> "Active",
     awaiting |-> {}, blocked_reason |-> FALSE, uncovered |-> {}]

-----------------------------------------------------------------------------
(* Reading a ledger *)

IsOpen(q) == q.closed_by = 0

OpenQuestions(L) == {i \in DOMAIN L.open : IsOpen(L.open[i])}

\* Positions of the live core entries; slot k is the k-th of them.
LiveCore(L) == {i \in DOMAIN L.core : L.core[i].live}

LiveSlot(L, k) ==
    CHOOSE i \in LiveCore(L) : k = 1 + Cardinality({j \in LiveCore(L) : j < i})

EnsureCreated(L) == L.goal # None

\* The positions of the checkpoints that count as evidence for the current goal.
CurrentCheckpoints(L) ==
    {i \in DOMAIN L.verified : /\ L.verified[i].goal_generation = L.goal_generation
                               /\ L.verified[i].superseded_by = 0}

CoveredCriteria(L) == UNION {L.verified[i].covered : i \in CurrentCheckpoints(L)}

GoalCriteria(L) == IF L.goal = None THEN {} ELSE L.goal.criteria

MissingAcceptanceCriteria(L, uncovered) ==
    GoalCriteria(L) \ (CoveredCriteria(L) \cup uncovered)

\* "{prefix}{max + 1}" over the ids present.
NextSequentialId(ids) ==
    1 + (CHOOSE m \in ids \cup {0} : \A k \in ids \cup {0} : k <= m)

RequireNextForStatus(L, status) ==
    status \in {"Active", "Blocked"} => L.next # None

ValidateGoal(goal) == goal.checks \subseteq goal.criteria

ValidateCompletion(L, uncovered) ==
    /\ OpenQuestions(L) = {}
    /\ L.awaiting = {}
    /\ uncovered \subseteq GoalCriteria(L)
    /\ \A i \in CurrentCheckpoints(L) : L.verified[i].covered \subseteq GoalCriteria(L)
    /\ IF GoalCriteria(L) = {}
       THEN CurrentCheckpoints(L) # {}
       ELSE GoalCriteria(L) \subseteq CoveredCriteria(L) \cup uncovered

CompletionReady(L) == ValidateCompletion(L, {})

\* Variant: the commit trusts the gate that set Completed.
ValidateSnapshotTrusting(L) ==
    /\ RequireNextForStatus(L, L.status)
    /\ L.status = "AwaitingUser" => L.awaiting # {}
    /\ L.status \in {"Active", "Blocked", "Interrupted"} => L.awaiting = {}

ValidateSnapshot(L) ==
    /\ RequireNextForStatus(L, L.status)
    /\ L.status = "AwaitingUser" => L.awaiting # {}
    /\ L.status = "Completed" => /\ L.next = None
                                 /\ ValidateCompletion(L, L.uncovered)
    /\ L.status \in {"Active", "Blocked", "Interrupted"} => L.awaiting = {}

\* Variant: the raw statement where the code builds a NextAction.
NextFromStatementRaw(s) == s

NextFromStatement(s) == [statement |-> s, pre_interrupt |-> FALSE]

\* The next action an interrupt leaves: the same one, marked.
MarkPreInterrupt(next) ==
    IF next = None THEN None ELSE [next EXCEPT !.pre_interrupt = TRUE]

-----------------------------------------------------------------------------
(* apply_op, one operator per TaskLedgerOp *)

CreateOk(L, goal) == L.revision = 0 /\ L.goal = None /\ ValidateGoal(goal)

Create(L, goal, statement) ==
    [L EXCEPT !.goal = goal, !.goal_generation = 1,
              !.next = NextFromStatement(statement), !.status = "Active"]

SetGoalOk(L, goal) == EnsureCreated(L) /\ ValidateGoal(goal)

\* Variant: the generation stays, so old evidence counts for the new goal.
SetGoalSameGeneration(L, goal) == [L EXCEPT !.goal = goal, !.uncovered = {}]

\* Variant: the uncovered declaration of the old goal survives.
SetGoalKeepsUncovered(L, goal) ==
    [L EXCEPT !.goal = goal, !.goal_generation = @ + 1]

SetGoal(L, goal) ==
    [L EXCEPT !.goal = goal, !.goal_generation = @ + 1, !.uncovered = {}]

\* Variant: an off-by-one in the limit of live entries.
AddCoreOkThirdSlot(L, live) ==
    EnsureCreated(L) /\ (live => Cardinality(LiveCore(L)) <= 2)

AddCoreOk(L, live) ==
    EnsureCreated(L) /\ (live => Cardinality(LiveCore(L)) < 2)

CoreIds(core) == {core[i].id : i \in DOMAIN core}

AddCore(L, statement, live) ==
    [L EXCEPT !.core = Append(@, [id |-> NextSequentialId(CoreIds(@)),
                                  statement |-> statement, live |-> live])]

SwapCoreLiveOk(L, slot) == EnsureCreated(L) /\ slot \in {1, 2}

\* The displaced slot is parked; the entry with the incoming statement (the
\* first one, live or parked) is taken out, or a new one made; it goes in at
\* the displaced position, clamped to the end.
SwapCoreLive(L, slot, statement) ==
    LET full     == Cardinality(LiveCore(L)) >= slot
        displ    == IF full THEN LiveSlot(L, slot) ELSE Len(L.core) + 1
        parked   == IF full THEN [L.core EXCEPT ![displ].live = FALSE] ELSE L.core
        same     == {i \in DOMAIN parked : parked[i].statement = statement}
        existing == CHOOSE i \in same : \A j \in same : i <= j
        rest     == IF same = {} THEN parked ELSE RemoveAt(parked, existing)
        entry    == [id |-> IF same = {} THEN NextSequentialId(CoreIds(parked))
                                         ELSE parked[existing].id,
                     statement |-> statement, live |-> TRUE]
        at       == IF displ <= Len(rest) + 1 THEN displ ELSE Len(rest) + 1
    IN  [L EXCEPT !.core = InsertAt(rest, at, entry)]

VerifiedIds(L) == {L.verified[i].id : i \in DOMAIN L.verified}

\* Variant: a checkpoint may be superseded a second time.
AddCheckpointOkTwice(L, covered, supersedes) ==
    /\ EnsureCreated(L)
    /\ covered \subseteq L.goal.criteria
    /\ supersedes # 0 => supersedes \in VerifiedIds(L)

AddCheckpointOk(L, covered, supersedes) ==
    /\ EnsureCreated(L)
    /\ covered \subseteq L.goal.criteria
    /\ supersedes # 0 => \E i \in DOMAIN L.verified :
                            L.verified[i].id = supersedes /\ L.verified[i].superseded_by = 0

NewCheckpoint(L, verifier, covered, supersedes) ==
    [id |-> NextSequentialId(VerifiedIds(L)), verifier |-> verifier, covered |-> covered,
     goal_generation |-> L.goal_generation, supersedes |-> supersedes, superseded_by |-> 0]

\* The superseded entry stays in the history and points forward.
MarkSuperseded(verified, old, new) ==
    [i \in DOMAIN verified |->
        IF old # 0 /\ verified[i].id = old THEN [verified[i] EXCEPT !.superseded_by = new]
                                           ELSE verified[i]]

AddCheckpoint(L, verifier, covered, supersedes) ==
    LET new == NewCheckpoint(L, verifier, covered, supersedes)
    IN  [L EXCEPT !.verified = Append(MarkSuperseded(@, supersedes, new.id), new)]

OpenIds(L) == {L.open[i].id : i \in DOMAIN L.open}

OpenQuestionOk(L) == EnsureCreated(L)

OpenQuestion(L, question) ==
    [L EXCEPT !.open = Append(@, [id |-> NextSequentialId(OpenIds(L)),
                                  question |-> question, closed_by |-> 0])]

CloseOpenWithCheckpointOk(L, open_id, covered) ==
    /\ EnsureCreated(L)
    /\ covered \subseteq L.goal.criteria
    /\ \E i \in DOMAIN L.open : L.open[i].id = open_id /\ IsOpen(L.open[i])

\* Variant: the question names the newest checkpoint before the new one is added.
CloseOpenWithOldCheckpoint(L, open_id, verifier, covered) ==
    LET new == NewCheckpoint(L, verifier, covered, 0)
    IN  [L EXCEPT !.verified = Append(@, new),
                  !.open = [i \in DOMAIN @ |-> IF @[i].id = open_id /\ new.id > 1
                                               THEN [@[i] EXCEPT !.closed_by = new.id - 1]
                                               ELSE @[i]]]

CloseOpenWithCheckpoint(L, open_id, verifier, covered) ==
    LET new == NewCheckpoint(L, verifier, covered, 0)
    IN  [L EXCEPT !.verified = Append(@, new),
                  !.open = [i \in DOMAIN @ |-> IF @[i].id = open_id
                                               THEN [@[i] EXCEPT !.closed_by = new.id]
                                               ELSE @[i]]]

SetNextOk(L) == EnsureCreated(L)

SetNext(L, statement) == [L EXCEPT !.next = NextFromStatement(statement)]

\* Leaving Completed through SetStatus forgets the uncovered declaration.
SetStatus(L, status) ==
    [L EXCEPT !.status = status,
              !.uncovered = IF L.status = "Completed" /\ status # "Completed" THEN {} ELSE @]

\* Variant: AwaitingUser without its require_next.
SetAwaitingOkAnyNext(L) == EnsureCreated(L)

\* SetStatus(AwaitingUser) requires a next action as Active does.
SetAwaitingOk(L) == EnsureCreated(L) /\ RequireNextForStatus(L, "Active")

SetAwaiting(L, interaction) ==
    SetStatus([L EXCEPT !.awaiting = @ \cup {interaction}], "AwaitingUser")

SetBlockedOk(L) == EnsureCreated(L) /\ RequireNextForStatus(L, "Blocked")

SetBlocked(L) == SetStatus([L EXCEPT !.blocked_reason = TRUE], "Blocked")

SetActiveOk(L) == EnsureCreated(L) /\ L.awaiting = {} /\ RequireNextForStatus(L, "Active")

SetActive(L) == SetStatus([L EXCEPT !.blocked_reason = FALSE], "Active")

SetInterruptedOk(L) == EnsureCreated(L)

SetInterrupted(L) ==
    SetStatus([L EXCEPT !.next = MarkPreInterrupt(@), !.awaiting = {}], "Interrupted")

SetCompletedOk(L) == EnsureCreated(L) /\ ValidateCompletion(L, L.uncovered)

SetCompleted(L) ==
    SetStatus([L EXCEPT !.blocked_reason = FALSE, !.next = None], "Completed")

ResolveInteractionOk(L, interaction) == EnsureCreated(L) /\ interaction \in L.awaiting

ResolveInteraction(L, interaction) ==
    [L EXCEPT !.awaiting = @ \ {interaction},
              !.status = IF L.awaiting = {interaction} /\ @ = "AwaitingUser"
                         THEN "Active" ELSE @]

InterruptOk(L) == EnsureCreated(L)

Interrupt(L) ==
    [L EXCEPT !.next = MarkPreInterrupt(@), !.status = "Interrupted", !.awaiting = {}]

CompleteOk(L, uncovered) == EnsureCreated(L) /\ ValidateCompletion(L, uncovered)

Complete(L, uncovered) ==
    [L EXCEPT !.uncovered = uncovered, !.status = "Completed",
              !.blocked_reason = FALSE, !.next = None]

\* Variant: start_goal drops the history with the open questions.
StartGoalForgets(L, goal, statement) ==
    [L EXCEPT !.goal_generation = IF L.goal = None THEN 1 ELSE @ + 1,
              !.goal = goal, !.open = <<>>, !.verified = <<>>, !.awaiting = {},
              !.blocked_reason = FALSE, !.uncovered = {},
              !.next = NextFromStatement(statement), !.status = "Active"]

\* start_goal before its revision bump: history and core stay, the rest of the
\* previous goal's state goes.
StartGoal(L, goal, statement) ==
    [L EXCEPT !.goal_generation = IF L.goal = None THEN 1 ELSE @ + 1,
              !.goal = goal, !.open = <<>>, !.awaiting = {}, !.blocked_reason = FALSE,
              !.uncovered = {}, !.next = NextFromStatement(statement),
              !.status = "Active"]

Bump(L) == [L EXCEPT !.revision = @ + 1]
=============================================================================
