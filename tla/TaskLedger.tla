----------------------------- MODULE TaskLedger -----------------------------
(***************************************************************************)
(* The ledger of one session under concurrent writers: SessionTaskLedger   *)
(* with apply_batch and start_goal (agendao-types/src/task_ledger.rs).     *)
(*                                                                         *)
(* A writer reads the revision (Read) and later opens a transaction that   *)
(* carries it (Begin); apply_batch clones the ledger, applies the          *)
(* operations one by one to the clone, validates the clone and replaces    *)
(* the ledger, all while the caller holds the session lock (holder).  The  *)
(* clone is the variable staged, so a batch may have any length and any    *)
(* mixture of operations; an operation or a validation that fails gives    *)
(* the whole clone up (Reject).                                            *)
(***************************************************************************)
EXTENDS LedgerDomain

CONSTANTS
    Writers,
    MaxRevision, MaxGeneration, MaxBatch,   \* bounds of a run
    MaxCore, MaxVerified, MaxOpen

ASSUME BoundsAssumption ==
    /\ None \notin Writers
    /\ MaxRevision \in Nat
    /\ MaxGeneration \in Nat
    /\ MaxBatch \in Nat
    /\ MaxCore \in Nat
    /\ MaxVerified \in Nat
    /\ MaxOpen \in Nat

VARIABLES
    ledger,     \* the committed snapshot
    staged,     \* apply_batch's working copy; equal to ledger outside a batch
    holder,     \* the writer inside apply_batch, or None
    applied,    \* how many operations of the batch have been applied
    expected    \* expected[w]: the revision writer w read last

vars == <<ledger, staged, holder, applied, expected>>

Init ==
    /\ ledger = EmptyLedger
    /\ staged = EmptyLedger
    /\ holder = None
    /\ applied = 0
    /\ expected = [w \in Writers |-> 0]

-----------------------------------------------------------------------------
Read(w) ==
    /\ holder # w
    /\ expected' = [expected EXCEPT ![w] = ledger.revision]
    /\ UNCHANGED <<ledger, staged, holder, applied>>

\* apply_batch up to the clone.  With a stale revision it returns
\* RevisionConflict and nothing changes.
Begin(w) ==
    /\ holder = None
    /\ expected[w] = ledger.revision
    /\ ledger.revision < MaxRevision
    /\ holder' = w
    /\ staged' = ledger
    /\ applied' = 0
    /\ UNCHANGED <<ledger, expected>>

\* One operation of the batch: the clone becomes L.
Stage(L) ==
    /\ holder # None
    /\ applied < MaxBatch
    /\ applied' = applied + 1
    /\ staged' = L
    /\ UNCHANGED <<ledger, holder, expected>>

OpCreate(goal, s) == CreateOk(staged, goal) /\ Stage(Create(staged, goal, s))

OpSetGoal(goal) ==
    /\ staged.goal_generation < MaxGeneration
    /\ SetGoalOk(staged, goal)
    /\ Stage(SetGoal(staged, goal))

OpAddCore(s, live) ==
    /\ Len(staged.core) < MaxCore
    /\ AddCoreOk(staged, live)
    /\ Stage(AddCore(staged, s, live))

OpSwapCoreLive(slot, s) ==
    /\ Len(staged.core) < MaxCore \/ \E i \in DOMAIN staged.core : staged.core[i].statement = s
    /\ SwapCoreLiveOk(staged, slot)
    /\ Stage(SwapCoreLive(staged, slot, s))

OpAddCheckpoint(verifier, covered, supersedes) ==
    /\ Len(staged.verified) < MaxVerified
    /\ AddCheckpointOk(staged, covered, supersedes)
    /\ Stage(AddCheckpoint(staged, verifier, covered, supersedes))

OpOpenQuestion(q) ==
    /\ Len(staged.open) < MaxOpen
    /\ OpenQuestionOk(staged)
    /\ Stage(OpenQuestion(staged, q))

OpCloseOpenWithCheckpoint(open_id, verifier, covered) ==
    /\ Len(staged.verified) < MaxVerified
    /\ CloseOpenWithCheckpointOk(staged, open_id, covered)
    /\ Stage(CloseOpenWithCheckpoint(staged, open_id, verifier, covered))

OpSetNext(s) == SetNextOk(staged) /\ Stage(SetNext(staged, s))

OpSetAwaiting(x) == SetAwaitingOk(staged) /\ Stage(SetAwaiting(staged, x))

OpSetBlocked == SetBlockedOk(staged) /\ Stage(SetBlocked(staged))

OpSetActive == SetActiveOk(staged) /\ Stage(SetActive(staged))

OpSetInterrupted == SetInterruptedOk(staged) /\ Stage(SetInterrupted(staged))

OpSetCompleted == SetCompletedOk(staged) /\ Stage(SetCompleted(staged))

OpResolveInteraction(x) ==
    ResolveInteractionOk(staged, x) /\ Stage(ResolveInteraction(staged, x))

OpInterrupt == InterruptOk(staged) /\ Stage(Interrupt(staged))

OpComplete(uncovered) ==
    CompleteOk(staged, uncovered) /\ Stage(Complete(staged, uncovered))

\* apply_batch after its last operation: validate, bump, replace.
Commit ==
    /\ holder # None
    /\ ValidateSnapshot(staged)
    /\ ledger' = Bump(staged)
    /\ staged' = Bump(staged)
    /\ holder' = None
    /\ applied' = 0
    /\ UNCHANGED expected

\* An operation failed (a blank statement fails in every ledger) or the
\* validation did: the clone is dropped.
Reject ==
    /\ holder # None
    /\ staged' = ledger
    /\ holder' = None
    /\ applied' = 0
    /\ UNCHANGED <<ledger, expected>>

\* start_goal: the same transaction with one fixed operation.
StartGoalTx(w, goal, s) ==
    /\ holder = None
    /\ expected[w] = ledger.revision
    /\ ledger.revision < MaxRevision
    /\ ledger.goal_generation < MaxGeneration
    /\ ValidateGoal(goal)
    /\ ValidateSnapshot(StartGoal(ledger, goal, s))
    /\ ledger' = Bump(StartGoal(ledger, goal, s))
    /\ staged' = ledger'
    /\ UNCHANGED <<holder, applied, expected>>

GoalOp ==
    \E goal \in Goals : \/ OpSetGoal(goal)
                        \/ \E s \in Statements : OpCreate(goal, s)

CoreOp ==
    \E s \in Statements : \/ \E live \in BOOLEAN : OpAddCore(s, live)
                          \/ \E slot \in {1, 2} : OpSwapCoreLive(slot, s)

EvidenceOp ==
    \/ \E v \in Verifiers, c \in SUBSET Criteria :
          \/ \E p \in 0..Len(staged.verified) : OpAddCheckpoint(v, c, p)
          \/ \E q \in DOMAIN staged.open : OpCloseOpenWithCheckpoint(staged.open[q].id, v, c)
    \/ \E s \in Statements : OpOpenQuestion(s)

StatusOp ==
    \/ \E s \in Statements : OpSetNext(s)
    \/ \E x \in Interactions : OpSetAwaiting(x) \/ OpResolveInteraction(x)
    \/ OpSetBlocked
    \/ OpSetActive
    \/ OpSetInterrupted
    \/ OpSetCompleted
    \/ OpInterrupt
    \/ \E u \in SUBSET Criteria : OpComplete(u)

Next ==
    \/ \E w \in Writers :
          \/ Read(w)
          \/ Begin(w)
          \/ \E goal \in Goals, s \in Statements : StartGoalTx(w, goal, s)
    \/ GoalOp
    \/ CoreOp
    \/ EvidenceOp
    \/ StatusOp
    \/ Commit
    \/ Reject

Spec == Init /\ [][Next]_vars

-----------------------------------------------------------------------------
(* Properties *)

\* Every variable holds a value of its Rust type; outside a batch the working
\* copy is the ledger.
TypeOK ==
    /\ ledger \in Ledgers
    /\ staged \in Ledgers
    /\ holder \in Writers \cup {None}
    /\ applied \in Nat
    /\ expected \in [Writers -> Nat]

\* Documented invariant 5, "awaiting_user carries the interaction kind/id and
\* keeps a next".  validate_snapshot never looks at next for AwaitingUser: it
\* holds because every way to lose next ends in Completed, and no interaction
\* can be awaited from there.
AwaitingUserKeepsNext ==
    ledger.status = "AwaitingUser" => ledger.awaiting # {} /\ ledger.next # None

\* A checkpoint that still counts for the goal names only criteria of that goal,
\* and so does the uncovered declaration, in every snapshot and inside every
\* batch: replacing the goal (SetGoal, start_goal) must retire both.
EvidenceRefersToGoal(L) ==
    /\ \A i \in DOMAIN L.verified :
          L.verified[i].goal_generation = L.goal_generation
             => L.verified[i].covered \subseteq GoalCriteria(L)
    /\ L.uncovered \subseteq GoalCriteria(L)

EvidenceMatchesGoal == EvidenceRefersToGoal(ledger) /\ EvidenceRefersToGoal(staged)

\* Documented invariant 1: a correction supersedes.  A superseded checkpoint
\* points forward to the one checkpoint that names it, so the history is a set
\* of forward chains: no cycle, no checkpoint corrected twice.
SupersedeChains(L) ==
    \A i \in DOMAIN L.verified :
        /\ L.verified[i].id = i
        /\ L.verified[i].superseded_by # 0 =>
              /\ L.verified[i].superseded_by \in (i + 1)..Len(L.verified)
              /\ L.verified[L.verified[i].superseded_by].supersedes = i
        /\ L.verified[i].supersedes # 0 =>
              /\ L.verified[i].supersedes \in 1..(i - 1)
              /\ L.verified[L.verified[i].supersedes].superseded_by = i

HistoryIsForwardChains == SupersedeChains(ledger) /\ SupersedeChains(staged)

\* Documented invariant 3: a closed question names a checkpoint that exists,
\* that supersedes nothing, and that closed no other question.
ClosedByOwnCheckpoint ==
    \A i, j \in DOMAIN ledger.open :
        ~ IsOpen(ledger.open[i]) =>
            /\ ledger.open[i].closed_by \in DOMAIN ledger.verified
            /\ ledger.verified[ledger.open[i].closed_by].supersedes = 0
            /\ ledger.open[i].closed_by = ledger.open[j].closed_by => i = j

\* Documented invariant 7: at most two core constraints are live, and the ids
\* of the entries stay distinct through every removal and reinsertion.
CoreWithinLimit(L) ==
    /\ Cardinality(LiveCore(L)) <= 2
    /\ CoreIds(L.core) = DOMAIN L.core

CoreLimit == CoreWithinLimit(ledger) /\ CoreWithinLimit(staged)

\* A completed ledger has nothing pending and every criterion of its goal is
\* either covered by evidence of this very goal that nothing superseded, or was
\* declared uncovered.  The gate runs at three places (Complete, SetStatus,
\* validate_snapshot); a later operation must not undermine it.
CompletedIsEvidenced ==
    ledger.status = "Completed" =>
        /\ ledger.next = None /\ ledger.awaiting = {} /\ OpenQuestions(ledger) = {}
        /\ MissingAcceptanceCriteria(ledger, ledger.uncovered) = {}
        /\ GoalCriteria(ledger) = {} => CurrentCheckpoints(ledger) # {}

\* Documented invariant 1 as a step property: no step of any writer drops or
\* rewrites a checkpoint; it may only mark one superseded, once.
KeepsCheckpoint(old, new) ==
    /\ new = [old EXCEPT !.superseded_by = new.superseded_by]
    /\ old.superseded_by # 0 => new.superseded_by = old.superseded_by

VerifiedAppendOnly ==
    [][/\ Len(ledger.verified) <= Len(ledger'.verified)
       /\ \A i \in DOMAIN ledger.verified :
             KeepsCheckpoint(ledger.verified[i], ledger'.verified[i])]_vars

\* A commit is one revision, and what the ledger accepts as evidence changes
\* its goal only together with the generation: a checkpoint of an earlier goal
\* can never become current again.
GenerationTracksGoal ==
    [][/\ ledger' # ledger => ledger'.revision = ledger.revision + 1
       /\ ledger'.goal # ledger.goal => ledger'.goal_generation > ledger.goal_generation
       /\ ledger'.goal_generation >= ledger.goal_generation]_vars

\* The shape of a ledger that every reader relies on, in all of its lists: the
\* waits, the history, the questions and the core (validate_snapshot sees only
\* part of it; the operations keep the rest).
LedgerSound ==
    /\ TypeOK
    /\ AwaitingUserKeepsNext
    /\ HistoryIsForwardChains
    /\ ClosedByOwnCheckpoint
    /\ CoreLimit

\* Evidence is for this goal, and a goal is completed on nothing else
\* (complete, validate_snapshot, SetGoal).
EvidenceSound == EvidenceMatchesGoal /\ CompletedIsEvidenced
=============================================================================
