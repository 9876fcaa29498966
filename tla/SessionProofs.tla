---------------------------- MODULE SessionProofs ----------------------------
(***************************************************************************)
(* Theorems about SessionRun, for all sets of goals, statements and        *)
(* prompts and all bounds: WellFormed types the records, Owned says whose  *)
(* each token, flag and reservation is, Stopping what a cancelled run has  *)
(* still to record, Driving who continues an active goal.                  *)
(*                                                                         *)
(* The second part is about StallControl, the detector that steers such    *)
(* runs, for all agents, runs and budgets: StallInv counts the attempt of  *)
(* every steering done or to come, and ties a decision to its evidence.    *)
(***************************************************************************)
EXTENDS SessionRun, StallControl, SequenceTheorems, FiniteSetTheorems, WellFoundedInduction, TLAPS

-----------------------------------------------------------------------------
(* Numbers and ids *)

\* A set of natural numbers that is not empty has a least element.
LEMMA LeastNumber ==
    ASSUME NEW S \in SUBSET Nat, S # {}
    PROVE  \E i \in S : \A j \in S : i <= j
<1> DEFINE R == OpToRel(<, Nat)
<1>1. IsWellFoundedOn(R, Nat)
    BY NatLessThanWellFounded
<1>2. \A i, j \in Nat : i < j => <<i, j>> \in R
    BY DEF OpToRel
<1> HIDE DEF R
<1>3. PICK i \in S : \A j \in S : ~(<<j, i>> \in R)
    BY <1>1, WFMin
<1>4. \A j \in S : ~(j < i)
    BY <1>2, <1>3
<1> QED
    BY <1>4

\* The numbers along a finite sequence are bounded: a shortest prefix without
\* a bound would have one.
LEMMA NumbersAreBounded ==
    ASSUME NEW n \in Nat, NEW f, \A i \in 1..n : f[i] \in Nat
    PROVE  \E b \in Nat : \A i \in 1..n : f[i] <= b
<1> DEFINE bounded(m) == \E b \in Nat : \A i \in 1..m : f[i] <= b
           bad == {m \in 0..n : ~ bounded(m)}
<1>1. CASE bad = {}
    BY <1>1
<1>2. CASE bad # {}
  <2>1. bad \in SUBSET Nat
      OBVIOUS
  <2>2. PICK m \in bad : \A j \in bad : m <= j
      BY <1>2, <2>1, LeastNumber
  <2>3. bounded(0)
      OBVIOUS
  <2>4. m \in 1..n /\ m - 1 \in 0..n /\ ~ (m <= m - 1)
      BY <2>2, <2>3
  <2>5. bounded(m - 1)
      BY <2>2, <2>4
  <2>6. PICK b \in Nat : \A i \in 1..(m - 1) : f[i] <= b
      BY <2>5
  <2> DEFINE c == IF f[m] <= b THEN b ELSE f[m]
  <2>7. f[m] \in Nat
      BY <2>4
  <2>8. c \in Nat /\ b <= c /\ f[m] <= c
      BY <2>6, <2>7
  <2>9. \A i \in 1..m : f[i] <= c
    <3> TAKE i \in 1..m
    <3>1. CASE i = m
        BY <3>1, <2>8
    <3>2. CASE i \in 1..(m - 1)
      <4>1. f[i] <= b /\ f[i] \in Nat
          BY <3>2, <2>4, <2>6
      <4> QED
          BY <4>1, <2>6, <2>8
    <3> QED
        BY <3>1, <3>2, <2>4
  <2> QED
      BY <2>2, <2>8, <2>9
<1> QED
    BY <1>1, <1>2

\* The next id is a number whenever the ids are those of a finite sequence.
LEMMA NextIdIsNumber ==
    ASSUME NEW n \in Nat, NEW f, \A i \in 1..n : f[i] \in Nat,
           NEW ids, ids = {f[i] : i \in 1..n}
    PROVE  NextSequentialId(ids) \in Nat \ {0}
<1> DEFINE S == ids \cup {0}
           upper == {b \in Nat : \A k \in S : k <= b}
<1>1. PICK b \in Nat : \A i \in 1..n : f[i] <= b
    BY NumbersAreBounded
<1>2. b \in upper /\ S \in SUBSET Nat
    BY <1>1
<1>3. PICK m \in upper : \A j \in upper : m <= j
  <2>1. upper \in SUBSET Nat /\ upper # {}
      BY <1>2
  <2> QED
      BY <2>1, LeastNumber
<1>4. m \in S
  <2>1. SUFFICES ASSUME m \notin S PROVE FALSE
      OBVIOUS
  <2>2. m # 0 /\ m \in Nat
      BY <2>1, <1>3
  <2>3. \A k \in S : k <= m /\ k # m /\ k \in Nat
      BY <2>1, <1>2, <1>3
  <2>4. m - 1 \in Nat /\ \A k \in S : k <= m - 1
      BY <2>2, <2>3
  <2> QED
      BY <2>4, <1>3, <2>2
<1>5. \E x \in S : \A k \in S : k <= x
    BY <1>3, <1>4
<1> DEFINE top == CHOOSE x \in S : \A k \in S : k <= x
<1>6. top \in S
    BY <1>5
<1>7. top \in Nat /\ NextSequentialId(ids) = 1 + top
    BY <1>2, <1>6 DEF NextSequentialId
<1> HIDE DEF top
<1> QED
    BY <1>7

\* The ids the ledger hands out are numbers.
LEMMA LedgerIdsAreNumbers ==
    ASSUME NEW L \in Ledgers
    PROVE  /\ NextSequentialId(VerifiedIds(L)) \in Nat \ {0}
           /\ NextSequentialId(OpenIds(L)) \in Nat \ {0}
<1>1. /\ L.verified \in Seq(Checkpoints) /\ L.open \in Seq(Questions)
      /\ Len(L.verified) \in Nat /\ Len(L.open) \in Nat
      /\ DOMAIN L.verified = 1..Len(L.verified) /\ DOMAIN L.open = 1..Len(L.open)
    BY DEF Ledgers
<1> DEFINE f == [i \in 1..Len(L.verified) |-> L.verified[i].id]
           g == [i \in 1..Len(L.open) |-> L.open[i].id]
<1>2. /\ \A i \in 1..Len(L.verified) : f[i] \in Nat
      /\ \A i \in 1..Len(L.open) : g[i] \in Nat
  <2>1. \A i \in 1..Len(L.verified) : L.verified[i] \in Checkpoints
      BY <1>1, ElementOfSeq
  <2>2. \A i \in 1..Len(L.open) : L.open[i] \in Questions
      BY <1>1, ElementOfSeq
  <2> QED
      BY <2>1, <2>2 DEF Checkpoints, Questions
<1>3. /\ VerifiedIds(L) = {f[i] : i \in 1..Len(L.verified)}
      /\ OpenIds(L) = {g[i] : i \in 1..Len(L.open)}
    BY <1>1 DEF VerifiedIds, OpenIds
<1> HIDE DEF f, g
<1> QED
    BY <1>1, <1>2, <1>3, NextIdIsNumber

-----------------------------------------------------------------------------
(* What the seams do to a ledger *)

\* What a run may rely on when no abort and no user interferes: nothing is
\* awaited, and an active goal has a generation and a next action.
Steady(L) ==
    /\ L.awaiting = {}
    /\ L.goal # None => L.goal_generation >= 1 /\ (L.status = "Active" => L.next # None)

\* A ledger has a revision as soon as it has a goal.
Created(L) == L.goal = None <=> L.revision = 0

\* M is a ledger that keeps what L was steady in, with L's revision and goal.
Carries(L, M) ==
    /\ M \in Ledgers
    /\ M.goal = L.goal
    /\ M.revision = L.revision
    /\ Steady(L) => Steady(M)

\* The next-action record of a statement is there.
LEMMA NextIsThere ==
    ASSUME NEW s \in Statements
    PROVE  NextFromStatement(s) \in NextActions /\ NextFromStatement(s) # None
<1>1. NextFromStatement(s) \in NextActions
    BY DEF NextFromStatement, NextActions
<1>2. None \notin NextActions
    BY NoneAssumption DEF NextActions
<1> QED
    BY <1>1, <1>2

\* Only the revision moves.
LEMMA BumpKeeps ==
    ASSUME NEW L \in Ledgers
    PROVE  /\ Bump(L) \in Ledgers
           /\ Bump(L).revision = L.revision + 1
           /\ Bump(L).goal = L.goal /\ Bump(L).status = L.status
           /\ Steady(L) => Steady(Bump(L))
           /\ Bump(L).verified = L.verified
BY DEF Bump, Ledgers, Steady

\* A dispatched batch is dropped or committed with a new revision.
LEMMA DispatchStep ==
    ASSUME NEW L \in Ledgers, NEW ok \in BOOLEAN, NEW M, ok => Carries(L, M)
    PROVE  LET R == Dispatch(L, ok, M)
           IN  /\ R \in Ledgers
               /\ Steady(L) => Steady(R)
               /\ R.revision >= L.revision
               /\ Created(L) => Created(R)
               /\ R # L => R = Bump(M) /\ R.revision = L.revision + 1
<1>1. CASE Dispatch(L, ok, M) = L
    BY <1>1 DEF Ledgers
<1>2. CASE L.goal # None /\ Carries(L, M) /\ Dispatch(L, ok, M) = Bump(M)
  <2>1. /\ Bump(M) \in Ledgers /\ Bump(M).revision = L.revision + 1 /\ Bump(M).goal = L.goal
        /\ Steady(L) => Steady(Bump(M))
      BY <1>2, BumpKeeps DEF Carries
  <2>2. L.revision \in Nat
      BY DEF Ledgers
  <2> QED
      BY <1>2, <2>1, <2>2 DEF Created
<1> QED
    BY <1>1, <1>2 DEF Dispatch

\* SetNext, SetBlocked and SetActive change the next action or the status only.
LEMMA StatusOpsCarry ==
    ASSUME NEW L \in Ledgers
    PROVE  /\ \A s \in Statements : Carries(L, SetNext(L, s)) /\ SetNext(L, s).status = L.status
           /\ Carries(L, SetBlocked(L)) /\ SetBlocked(L).status = "Blocked"
           /\ SetActiveOk(L) => Carries(L, SetActive(L))
           /\ CompletionReady(L) => Carries(L, Complete(L, {}))
<1>1. \A s \in Statements : Carries(L, SetNext(L, s)) /\ SetNext(L, s).status = L.status
    BY NextIsThere DEF Carries, SetNext, Ledgers, Steady
<1>2. Carries(L, SetBlocked(L)) /\ SetBlocked(L).status = "Blocked"
    BY DEF Carries, SetBlocked, SetStatus, Ledgers, Steady, Statuses
<1>3. ASSUME SetActiveOk(L) PROVE Carries(L, SetActive(L))
    BY <1>3 DEF Carries, SetActive, SetActiveOk, SetStatus, RequireNextForStatus, Ledgers, Steady, Statuses
<1>4. ASSUME CompletionReady(L) PROVE Carries(L, Complete(L, {}))
    BY DEF Carries, Complete, Ledgers, Steady, Statuses
<1> QED
    BY <1>1, <1>2, <1>3, <1>4

\* A checkpoint without coverage is added at the end.
LEMMA AddCheckpointCarries ==
    ASSUME NEW L \in Ledgers, NEW v \in Verifiers
    PROVE  LET M == AddCheckpoint(L, v, {}, 0)
           IN  /\ Carries(L, M) /\ M.status = L.status
               /\ Len(M.verified) = Len(L.verified) + 1
<1> DEFINE new == NewCheckpoint(L, v, {}, 0)
           old == MarkSuperseded(L.verified, 0, new.id)
<1>1. new \in Checkpoints
    BY LedgerIdsAreNumbers DEF NewCheckpoint, Checkpoints, Ledgers
<1>2. L.verified \in Seq(Checkpoints) /\ old = L.verified
    BY DEF MarkSuperseded, Ledgers
<1>3. Append(old, new) \in Seq(Checkpoints) /\ Len(Append(old, new)) = Len(L.verified) + 1
    BY <1>1, <1>2
<1>4. AddCheckpoint(L, v, {}, 0) = [L EXCEPT !.verified = Append(old, new)]
    BY DEF AddCheckpoint
<1> HIDE DEF new, old
<1> QED
    BY <1>3, <1>4 DEF Carries, Ledgers, Steady

\* An interrupted ledger says so.
LEMMA InterruptSays ==
    ASSUME NEW L \in Ledgers
    PROVE  LET R == RecoveryInterrupted(L)
           IN  /\ R \in Ledgers /\ R.revision >= L.revision
               /\ R.goal = L.goal /\ (Created(L) => Created(R))
               /\ R.goal # None => R.status = "Interrupted"
               /\ L.goal # None /\ L.status # "Interrupted" => R.revision = L.revision + 1
<1> DEFINE M == Interrupt(L)
<1>1. MarkPreInterrupt(L.next) \in NextActions \cup {None}
    BY DEF MarkPreInterrupt, NextActions, Ledgers
<1>2. /\ M \in Ledgers /\ M.awaiting = {} /\ M.status = "Interrupted"
      /\ M.goal = L.goal /\ M.revision = L.revision
    BY <1>1 DEF Ledgers, Interrupt, Statuses
<1>3. CASE L.goal # None /\ L.status # "Interrupted"
  <2>1. ValidateSnapshot(M)
      BY <1>2 DEF ValidateSnapshot, RequireNextForStatus
  <2>2. RecoveryInterrupted(L) = Bump(M)
      BY <1>3, <2>1 DEF RecoveryInterrupted, Dispatch, InterruptOk, EnsureCreated
  <2>3. /\ Bump(M) \in Ledgers /\ Bump(M).revision = L.revision + 1
        /\ Bump(M).goal = L.goal /\ Bump(M).status = "Interrupted"
      BY <1>2, BumpKeeps
  <2>4. L.revision \in Nat
      BY DEF Ledgers
  <2> QED
      BY <1>3, <2>2, <2>3, <2>4 DEF Created
<1>4. CASE ~ (L.goal # None /\ L.status # "Interrupted")
    BY <1>4 DEF RecoveryInterrupted, Dispatch, Ledgers
<1> QED
    BY <1>3, <1>4

\* A new goal starts steady whatever the ledger was.
LEMMA StartGoalSteady ==
    ASSUME NEW L \in Ledgers, NEW s \in Statements
    PROVE  LET R == Bump(StartGoal(L, PlainGoal, s))
           IN  R \in Ledgers /\ Steady(R) /\ Created(R)
<1> DEFINE M == StartGoal(L, PlainGoal, s)
<1>1. PlainGoal \in Goals
    BY DEF PlainGoal, Goals
<1>2. <<>> \in Seq(Questions)
    OBVIOUS
<1>3. M \in Ledgers
  <2>1. NextFromStatement(s) \in NextActions /\ NextFromStatement(s) # None
      BY NextIsThere
  <2>2. (IF L.goal = None THEN 1 ELSE L.goal_generation + 1) \in Nat
      BY DEF Ledgers
  <2>3. "Active" \in Statuses
      BY DEF Statuses
  <2> QED
      BY <1>1, <1>2, <2>1, <2>2, <2>3 DEF StartGoal, Ledgers
<1>4. M.awaiting = {} /\ M.next # None /\ M.goal_generation >= 1
    BY NextIsThere DEF StartGoal, Ledgers
<1>5. Steady(M)
    BY <1>4 DEF Steady
<1>6. M.goal = PlainGoal /\ PlainGoal # None /\ M.revision \in Nat
    BY <1>1, <1>3, NoneAssumption DEF StartGoal, Ledgers, Goals
<1>7. Created(Bump(M))
    BY <1>3, <1>6, BumpKeeps DEF Created
<1> QED
    BY <1>3, <1>5, <1>7, BumpKeeps

\* The checks of a goal are finitely many and can be put in an order.
LEMMA ChecksInOrder ==
    ASSUME NEW S \in SUBSET Criteria
    PROVE  LET order == SetToSeq(S)
           IN  \E n \in Nat : order \in [1..n -> S]
<1>1. IsFiniteSet(S)
    BY SessionAssumption, FS_Subset
<1>2. Cardinality(S) \in Nat /\ ExistsBijection(1..Cardinality(S), S)
    BY <1>1, FS_CardinalityType
<1> DEFINE n == Cardinality(S)
<1>3. PICK f : f \in Bijection(1..n, S)
    BY <1>2 DEF ExistsBijection
<1>4. f \in [1..n -> S] /\ IsInjective(f)
    BY <1>3 DEF Bijection, Injection, IsInjective
<1>5. SetToSeq(S) \in [1..n -> S]
    BY <1>4 DEF SetToSeq
<1> QED
    BY <1>2, <1>5

\* The checkpoints of a verified goal follow the ones that are there.
LEMMA CheckedCriteriaCarries ==
    ASSUME NEW L \in Ledgers, L.goal # None
    PROVE  Carries(L, CheckedCriteria(L)) /\ CheckedCriteria(L).status = L.status
<1> DEFINE order == SetToSeq(L.goal.checks)
           first == NewCheckpoint(L, "DeterministicCheck", {}, 0)
           new   == [k \in DOMAIN order |-> [first EXCEPT !.id = @ + k - 1, !.covered = {order[k]}]]
<1>1. L.goal \in Goals /\ L.goal.checks \in SUBSET Criteria
    BY DEF Ledgers, Goals
<1>2. PICK n \in Nat : order \in [1..n -> L.goal.checks]
    BY <1>1, ChecksInOrder
<1>3. "DeterministicCheck" \in Verifiers
    BY SessionAssumption
<1>4. first \in Checkpoints
    BY <1>3, LedgerIdsAreNumbers DEF NewCheckpoint, Checkpoints, Ledgers
<1> HIDE DEF order, first
<1>5. \A k \in 1..n : new[k] \in Checkpoints
  <2> TAKE k \in 1..n
  <2>1. new[k] = [first EXCEPT !.id = @ + k - 1, !.covered = {order[k]}]
      BY <1>2
  <2>2. order[k] \in Criteria /\ first.id + k - 1 \in Nat
      BY <1>1, <1>2, <1>4 DEF Checkpoints
  <2>3. \A i \in Nat, c \in SUBSET Criteria : [first EXCEPT !.id = i, !.covered = c] \in Checkpoints
      BY <1>4 DEF Checkpoints
  <2>4. new[k] = [first EXCEPT !.id = first.id + k - 1, !.covered = {order[k]}]
      BY <2>1
  <2>5. {order[k]} \in SUBSET Criteria
      BY <2>2
  <2> QED
      BY <2>2, <2>3, <2>4, <2>5
<1>6. new \in Seq(Checkpoints)
  <2>1. new \in [1..n -> Checkpoints]
      BY <1>2, <1>5
  <2> HIDE DEF new
  <2>2. new \in UNION {[1..m -> Checkpoints] : m \in Nat}
      BY <1>2, <2>1
  <2> QED
      BY <2>2, SeqDef
<1>7. L.verified \o new \in Seq(Checkpoints)
    BY <1>6, ConcatProperties DEF Ledgers
<1>8. CheckedCriteria(L) = [L EXCEPT !.verified = L.verified \o new]
    BY DEF CheckedCriteria, order, first
<1> HIDE DEF new
<1> QED
    BY <1>7, <1>8 DEF Carries, Ledgers, Steady

-----------------------------------------------------------------------------
(* The records are well formed *)

Queueable == (Kinds \ {"web"}) \cup {"auto"}

Followups == [kind : Queueable, generation : Nat]

GoodSession(s) == s \in SessionRecords /\ Created(s.ledger)

\* Queued prompts come from the busy check, which no web prompt reaches; the
\* checks of a goal remember a revision of a ledger that had one.
GoodRun(x) ==
    /\ x \in Runs
    /\ x.step \in {"check", "enqueue"} => x.kind \in Queueable
    /\ Created(x.copy.ledger)
    /\ x.step = "checking" => x.revision # 0

WellFormed ==
    /\ TypeOK
    /\ GoodSession(session)
    /\ \A r \in Slots : GoodRun(run[r])

USE DEF At, Goto

\* The steps of a prompt, by name.
LEMMA StepNames ==
    /\ {"none", "validate", "reserve", "insert", "check", "enqueue", "goal", "clear"} \subseteq RunSteps
    /\ {"clone", "busy", "input", "give_up", "guard", "seam", "fetch", "assistant"} \subseteq RunSteps
    /\ {"register", "running", "review", "verify", "checking", "final", "settle", "tail"} \subseteq RunSteps
    /\ {"prepare", "plan", "block", "finish", "release", "idle", "adopt", "queue", "take"} \subseteq RunSteps
BY DEF RunSteps, Ingress

\* What the steps make of a slot's record.
LEMMA RunEdits ==
    ASSUME NEW x, GoodRun(x), NEW st \in RunSteps, st \in {"check", "enqueue"} => x.kind \in Queueable
    PROVE  /\ st # "checking" =>
                /\ GoodRun([x EXCEPT !.step = st])
                /\ GoodRun([x EXCEPT !.step = st, !.reserved = TRUE])
                /\ \A s : GoodSession(s) => GoodRun([x EXCEPT !.copy = s, !.step = st])
                /\ \A n \in Nat : /\ GoodRun([x EXCEPT !.step = st, !.scope = n])
                                  /\ GoodRun([x EXCEPT !.step = st, !.armed = n])
                                  /\ GoodRun([x EXCEPT !.step = st, !.revision = n])
           /\ \A n \in Nat \ {0} : GoodRun([x EXCEPT !.step = st, !.revision = n])
           /\ GoodRun([x EXCEPT !.cancelled = TRUE])
<1>1. ASSUME st # "checking" PROVE GoodRun([x EXCEPT !.step = st]) /\ GoodRun([x EXCEPT !.step = st, !.reserved = TRUE])
    BY <1>1 DEF GoodRun, Runs
<1>2. ASSUME st # "checking", NEW s, GoodSession(s) PROVE GoodRun([x EXCEPT !.copy = s, !.step = st])
    BY <1>2 DEF GoodRun, Runs, GoodSession
<1>3. ASSUME st # "checking", NEW n \in Nat
      PROVE  /\ GoodRun([x EXCEPT !.step = st, !.scope = n])
             /\ GoodRun([x EXCEPT !.step = st, !.armed = n])
             /\ GoodRun([x EXCEPT !.step = st, !.revision = n])
    BY <1>3 DEF GoodRun, Runs
<1>4. ASSUME NEW n \in Nat \ {0} PROVE GoodRun([x EXCEPT !.step = st, !.revision = n])
    BY <1>4 DEF GoodRun, Runs
<1>5. GoodRun([x EXCEPT !.cancelled = TRUE])
    BY DEF GoodRun, Runs
<1> QED
    BY <1>1, <1>2, <1>3, <1>4, <1>5

\* The records a slot starts from.
LEMMA FreshRuns ==
    /\ GoodSession(NoSession)
    /\ GoodRun(NoRun) /\ NoRun.step = "none"
    /\ \A kind \in Kinds \cup {"auto"}, g \in Nat, a \in BOOLEAN :
          /\ GoodRun(Requested(kind, g, a))
          /\ Requested(kind, g, a).step = FirstStep(kind)
<1>1. EmptyLedger \in Ledgers /\ Created(EmptyLedger)
    BY DEF EmptyLedger, Ledgers, Statuses, Created
<1>2. GoodSession(NoSession)
    BY <1>1 DEF NoSession, SessionRecords, GoodSession
<1>3. NoRun \in Runs /\ NoRun.step = "none"
    BY <1>2, StepNames DEF NoRun, Runs, GoodSession
<1>4. GoodRun(NoRun)
    BY <1>2, <1>3 DEF GoodRun, NoRun, GoodSession
<1>5. ASSUME NEW kind \in Kinds \cup {"auto"}, NEW g \in Nat, NEW a \in BOOLEAN
      PROVE  GoodRun(Requested(kind, g, a)) /\ Requested(kind, g, a).step = FirstStep(kind)
  <2>1. FirstStep(kind) \in RunSteps /\ FirstStep(kind) \in {"validate", "reserve", "check"}
      BY StepNames DEF FirstStep
  <2>2. FirstStep(kind) = "check" => kind \in Queueable
      BY DEF FirstStep, Queueable
  <2>3. \A st \in RunSteps :
           LET x == [NoRun EXCEPT !.step = st, !.kind = kind, !.generation = g, !.adopted = a]
           IN  x \in Runs /\ x.step = st /\ x.kind = kind /\ x.copy = NoRun.copy
      BY <1>3 DEF Runs
  <2>4. Requested(kind, g, a) = [NoRun EXCEPT !.step = FirstStep(kind), !.kind = kind, !.generation = g, !.adopted = a]
      BY DEF Requested
  <2> QED
      BY <1>4, <2>1, <2>2, <2>3, <2>4 DEF GoodRun
<1> QED
    BY <1>2, <1>3, <1>4, <1>5

\* A slot takes a new record and the rest keeps its type.
LEMMA SlotUpdate ==
    ASSUME WellFormed, NEW r \in Slots, NEW x, GoodRun(x), run' = [run EXCEPT ![r] = x]
    PROVE  run' \in [Slots -> Runs] /\ \A q \in Slots : GoodRun(run'[q])
BY DEF WellFormed, TypeOK, GoodRun

\* A slot moves on.
LEMMA SlotMoves ==
    ASSUME WellFormed, NEW r \in Slots, NEW step \in RunSteps \ {"check", "enqueue", "checking"}, Goto(r, step)
    PROVE  run' \in [Slots -> Runs] /\ \A q \in Slots : GoodRun(run'[q])
<1>1. run \in [Slots -> Runs] /\ GoodRun(run[r])
    BY DEF WellFormed, TypeOK
<1> DEFINE x == [run[r] EXCEPT !.step = step]
<1>2. GoodRun(x)
    BY <1>1, RunEdits
<1>3. run' = [run EXCEPT ![r] = x]
    BY <1>1
<1> HIDE DEF x
<1> QED
    BY <1>2, <1>3, SlotUpdate

\* A run that starts keeps a steady ledger steady.
LEMMA RunStartedKeeps ==
    ASSUME NEW L \in Ledgers
    PROVE  LET R == RunStarted(L)
           IN  R \in Ledgers /\ (Steady(L) => Steady(R)) /\ (Created(L) => Created(R))
<1>1. SetActiveOk(L) => Carries(L, SetActive(L))
    BY StatusOpsCarry
<1>2. (L.status = "Interrupted" /\ SetActiveOk(L)) \in BOOLEAN
    OBVIOUS
<1> QED
    BY <1>1, <1>2, DispatchStep DEF RunStarted

\* A completed ledger is steady if the ledger was.
LEMMA FinalResponseKeeps ==
    ASSUME NEW L \in Ledgers
    PROVE  LET R == FinalResponseCommitted(L)
           IN  R \in Ledgers /\ (Steady(L) => Steady(R)) /\ (Created(L) => Created(R))
<1>1. CompletionReady(L) => Carries(L, Complete(L, {}))
    BY StatusOpsCarry
<1>2. (CompletionReady(L) /\ L.status # "Completed") \in BOOLEAN
    OBVIOUS
<1> QED
    BY <1>1, <1>2, DispatchStep DEF FinalResponseCommitted

\* A batch that is committed has the next revision.
LEMMA CommitCarries ==
    ASSUME NEW L \in Ledgers, NEW M, Carries(L, M), L.goal # None
    PROVE  LET R == Bump(M)
           IN  /\ R \in Ledgers /\ Created(R) /\ (Steady(L) => Steady(R))
               /\ R.revision = L.revision + 1 /\ R.goal = L.goal /\ R.status = M.status
<1>1. /\ Bump(M) \in Ledgers /\ (Steady(L) => Steady(Bump(M))) /\ Bump(M).status = M.status
      /\ Bump(M).revision = L.revision + 1 /\ Bump(M).goal = L.goal
    BY BumpKeeps DEF Carries
<1>2. L.revision \in Nat
    BY DEF Ledgers
<1> QED
    BY <1>1, <1>2 DEF Created

\* A marker is renewed only below the stagnation limit.
LEMMA MarkerAdvances ==
    ASSUME NEW L \in Ledgers, NEW m \in Markers \cup {None}, ~ Exhausted(m, L)
    PROVE  NextMarker(m, L) \in Markers
<1>1. Fingerprint(L) \in Fingerprints
  <2>1. L.open \in Seq(Questions) /\ L.verified \in Seq(Checkpoints)
      BY DEF Ledgers
  <2>2. \A i \in DOMAIN L.open : L.open[i].id \in Nat
    <3>1. \A i \in 1..Len(L.open) : L.open[i] \in Questions
        BY <2>1, ElementOfSeq
    <3> QED
      <4>1. DOMAIN L.open = 1..Len(L.open) /\ \A x \in Questions : x.id \in Nat
          BY <2>1 DEF Questions
      <4> QED
          BY <3>1, <4>1
  <2>3. \A i \in DOMAIN L.verified : L.verified[i].id \in Nat
    <3>1. \A i \in 1..Len(L.verified) : L.verified[i] \in Checkpoints
        BY <2>1, ElementOfSeq
    <3> QED
      <4>1. DOMAIN L.verified = 1..Len(L.verified) /\ \A x \in Checkpoints : x.id \in Nat
          BY <2>1 DEF Checkpoints
      <4> QED
          BY <3>1, <4>1
  <2>4. (IF L.next = None THEN None ELSE L.next.statement) \in Statements \cup {None}
      BY DEF Ledgers, NextActions
  <2>5. /\ {L.open[i].id : i \in OpenQuestions(L)} \in SUBSET Nat
        /\ {L.verified[i].id : i \in CurrentCheckpoints(L)} \in SUBSET Nat
      BY <2>2, <2>3 DEF OpenQuestions, CurrentCheckpoints
  <2> QED
      BY <2>4, <2>5 DEF Fingerprint, Fingerprints, Ledgers
<1>2. Stagnant(m, L) \in Nat
    BY DEF Stagnant, Markers
<1>3. Stagnant(m, L) \in 0..(StagnationLimit - 1)
    BY <1>2, SessionAssumption DEF Exhausted
<1> QED
    BY <1>1, <1>3 DEF NextMarker, Markers, Ledgers

\* The queue's type, by its name.
LEMMA KindsOfFollowups == Seq(Followups) = Seq([kind : (Kinds \ {"web"}) \cup {"auto"}, generation : Nat])
BY DEF Followups, Queueable

\* The prompt that is adopted was queued.
LEMMA PreferredIsQueued ==
    ASSUME TypeOK, followups # <<>>
    PROVE  Preferred \in 1..Len(followups)
<1>1. Len(followups) \in Nat \ {0} /\ DOMAIN followups = 1..Len(followups)
    BY DEF TypeOK
<1> DEFINE human == {i \in DOMAIN followups : followups[i].kind # "auto"}
<1>2. CASE human = {}
    BY <1>1, <1>2 DEF Preferred
<1>3. CASE human # {}
  <2>1. human \in SUBSET Nat
      BY <1>1
  <2>2. Preferred = CHOOSE i \in human : \A j \in human : i <= j
      BY <1>3 DEF Preferred
  <2> HIDE DEF human
  <2>3. \E i \in human : \A j \in human : i <= j
      BY <1>3, <2>1, LeastNumber
  <2>4. Preferred \in human
      BY <2>2, <2>3
  <2> QED
      BY <1>1, <2>4 DEF human
<1> QED
    BY <1>2, <1>3

\* What RemoveAt leaves is a queue.
LEMMA RemoveAtQueue ==
    ASSUME NEW F, NEW q \in Seq(F), NEW i \in 1..Len(q)
    PROVE  RemoveAt(q, i) \in Seq(F)
<1>1. SubSeq(q, 1, i - 1) \in Seq(F) /\ SubSeq(q, i + 1, Len(q)) \in Seq(F)
    BY SubSeqProperties
<1> QED
    BY <1>1, ConcatProperties DEF RemoveAt

\* Taking a follow-up leaves the queue and the slot well formed.
LEMMA TakesFollowup ==
    ASSUME WellFormed, NEW r \in Slots, followups # <<>>, TakeFollowup(r)
    PROVE  /\ run' \in [Slots -> Runs] /\ \A q \in Slots : GoodRun(run'[q])
           /\ followups' \in Seq(Followups)
<1> DEFINE i == Preferred
           x == Requested(followups[i].kind, followups[i].generation, TRUE)
<1>1. followups \in Seq(Followups) /\ i \in 1..Len(followups)
    BY PreferredIsQueued, KindsOfFollowups DEF WellFormed, TypeOK
<1>2. run' = [run EXCEPT ![r] = x] /\ followups' = RemoveAt(followups, i)
    BY DEF TakeFollowup
<1> HIDE DEF i
<1>3. followups[i] \in Followups
    BY <1>1, ElementOfSeq
<1>4. followups[i].kind \in Kinds \cup {"auto"} /\ followups[i].generation \in Nat
    BY <1>3 DEF Followups, Queueable
<1>5. GoodRun(x)
    BY <1>4, FreshRuns
<1>6. RemoveAt(followups, i) \in Seq(Followups)
    BY <1>1, RemoveAtQueue
<1> HIDE DEF x
<1> QED
    BY <1>2, <1>5, <1>6, SlotUpdate

\* Every step of a prompt's own task keeps the records well formed.
LEMMA RunStepWellFormed ==
    ASSUME WellFormed, NEW r \in Slots, RunStep(r)
    PROVE  WellFormed'
<1>1. CASE SetBusy(r)
  <2>1. PICK st \in {"input"} : Goto(r, st)
      BY <1>1 DEF SetBusy
  <2>2. run' \in [Slots -> Runs] /\ \A q \in Slots : GoodRun(run'[q])
      BY <2>1, StepNames, SlotMoves
  <2> QED
      BY <1>1, <2>2, KindsOfFollowups DEF SetBusy, WellFormed, TypeOK
<1>2. CASE GiveUpReservation(r)
  <2>1. PICK st \in {"guard"} : Goto(r, st)
      BY <1>2 DEF GiveUpReservation
  <2>2. run' \in [Slots -> Runs] /\ \A q \in Slots : GoodRun(run'[q])
      BY <2>1, StepNames, SlotMoves
  <2> QED
      BY <1>2, <2>2, KindsOfFollowups DEF GiveUpReservation, WellFormed, TypeOK
<1>3. CASE FinishRun(r)
  <2>1. PICK st \in {"release"} : Goto(r, st)
      BY <1>3 DEF FinishRun
  <2>2. run' \in [Slots -> Runs] /\ \A q \in Slots : GoodRun(run'[q])
      BY <2>1, StepNames, SlotMoves
  <2> QED
      BY <1>3, <2>2, KindsOfFollowups DEF FinishRun, WellFormed, TypeOK
<1>4. CASE ReleaseRun(r)
  <2>1. PICK st \in {"idle"} : Goto(r, st)
      BY <1>4 DEF ReleaseRun
  <2>2. run' \in [Slots -> Runs] /\ \A q \in Slots : GoodRun(run'[q])
      BY <2>1, StepNames, SlotMoves
  <2> QED
      BY <1>4, <2>2, KindsOfFollowups DEF ReleaseRun, WellFormed, TypeOK
<1>5. CASE SetIdle(r)
  <2>1. PICK st \in {"adopt"} : Goto(r, st)
      BY <1>5 DEF SetIdle
  <2>2. run' \in [Slots -> Runs] /\ \A q \in Slots : GoodRun(run'[q])
      BY <2>1, StepNames, SlotMoves
  <2> QED
      BY <1>5, <2>2, KindsOfFollowups DEF SetIdle, WellFormed, TypeOK
<1>6. CASE CommitInput(r)
  <2>1. PICK st \in {"seam"} : Goto(r, st)
      BY <1>6 DEF CommitInput
  <2>2. run' \in [Slots -> Runs] /\ \A q \in Slots : GoodRun(run'[q])
      BY <2>1, StepNames, SlotMoves
  <2>3. GoodSession(session')
      BY <1>6 DEF CommitInput, WellFormed, GoodRun, GoodSession, Runs
  <2> QED
      BY <1>6, <2>2, <2>3, KindsOfFollowups DEF CommitInput, WellFormed, TypeOK, GoodSession
<1>7. CASE AddAssistant(r)
  <2>1. PICK st \in {"register"} : Goto(r, st)
      BY <1>7 DEF AddAssistant
  <2>2. run' \in [Slots -> Runs] /\ \A q \in Slots : GoodRun(run'[q])
      BY <2>1, StepNames, SlotMoves
  <2>3. GoodSession(session')
      BY <1>7 DEF AddAssistant, WellFormed, GoodRun, GoodSession, Runs
  <2> QED
      BY <1>7, <2>2, <2>3, KindsOfFollowups DEF AddAssistant, WellFormed, TypeOK, GoodSession
<1>8. CASE InputError(r)
  <2>1. PICK st \in {"give_up", "guard"} : Goto(r, st)
      BY <1>8 DEF InputError
  <2>2. run' \in [Slots -> Runs] /\ \A q \in Slots : GoodRun(run'[q])
      BY <2>1, StepNames, SlotMoves
  <2>3. GoodSession(session')
      BY <1>8 DEF InputError, WellFormed, GoodRun, GoodSession, Runs
  <2> QED
      BY <1>8, <2>2, <2>3, KindsOfFollowups DEF InputError, WellFormed, TypeOK, GoodSession
<1>9. CASE FinalCheck(r)
  <2>1. PICK st \in {"tail", "settle"} : Goto(r, st)
      BY <1>9 DEF FinalCheck
  <2>2. run' \in [Slots -> Runs] /\ \A q \in Slots : GoodRun(run'[q])
      BY <2>1, StepNames, SlotMoves
  <2> QED
      BY <1>9, <2>2, KindsOfFollowups DEF FinalCheck, WellFormed, TypeOK
<1>10. CASE PrepareCheck(r)
  <2>1. PICK st \in {"finish", "plan"} : Goto(r, st)
      BY <1>10 DEF PrepareCheck
  <2>2. run' \in [Slots -> Runs] /\ \A q \in Slots : GoodRun(run'[q])
      BY <2>1, StepNames, SlotMoves
  <2> QED
      BY <1>10, <2>2, KindsOfFollowups DEF PrepareCheck, WellFormed, TypeOK
<1>11. CASE ClearMarker(r)
  <2>1. PICK st \in {"clone"} : Goto(r, st)
      BY <1>11 DEF ClearMarker
  <2>2. run' \in [Slots -> Runs] /\ \A q \in Slots : GoodRun(run'[q])
      BY <2>1, StepNames, SlotMoves
  <2>3. GoodSession(session')
      BY <1>11 DEF ClearMarker, WellFormed, GoodSession, SessionRecords
  <2> QED
      BY <1>11, <2>2, <2>3, KindsOfFollowups DEF ClearMarker, WellFormed, TypeOK, GoodSession
<1>12. CASE StartLedgerRun(r)
  <2>1. PICK st \in {"fetch"} : Goto(r, st)
      BY <1>12 DEF StartLedgerRun
  <2>2. run' \in [Slots -> Runs] /\ \A q \in Slots : GoodRun(run'[q])
      BY <2>1, StepNames, SlotMoves
  <2>3. GoodSession(session')
    <3>1. GoodSession([session EXCEPT !.ledger = RunStarted(session.ledger)])
        BY RunStartedKeeps DEF WellFormed, GoodSession, SessionRecords
    <3> QED
        BY <1>12, <3>1 DEF StartLedgerRun, WellFormed
  <2> QED
      BY <1>12, <2>2, <2>3, KindsOfFollowups DEF StartLedgerRun, WellFormed, TypeOK, GoodSession
<1>13. CASE CommitFinal(r)
  <2>1. PICK st \in {"tail"} : Goto(r, st)
      BY <1>13 DEF CommitFinal
  <2>2. run' \in [Slots -> Runs] /\ \A q \in Slots : GoodRun(run'[q])
      BY <2>1, StepNames, SlotMoves
  <2>3. GoodSession(session')
    <3>1. GoodSession([session EXCEPT !.ledger = FinalResponseCommitted(session.ledger)])
        BY FinalResponseKeeps DEF WellFormed, GoodSession, SessionRecords
    <3> QED
        BY <1>13, <3>1 DEF CommitFinal, WellFormed
  <2> QED
      BY <1>13, <2>2, <2>3, KindsOfFollowups DEF CommitFinal, WellFormed, TypeOK, GoodSession
<1>14. CASE RunTail(r)
  <2>1. PICK st \in {"prepare"} : Goto(r, st)
      BY <1>14 DEF RunTail
  <2>2. run' \in [Slots -> Runs] /\ \A q \in Slots : GoodRun(run'[q])
      BY <2>1, StepNames, SlotMoves
  <2>3. GoodSession(session')
    <3>1. GoodSession([session EXCEPT !.ledger = RecoveryInterrupted(session.ledger)])
        BY InterruptSays DEF WellFormed, GoodSession, SessionRecords
    <3> QED
        BY <1>14, <3>1 DEF RunTail, WellFormed
  <2> QED
      BY <1>14, <2>2, <2>3, KindsOfFollowups DEF RunTail, WellFormed, TypeOK, GoodSession
<1>15. CASE ReserveInsert(r)
  <2> DEFINE x == [run[r] EXCEPT !.step = "clear", !.reserved = TRUE]
  <2>0. GoodRun(x)
      BY StepNames, RunEdits DEF WellFormed
  <2>1. run' = [run EXCEPT ![r] = x]
      BY <1>15 DEF ReserveInsert, WellFormed, TypeOK
  <2> HIDE DEF x
  <2>2. run' \in [Slots -> Runs] /\ \A q \in Slots : GoodRun(run'[q])
      BY <2>0, <2>1, SlotUpdate
  <2> QED
      BY <1>15, <2>2, KindsOfFollowups DEF ReserveInsert, WellFormed, TypeOK
<1>16. CASE CloneSession(r)
  <2> DEFINE x == [run[r] EXCEPT !.copy = session, !.step = "busy"]
  <2>0. GoodRun(x)
      BY StepNames, RunEdits DEF WellFormed
  <2>1. run' = [run EXCEPT ![r] = x]
      BY <1>16 DEF CloneSession, WellFormed, TypeOK
  <2> HIDE DEF x
  <2>2. run' \in [Slots -> Runs] /\ \A q \in Slots : GoodRun(run'[q])
      BY <2>0, <2>1, SlotUpdate
  <2> QED
      BY <1>16, <2>2, KindsOfFollowups DEF CloneSession, WellFormed, TypeOK
<1>17. CASE FetchSession(r)
  <2> DEFINE x == [run[r] EXCEPT !.copy = session, !.step = "assistant"]
  <2>0. GoodRun(x)
      BY StepNames, RunEdits DEF WellFormed
  <2>1. run' = [run EXCEPT ![r] = x]
      BY <1>17 DEF FetchSession, WellFormed, TypeOK
  <2> HIDE DEF x
  <2>2. run' \in [Slots -> Runs] /\ \A q \in Slots : GoodRun(run'[q])
      BY <2>0, <2>1, SlotUpdate
  <2> QED
      BY <1>17, <2>2, KindsOfFollowups DEF FetchSession, WellFormed, TypeOK
<1>18. CASE SchedulerReturns(r)
  <2> DEFINE x == [run[r] EXCEPT !.copy = session, !.step = "review"]
  <2>0. GoodRun(x)
      BY StepNames, RunEdits DEF WellFormed
  <2>1. run' = [run EXCEPT ![r] = x]
      BY <1>18 DEF SchedulerReturns, WellFormed, TypeOK
  <2> HIDE DEF x
  <2>2. run' \in [Slots -> Runs] /\ \A q \in Slots : GoodRun(run'[q])
      BY <2>0, <2>1, SlotUpdate
  <2> QED
      BY <1>18, <2>2, KindsOfFollowups DEF SchedulerReturns, WellFormed, TypeOK
<1>19. CASE UpdateSession(r)
  <2> DEFINE x == [run[r] EXCEPT !.copy = NoSession, !.step = "verify"]
  <2>0. GoodRun(x)
      BY StepNames, FreshRuns, RunEdits DEF WellFormed
  <2>1. run' = [run EXCEPT ![r] = x]
      BY <1>19 DEF UpdateSession, WellFormed, TypeOK
  <2> HIDE DEF x
  <2>2. run' \in [Slots -> Runs] /\ \A q \in Slots : GoodRun(run'[q])
      BY <2>0, <2>1, SlotUpdate
  <2>3. GoodSession(session')
      BY <1>19 DEF UpdateSession, WellFormed, GoodRun, GoodSession, Runs
  <2> QED
      BY <1>19, <2>2, <2>3, KindsOfFollowups DEF UpdateSession, WellFormed, TypeOK, GoodSession
<1>20. CASE RegisterRun(r)
  <2> DEFINE x == [run[r] EXCEPT !.step = "running", !.scope = session.ledger.goal_generation]
  <2>0. GoodRun(x)
    <3>1. session.ledger.goal_generation \in Nat
        BY DEF WellFormed, GoodSession, SessionRecords, Ledgers
    <3> QED
        BY <3>1, StepNames, RunEdits DEF WellFormed
  <2>1. run' = [run EXCEPT ![r] = x]
      BY <1>20 DEF RegisterRun, WellFormed, TypeOK
  <2> HIDE DEF x
  <2>2. run' \in [Slots -> Runs] /\ \A q \in Slots : GoodRun(run'[q])
      BY <2>0, <2>1, SlotUpdate
  <2> QED
      BY <1>20, <2>2, KindsOfFollowups DEF RegisterRun, WellFormed, TypeOK
<1>21. CASE GuardIdle(r)
  <2> DEFINE x == NoRun
  <2>0. GoodRun(x)
      BY FreshRuns
  <2>1. run' = [run EXCEPT ![r] = x]
      BY <1>21 DEF GuardIdle, WellFormed, TypeOK
  <2> HIDE DEF x
  <2>2. run' \in [Slots -> Runs] /\ \A q \in Slots : GoodRun(run'[q])
      BY <2>0, <2>1, SlotUpdate
  <2> QED
      BY <1>21, <2>2, KindsOfFollowups DEF GuardIdle, WellFormed, TypeOK
<1>22. CASE Enqueue(r)
  <2> DEFINE x == NoRun
  <2>0. GoodRun(x)
      BY FreshRuns
  <2>1. run' = [run EXCEPT ![r] = x]
      BY <1>22 DEF Enqueue, WellFormed, TypeOK
  <2> HIDE DEF x
  <2>2. run' \in [Slots -> Runs] /\ \A q \in Slots : GoodRun(run'[q])
      BY <2>0, <2>1, SlotUpdate
  <2>4. followups' \in Seq(Followups)
    <3>1. [kind |-> run[r].kind, generation |-> run[r].generation] \in Followups
        BY <1>22 DEF Enqueue, WellFormed, GoodRun, Runs, Followups
    <3>2. followups \in Seq(Followups)
        BY KindsOfFollowups DEF WellFormed, TypeOK
    <3> QED
        BY <1>22, <3>1, <3>2 DEF Enqueue
  <2> QED
      BY <1>22, <2>2, <2>4, KindsOfFollowups DEF Enqueue, WellFormed, TypeOK
<1>23. CASE BusyCheck(r)
  <2>1. PICK st \in {"enqueue", "goal", "clear"} : Goto(r, st)
      BY <1>23 DEF BusyCheck
  <2> DEFINE x == [run[r] EXCEPT !.step = st]
  <2>3. run[r].kind \in Queueable
      BY <1>23 DEF BusyCheck, WellFormed, GoodRun
  <2>4. GoodRun(x)
      BY <2>1, <2>3, StepNames, RunEdits DEF WellFormed
  <2>5. run' = [run EXCEPT ![r] = x]
      BY <2>1 DEF WellFormed, TypeOK
  <2> HIDE DEF x
  <2>2. run' \in [Slots -> Runs] /\ \A q \in Slots : GoodRun(run'[q])
      BY <2>4, <2>5, SlotUpdate
  <2> QED
      BY <1>23, <2>2, KindsOfFollowups DEF BusyCheck, WellFormed, TypeOK
<1>24. CASE ValidateAuto(r)
  <2> DEFINE y == [run[r] EXCEPT !.step = "reserve"]
  <2>1. run' = [run EXCEPT ![r] = NoRun] \/ run' = [run EXCEPT ![r] = y]
      BY <1>24 DEF ValidateAuto
  <2>3. GoodRun(y)
      BY StepNames, RunEdits DEF WellFormed
  <2> HIDE DEF y
  <2>2. run' \in [Slots -> Runs] /\ \A q \in Slots : GoodRun(run'[q])
      BY <2>1, <2>3, FreshRuns, SlotUpdate
  <2> QED
      BY <1>24, <2>2, KindsOfFollowups DEF ValidateAuto, WellFormed, TypeOK
<1>25. CASE ReserveCheck(r)
  <2> DEFINE y == [run[r] EXCEPT !.step = "insert"]
             z == [run[r] EXCEPT !.step = "check"]
  <2>1. \/ run' = [run EXCEPT ![r] = NoRun]
        \/ run' = [run EXCEPT ![r] = y]
        \/ run' = [run EXCEPT ![r] = z] /\ run[r].kind = "auto"
      BY <1>25 DEF ReserveCheck
  <2>3. GoodRun(y) /\ (run[r].kind = "auto" => GoodRun(z))
    <3>1. run[r].kind = "auto" => run[r].kind \in Queueable
        BY DEF Queueable
    <3> QED
        BY <3>1, StepNames, RunEdits DEF WellFormed
  <2> HIDE DEF y, z
  <2>2. run' \in [Slots -> Runs] /\ \A q \in Slots : GoodRun(run'[q])
      BY <2>1, <2>3, FreshRuns, SlotUpdate
  <2> QED
      BY <1>25, <2>2, KindsOfFollowups DEF ReserveCheck, WellFormed, TypeOK
<1>26. CASE StartTaskGoal(r)
  <2>2. run' \in [Slots -> Runs] /\ \A q \in Slots : GoodRun(run'[q])
    <3>1. CASE Goto(r, "clear")
      <4>1. "clear" \in RunSteps \ {"check", "enqueue", "checking"}
          BY StepNames
      <4> QED
          BY <3>1, <4>1, SlotMoves
    <3>2. CASE run' = [run EXCEPT ![r] = NoRun]
        BY <3>2, FreshRuns, SlotUpdate
    <3> QED
        BY <1>26, <3>1, <3>2 DEF StartTaskGoal
  <2>3. GoodSession(session')
    <3>1. session.ledger \in Ledgers
        BY DEF WellFormed, GoodSession, SessionRecords
    <3>2. ASSUME NEW s \in Statements
          PROVE  GoodSession([ledger |-> Bump(StartGoal(session.ledger, PlainGoal, s)), marker |-> None])
        BY <3>1, StartGoalSteady DEF GoodSession, SessionRecords
    <3> QED
        BY <1>26, <3>2 DEF StartTaskGoal, WellFormed
  <2> QED
      BY <1>26, <2>2, <2>3, KindsOfFollowups DEF StartTaskGoal, WellFormed, TypeOK, GoodSession
<1>27. CASE VerifyBegin(r)
  <2> DEFINE a == [run[r] EXCEPT !.step = "tail"]
             b == [run[r] EXCEPT !.step = "final"]
             c == [run[r] EXCEPT !.step = "checking", !.revision = session.ledger.revision]
  <2>1. \/ run' = [run EXCEPT ![r] = a]
        \/ run' = [run EXCEPT ![r] = b]
        \/ run' = [run EXCEPT ![r] = c] /\ session.ledger.goal # None
      BY <1>27 DEF VerifyBegin, NothingToVerify
  <2>3. session.ledger.goal # None => session.ledger.revision \in Nat \ {0}
      BY DEF WellFormed, GoodSession, SessionRecords, Created, Ledgers
  <2>4. GoodRun(a) /\ GoodRun(b) /\ (session.ledger.goal # None => GoodRun(c))
      BY <2>3, StepNames, RunEdits DEF WellFormed
  <2> HIDE DEF a, b, c
  <2>2. run' \in [Slots -> Runs] /\ \A q \in Slots : GoodRun(run'[q])
      BY <2>1, <2>4, SlotUpdate
  <2> QED
      BY <1>27, <2>2, KindsOfFollowups DEF VerifyBegin, WellFormed, TypeOK
<1>28. CASE VerifyEnd(r)
  <2> DEFINE a == [run[r] EXCEPT !.step = "tail", !.revision = 0]
             b == [run[r] EXCEPT !.step = "final", !.revision = 0]
  <2>1. run' = [run EXCEPT ![r] = a] \/ run' = [run EXCEPT ![r] = b]
      BY <1>28 DEF VerifyEnd, WellFormed, TypeOK
  <2>4. GoodRun(a) /\ GoodRun(b)
      BY StepNames, RunEdits DEF WellFormed
  <2> HIDE DEF a, b
  <2>2. run' \in [Slots -> Runs] /\ \A q \in Slots : GoodRun(run'[q])
      BY <2>1, <2>4, SlotUpdate
  <2>3. GoodSession(session')
    <3>1. session.ledger \in Ledgers /\ Created(session.ledger)
        BY DEF WellFormed, GoodSession, SessionRecords
    <3>2. \/ session' = session
          \/ /\ session' = [session EXCEPT !.ledger = Bump(CheckedCriteria(session.ledger))]
             /\ session.ledger.revision = run[r].revision
        BY <1>28 DEF VerifyEnd
    <3>3. session.ledger.revision = run[r].revision => session.ledger.goal # None
        BY <1>28, <3>1 DEF VerifyEnd, WellFormed, GoodRun, Created
    <3>4. ASSUME session.ledger.goal # None
          PROVE  LET M == Bump(CheckedCriteria(session.ledger)) IN M \in Ledgers /\ Created(M)
        BY <3>1, <3>4, CheckedCriteriaCarries, CommitCarries
    <3> QED
        BY <3>2, <3>3, <3>4 DEF WellFormed, GoodSession, SessionRecords
  <2> QED
      BY <1>28, <2>2, <2>3, KindsOfFollowups DEF VerifyEnd, WellFormed, TypeOK, GoodSession
<1>29. CASE PlanContinuation(r)
  <2> DEFINE L == session.ledger
             m == session.marker
             a == [run[r] EXCEPT !.step = "finish", !.armed = L.goal_generation]
             b == [run[r] EXCEPT !.step = "block", !.revision = L.revision]
             c == [run[r] EXCEPT !.step = "finish"]
  <2>0. /\ session \in SessionRecords /\ L \in Ledgers /\ m \in Markers \cup {None}
        /\ L.goal_generation \in Nat /\ L.revision \in Nat
      BY DEF WellFormed, GoodSession, SessionRecords, Ledgers
  <2>1. run' = [run EXCEPT ![r] = a] \/ run' = [run EXCEPT ![r] = b] \/ run' = [run EXCEPT ![r] = c]
      BY <1>29 DEF PlanContinuation, WellFormed, TypeOK
  <2>4. GoodRun(a) /\ GoodRun(b) /\ GoodRun(c)
      BY <2>0, StepNames, RunEdits DEF WellFormed
  <2> HIDE DEF a, b, c
  <2>2. run' \in [Slots -> Runs] /\ \A q \in Slots : GoodRun(run'[q])
      BY <2>1, <2>4, SlotUpdate
  <2>3. GoodSession(session')
    <3>1. \/ ~ Exhausted(m, L) /\ session' = [session EXCEPT !.marker = NextMarker(m, L)]
          \/ session' = [session EXCEPT !.marker = None]
          \/ session' = session
        BY <1>29 DEF PlanContinuation
    <3>2. ~ Exhausted(m, L) => NextMarker(m, L) \in Markers
        BY <2>0, MarkerAdvances
    <3>3. \A mark \in Markers \cup {None} : GoodSession([session EXCEPT !.marker = mark])
        BY <2>0 DEF WellFormed, GoodSession, SessionRecords
    <3> HIDE DEF L, m
    <3> QED
        BY <3>1, <3>2, <3>3 DEF WellFormed
  <2> QED
      BY <1>29, <2>2, <2>3, KindsOfFollowups DEF PlanContinuation, WellFormed, TypeOK, GoodSession
<1>30. CASE BlockStagnant(r)
  <2> DEFINE x == [run[r] EXCEPT !.step = "finish", !.revision = 0]
  <2>0. GoodRun(x)
      BY StepNames, RunEdits DEF WellFormed
  <2>1. run' = [run EXCEPT ![r] = x]
      BY <1>30 DEF BlockStagnant, WellFormed, TypeOK
  <2> HIDE DEF x
  <2>2. run' \in [Slots -> Runs] /\ \A q \in Slots : GoodRun(run'[q])
      BY <2>0, <2>1, SlotUpdate
  <2>3. GoodSession(session')
    <3>1. session.ledger \in Ledgers /\ Created(session.ledger)
        BY DEF WellFormed, GoodSession, SessionRecords
    <3>2. session' = session \/ (session.ledger.goal # None /\ session' = [session EXCEPT !.ledger = Bump(SetBlocked(session.ledger))])
        BY <1>30 DEF BlockStagnant, SetBlockedOk, EnsureCreated, WellFormed, GoodSession, SessionRecords
    <3>3. ASSUME session.ledger.goal # None
          PROVE  LET R == Bump(SetBlocked(session.ledger)) IN R \in Ledgers /\ Created(R)
        BY <3>1, <3>3, StatusOpsCarry, CommitCarries
    <3> QED
        BY <3>2, <3>3 DEF WellFormed, GoodSession, SessionRecords
  <2> QED
      BY <1>30, <2>2, <2>3, KindsOfFollowups DEF BlockStagnant, WellFormed, TypeOK, GoodSession
<1>31. CASE Adopt(r)
  <2>2. run' \in [Slots -> Runs] /\ \A q \in Slots : GoodRun(run'[q])
    <3>1. CASE ~ run[r].cancelled /\ followups # <<>>
        BY <1>31, <3>1, TakesFollowup DEF Adopt
    <3>2. CASE ~ (~ run[r].cancelled /\ followups # <<>>)
      <4> DEFINE y == [run[r] EXCEPT !.step = "queue"]
      <4>1. run' = [run EXCEPT ![r] = y] \/ run' = [run EXCEPT ![r] = NoRun]
          BY <1>31, <3>2 DEF Adopt
      <4>2. GoodRun(y)
          BY StepNames, RunEdits DEF WellFormed
      <4> HIDE DEF y
      <4> QED
          BY <4>1, <4>2, FreshRuns, SlotUpdate
    <3> QED
        BY <3>1, <3>2
  <2>4. followups' \in Seq(Followups)
    <3>1. CASE ~ run[r].cancelled /\ followups # <<>>
        BY <1>31, <3>1, TakesFollowup DEF Adopt
    <3>2. CASE ~ (~ run[r].cancelled /\ followups # <<>>)
        BY <1>31, <3>2, KindsOfFollowups DEF Adopt, WellFormed, TypeOK
    <3> QED
        BY <3>1, <3>2
  <2> QED
      BY <1>31, <2>2, <2>4, KindsOfFollowups DEF Adopt, WellFormed, TypeOK
<1>32. CASE QueueContinuation(r)
  <2>1. PICK st \in {"take"} : Goto(r, st)
      BY <1>32 DEF QueueContinuation
  <2>2. run' \in [Slots -> Runs] /\ \A q \in Slots : GoodRun(run'[q])
      BY <2>1, StepNames, SlotMoves
  <2>4. followups' \in Seq(Followups)
    <3>1. [kind |-> "auto", generation |-> run[r].armed] \in Followups
        BY DEF WellFormed, GoodRun, Runs, Followups, Queueable
    <3>2. followups \in Seq(Followups)
        BY KindsOfFollowups DEF WellFormed, TypeOK
    <3> QED
        BY <1>32, <3>1, <3>2 DEF QueueContinuation
  <2> QED
      BY <1>32, <2>2, <2>4, KindsOfFollowups DEF QueueContinuation, WellFormed, TypeOK
<1>33. CASE TakeQueued(r)
  <2>2. run' \in [Slots -> Runs] /\ \A q \in Slots : GoodRun(run'[q])
    <3>1. CASE followups # <<>>
        BY <1>33, <3>1, TakesFollowup DEF TakeQueued
    <3>2. CASE ~ (followups # <<>>)
      <4>1. run' = [run EXCEPT ![r] = NoRun]
          BY <1>33, <3>2 DEF TakeQueued
      <4> QED
          BY <4>1, FreshRuns, SlotUpdate
    <3> QED
        BY <3>1, <3>2
  <2>4. followups' \in Seq(Followups)
    <3>1. CASE followups # <<>>
        BY <1>33, <3>1, TakesFollowup DEF TakeQueued
    <3>2. CASE ~ (followups # <<>>)
        BY <1>33, <3>2, KindsOfFollowups DEF TakeQueued, WellFormed, TypeOK
    <3> QED
        BY <3>1, <3>2
  <2> QED
      BY <1>33, <2>2, <2>4, KindsOfFollowups DEF TakeQueued, WellFormed, TypeOK
<1> QED
    BY <1>1, <1>2, <1>3, <1>4, <1>5, <1>6, <1>7, <1>8, <1>9, <1>10, <1>11, <1>12, <1>13, <1>14, <1>15, <1>16, <1>17, <1>18, <1>19, <1>20, <1>21, <1>22, <1>23, <1>24, <1>25, <1>26, <1>27, <1>28, <1>29, <1>30, <1>31, <1>32, <1>33 DEF RunStep

\* A prompt is submitted with a request of its own.
LEMMA SubmitWellFormed ==
    ASSUME WellFormed, NEW r \in Slots, NEW k \in Kinds, Submit(r, k)
    PROVE  WellFormed'
<1>1. GoodRun(Requested(k, 0, FALSE))
    BY FreshRuns
<1>2. run' \in [Slots -> Runs] /\ \A q \in Slots : GoodRun(run'[q])
    BY <1>1, SlotUpdate DEF Submit
<1> QED
    BY <1>2 DEF Submit, WellFormed, TypeOK

\* What a scheduler run may do to a ledger.
LEMMA RunFactCarries ==
    ASSUME NEW L \in Ledgers, NEW g,
           NEW R \in {EvaluatorGateCompleted(L, g)} \cup
                     {Dispatch(L, SetNextOk(L), SetNext(L, s)) : s \in Statements} \cup
                     {Dispatch(L, SetBlockedOk(L), SetBlocked(L))}
    PROVE  R \in Ledgers /\ (Steady(L) => Steady(R)) /\ (Created(L) => Created(R))
<1>1. CASE R = EvaluatorGateCompleted(L, g)
  <2>1. Carries(L, AddCheckpoint(L, "Evaluator", {}, 0))
      BY SeamsAssumption, AddCheckpointCarries
  <2>2. (g = L.goal_generation /\ AddCheckpointOk(L, {}, 0)) \in BOOLEAN
      OBVIOUS
  <2> QED
      BY <1>1, <2>1, <2>2, DispatchStep DEF EvaluatorGateCompleted
<1>2. CASE \E s \in Statements : R = Dispatch(L, SetNextOk(L), SetNext(L, s))
  <2>1. PICK s \in Statements : R = Dispatch(L, SetNextOk(L), SetNext(L, s))
      BY <1>2
  <2>2. Carries(L, SetNext(L, s)) /\ SetNextOk(L) \in BOOLEAN
      BY StatusOpsCarry DEF SetNextOk, EnsureCreated
  <2> QED
      BY <2>1, <2>2, DispatchStep
<1>3. CASE R = Dispatch(L, SetBlockedOk(L), SetBlocked(L))
  <2>1. Carries(L, SetBlocked(L)) /\ SetBlockedOk(L) \in BOOLEAN
      BY StatusOpsCarry DEF SetBlockedOk, EnsureCreated, RequireNextForStatus
  <2> QED
      BY <1>3, <2>1, DispatchStep
<1> QED
    BY <1>1, <1>2, <1>3

\* The ledger a scheduler run leaves is one of those.
LEMMA RunFactLedger ==
    ASSUME WellFormed, NEW r \in Slots, RunFact(r)
    PROVE  \E R : /\ session' = [session EXCEPT !.ledger = R]
                  /\ R \in Ledgers /\ Created(R) /\ (Steady(session.ledger) => Steady(R))
<1> DEFINE L == session.ledger
<1>1. L \in Ledgers /\ Created(L)
    BY DEF WellFormed, GoodSession, SessionRecords
<1>2. PICK R \in {EvaluatorGateCompleted(L, run[r].scope)} \cup
                 {Dispatch(L, SetNextOk(L), SetNext(L, s)) : s \in Statements} \cup
                 {Dispatch(L, SetBlockedOk(L), SetBlocked(L))} : session' = [session EXCEPT !.ledger = R]
    BY DEF RunFact
<1>3. R \in Ledgers /\ Created(R) /\ (Steady(L) => Steady(R))
    BY <1>1, RunFactCarries
<1> QED
    BY <1>2, <1>3

\* What a user may do to a ledger: the goal, the next action or a checkpoint.
LEMMA UserOpsCarry ==
    ASSUME NEW L \in Ledgers, NEW M \in UserOps(L)
    PROVE  L.goal # None /\ M \in Ledgers /\ M.goal # None /\ M.revision = L.revision /\ M.status = L.status
<1>1. CASE \E s \in Statements : SetNextOk(L) /\ M = SetNext(L, s)
    BY <1>1, StatusOpsCarry DEF SetNextOk, EnsureCreated, Carries
<1>2. CASE AddCheckpointOk(L, {}, 0) /\ M = AddCheckpoint(L, "UserConfirmation", {}, 0)
  <2>1. "UserConfirmation" \in Verifiers
      BY SessionAssumption
  <2> QED
      BY <1>2, <2>1, AddCheckpointCarries DEF AddCheckpointOk, EnsureCreated, Carries
<1>3. CASE \E g \in Goals : SetGoalOk(L, g) /\ M = SetGoal(L, g)
  <2>1. PICK g \in Goals : SetGoalOk(L, g) /\ M = SetGoal(L, g)
      BY <1>3
  <2>2. g # None
      BY NoneAssumption DEF Goals
  <2>3. L.goal # None /\ L.goal_generation + 1 \in Nat /\ g \in Goals \cup {None}
      BY <2>1 DEF SetGoalOk, EnsureCreated, Ledgers
  <2>4. M = [L EXCEPT !.goal = g, !.goal_generation = L.goal_generation + 1, !.uncovered = {}]
      BY <2>1 DEF SetGoal, Ledgers
  <2>5. M \in Ledgers
      BY <2>3, <2>4 DEF Ledgers
  <2>6. M.goal = g /\ M.revision = L.revision /\ M.status = L.status
      BY <2>4 DEF Ledgers
  <2> QED
      BY <2>2, <2>3, <2>5, <2>6
<1> QED
    BY <1>1, <1>2, <1>3 DEF UserOps

\* The committed ledger of a user's operation.
LEMMA UserOpLedger ==
    ASSUME WellFormed, UserOp
    PROVE  \E R : /\ session' = [session EXCEPT !.ledger = R]
                  /\ R \in Ledgers /\ Created(R) /\ R.goal # None /\ session.ledger.goal # None
                  /\ R.revision = session.ledger.revision + 1 /\ R.status = session.ledger.status
<1> DEFINE L == session.ledger
<1>1. L \in Ledgers
    BY DEF WellFormed, GoodSession, SessionRecords
<1>2. PICK M \in UserOps(L) : session' = [session EXCEPT !.ledger = Bump(M)]
    BY DEF UserOp
<1>3. L.goal # None /\ M \in Ledgers /\ M.goal # None /\ M.revision = L.revision /\ M.status = L.status
    BY <1>1, UserOpsCarry
<1>4. /\ Bump(M) \in Ledgers /\ Bump(M).goal # None /\ Bump(M).revision = L.revision + 1
      /\ Bump(M).status = L.status /\ L.revision \in Nat
    BY <1>1, <1>3, BumpKeeps DEF Ledgers
<1>5. Created(Bump(M))
    BY <1>4 DEF Created
<1> HIDE DEF L
<1> QED
    BY <1>2, <1>3, <1>4, <1>5 DEF L

\* An abort cancels at most one run and touches no other field of it.
LEMMA CancelledRun ==
    ASSUME WellFormed, NEW r \in Slots, run' = [run EXCEPT ![r].cancelled = TRUE]
    PROVE  run' \in [Slots -> Runs] /\ \A q \in Slots : GoodRun(run'[q])
<1> DEFINE x == [run[r] EXCEPT !.cancelled = TRUE]
<1>1. GoodRun(x)
  <2>1. GoodRun(run[r]) /\ "none" \in RunSteps
      BY StepNames DEF WellFormed
  <2> QED
      BY <2>1, RunEdits
<1>2. run' = [run EXCEPT ![r] = x]
    BY DEF WellFormed, TypeOK
<1> HIDE DEF x
<1> QED
    BY <1>1, <1>2, SlotUpdate

\* The steps of an abort keep the records well formed.
LEMMA AbortWellFormed ==
    ASSUME WellFormed, AbortDrain \/ AbortStep \/ AbortDisconnect
    PROVE  WellFormed'
<1>1. CASE AbortDrain
  <2>1. followups' \in Seq([kind : (Kinds \ {"web"}) \cup {"auto"}, generation : Nat])
      BY <1>1 DEF AbortDrain
  <2> QED
      BY <1>1, <2>1 DEF AbortDrain, WellFormed, TypeOK
<1>2. CASE AbortMarker
  <2>1. GoodSession(session')
      BY <1>2 DEF AbortMarker, WellFormed, GoodSession, SessionRecords
  <2>2. abort' \in [step : {"idle", "marker", "token", "prompt", "runner", "report"},
                    hit : BOOLEAN, live : SUBSET Slots, lost : BOOLEAN]
      BY <1>2 DEF AbortMarker, WellFormed, TypeOK
  <2> QED
      BY <1>2, <2>1, <2>2 DEF AbortMarker, WellFormed, TypeOK, GoodSession
<1>3. CASE AbortToken
  <2>1. run' \in [Slots -> Runs] /\ \A q \in Slots : GoodRun(run'[q])
    <3>1. CASE token = None
        BY <1>3, <3>1 DEF AbortToken, WellFormed, TypeOK
    <3>2. CASE token # None
        BY <1>3, <3>2, CancelledRun DEF AbortToken, WellFormed, TypeOK
    <3> QED
        BY <3>1, <3>2
  <2>2. abort' \in [step : {"idle", "marker", "token", "prompt", "runner", "report"},
                    hit : BOOLEAN, live : SUBSET Slots, lost : BOOLEAN]
      BY <1>3 DEF AbortToken, WellFormed, TypeOK
  <2> QED
      BY <1>3, <2>1, <2>2 DEF AbortToken, WellFormed, TypeOK
<1>4. CASE AbortPrompt
  <2>1. abort' \in [step : {"idle", "marker", "token", "prompt", "runner", "report"},
                    hit : BOOLEAN, live : SUBSET Slots, lost : BOOLEAN]
      BY <1>4 DEF AbortPrompt, WellFormed, TypeOK
  <2> QED
      BY <1>4, <2>1 DEF AbortPrompt, WellFormed, TypeOK
<1>5. CASE AbortRunner
  <2>1. run' \in [Slots -> Runs] /\ \A q \in Slots : GoodRun(run'[q])
    <3>1. CASE holder \notin Slots
        BY <1>5, <3>1 DEF AbortRunner, WellFormed, TypeOK
    <3>2. CASE holder \in Slots
        BY <1>5, <3>2, CancelledRun DEF AbortRunner
    <3> QED
        BY <3>1, <3>2
  <2>2. abort' \in [step : {"idle", "marker", "token", "prompt", "runner", "report"},
                    hit : BOOLEAN, live : SUBSET Slots, lost : BOOLEAN]
      BY <1>5 DEF AbortRunner, WellFormed, TypeOK
  <2> QED
      BY <1>5, <2>1, <2>2 DEF AbortRunner, WellFormed, TypeOK
<1>6. CASE AbortReport
  <2>1. GoodSession([session EXCEPT !.ledger = RecoveryInterrupted(session.ledger)])
      BY InterruptSays DEF WellFormed, GoodSession, SessionRecords
  <2>2. GoodSession(session')
      BY <1>6, <2>1 DEF AbortReport, WellFormed
  <2>3. abort' \in [step : {"idle", "marker", "token", "prompt", "runner", "report"},
                    hit : BOOLEAN, live : SUBSET Slots, lost : BOOLEAN]
      BY <1>6 DEF AbortReport, WellFormed, TypeOK
  <2> QED
      BY <1>6, <2>2, <2>3 DEF AbortReport, WellFormed, TypeOK, GoodSession
<1>7. CASE AbortDisconnect
    BY <1>7 DEF AbortDisconnect, WellFormed, TypeOK
<1> QED
    BY <1>1, <1>2, <1>3, <1>4, <1>5, <1>6, <1>7 DEF AbortStep

\* Every step keeps the records well formed.
LEMMA NextWellFormed ==
    ASSUME WellFormed, [Next]_vars
    PROVE  WellFormed'
<1>1. ASSUME NEW r \in Slots, RunStep(r) PROVE WellFormed'
    BY <1>1, RunStepWellFormed
<1>2. ASSUME NEW r \in Slots, RunFact(r) PROVE WellFormed'
  <2>1. GoodSession(session')
      BY <1>2, RunFactLedger DEF WellFormed, GoodSession, SessionRecords
  <2> QED
      BY <1>2, <2>1 DEF RunFact, WellFormed, TypeOK, GoodSession
<1>3. ASSUME NEW r \in Slots, Disconnect(r) PROVE WellFormed'
  <2>1. run' \in [Slots -> Runs] /\ \A q \in Slots : GoodRun(run'[q])
      BY <1>3, FreshRuns, SlotUpdate DEF Disconnect
  <2> QED
      BY <1>3, <2>1 DEF Disconnect, WellFormed, TypeOK
<1>4. ASSUME NEW r \in Slots, NEW k \in Kinds, Submit(r, k) PROVE WellFormed'
    BY <1>4, SubmitWellFormed
<1>5. CASE AbortDrain \/ AbortStep \/ AbortDisconnect
    BY <1>5, AbortWellFormed
<1>6. CASE UserOp
  <2>1. GoodSession(session')
      BY <1>6, UserOpLedger DEF WellFormed, GoodSession, SessionRecords
  <2> QED
      BY <1>6, <2>1 DEF UserOp, WellFormed, TypeOK, GoodSession
<1>7. CASE UNCHANGED vars
    BY <1>7 DEF vars, WellFormed, TypeOK
<1> QED
    BY <1>1, <1>2, <1>3, <1>4, <1>5, <1>6, <1>7 DEF Next

\* The initial state is well formed.
LEMMA InitWellFormed == Init => WellFormed
<1> SUFFICES ASSUME Init PROVE WellFormed
    OBVIOUS
<1>1. session = NoSession /\ run = [r \in Slots |-> NoRun]
    BY DEF Init
<1>2. GoodSession(session) /\ run \in [Slots -> Runs] /\ \A r \in Slots : GoodRun(run[r])
    BY <1>1, FreshRuns DEF GoodRun
<1>3. followups \in Seq([kind : (Kinds \ {"web"}) \cup {"auto"}, generation : Nat])
    BY DEF Init
<1>4. abort \in [step : {"idle", "marker", "token", "prompt", "runner", "report"},
                 hit : BOOLEAN, live : SUBSET Slots, lost : BOOLEAN]
    BY DEF Init
<1>5. session \in SessionRecords
    BY <1>2 DEF GoodSession
<1>6. /\ holder \in Slots \cup {None, Leaked} /\ token \in Slots \cup {None}
      /\ busy \in BOOLEAN /\ calm \in BOOLEAN
    BY DEF Init
<1> QED
    BY <1>2, <1>3, <1>4, <1>5, <1>6 DEF WellFormed, TypeOK

\* WellFormed is an invariant.
LEMMA WellFormedHolds == Spec => []WellFormed
<1>1. WellFormed /\ [Next]_vars => WellFormed'
    BY NextWellFormed
<1> QED
    BY <1>1, InitWellFormed, PTL DEF Spec


\* The variables keep their types for any number of prompts in flight: no step
\* of a run, an abort or the ledger API writes a record of another shape, a
\* marker that has reached the limit or a queued web prompt.
THEOREM TypeHolds == Spec => []TypeOK
<1>1. WellFormed => TypeOK
    BY DEF WellFormed
<1> QED
    BY <1>1, WellFormedHolds, PTL

-----------------------------------------------------------------------------
(* Reservation, token and busy flag *)

\* A run at one of these steps may hold the reservation.
Owning == {"clear", "clone", "busy", "input", "give_up", "seam", "fetch", "assistant",
           "register", "running", "review", "verify", "checking", "final", "settle", "tail",
           "prepare", "plan", "block", "finish", "release"}

\* At these, its token may be the registered one.
Registered == {"running", "review", "verify", "checking", "final", "settle", "tail",
               "prepare", "plan", "block", "finish"}

\* At these, it is still to clear the busy flag.
BusySteps == Registered \cup {"input", "give_up", "guard", "seam", "fetch", "assistant",
                              "register", "release", "idle"}

\* Reservation, token and busy flag have a run that will retire them.
Owned ==
    /\ \A q \in Slots : holder = q => run[q].reserved /\ run[q].step \in Owning
    /\ \A q \in Slots : token = q => run[q].step \in Registered
    /\ busy => \E q \in Slots : run[q].step \in BusySteps

\* What one run's step may do to the three: take them for itself at a step that
\* retires them, leave them, or give them up.
OwnMove(r) ==
    /\ \A q \in Slots : q # r => run'[q] = run[q]
    /\ holder' = r => run'[r].reserved /\ run'[r].step \in Owning
    /\ holder' # r => holder' \in {holder, None, Leaked}
    /\ token' = r => run'[r].step \in Registered
    /\ token' # r => token' \in {token, None}
    /\ busy' => run'[r].step \in BusySteps \/ (busy /\ run[r].step \notin BusySteps)

\* A move of one run leaves an owner for each.
LEMMA OwnMoveKeeps ==
    ASSUME Owned, NEW r \in Slots, OwnMove(r)
    PROVE  Owned'
<1>1. ASSUME NEW q \in Slots, holder' = q PROVE run'[q].reserved /\ run'[q].step \in Owning
    BY <1>1, SessionAssumption DEF Owned, OwnMove
<1>2. ASSUME NEW q \in Slots, token' = q PROVE run'[q].step \in Registered
    BY <1>2, SessionAssumption DEF Owned, OwnMove
<1>3. ASSUME busy' PROVE \E q \in Slots : run'[q].step \in BusySteps
    BY <1>3 DEF Owned, OwnMove
<1> QED
    BY <1>1, <1>2, <1>3 DEF Owned

\* Every step of a run is such a move.
LEMMA RunStepOwns ==
    ASSUME WellFormed, Owned, NEW r \in Slots, RunStep(r)
    PROVE  OwnMove(r)
<1>0. /\ run \in [Slots -> Runs] /\ run[r] \in Runs
      /\ holder = r => run[r].reserved /\ run[r].step \in Owning
      /\ token = r => run[r].step \in Registered
      /\ r # None /\ r # Leaked /\ NoRun.step = "none"
    BY SessionAssumption, FreshRuns DEF WellFormed, TypeOK, Owned
<1>1. CASE SetBusy(r)
    BY <1>0, <1>1 DEF SetBusy, OwnMove, Owning, Registered, BusySteps, Runs
<1>2. CASE GiveUpReservation(r)
    BY <1>0, <1>2 DEF GiveUpReservation, OwnMove, Owning, Registered, BusySteps, Runs
<1>3. CASE FinishRun(r)
    BY <1>0, <1>3 DEF FinishRun, OwnMove, Owning, Registered, BusySteps, Runs
<1>4. CASE ReleaseRun(r)
    BY <1>0, <1>4 DEF ReleaseRun, OwnMove, Owning, Registered, BusySteps, Runs
<1>5. CASE SetIdle(r)
    BY <1>0, <1>5 DEF SetIdle, OwnMove, Owning, Registered, BusySteps, Runs
<1>6. CASE CommitInput(r)
    BY <1>0, <1>6 DEF CommitInput, OwnMove, Owning, Registered, BusySteps, Runs
<1>7. CASE AddAssistant(r)
    BY <1>0, <1>7 DEF AddAssistant, OwnMove, Owning, Registered, BusySteps, Runs
<1>8. CASE InputError(r)
    BY <1>0, <1>8 DEF InputError, OwnMove, Owning, Registered, BusySteps, Runs
<1>9. CASE FinalCheck(r)
    BY <1>0, <1>9 DEF FinalCheck, OwnMove, Owning, Registered, BusySteps, Runs
<1>10. CASE PrepareCheck(r)
    BY <1>0, <1>10 DEF PrepareCheck, OwnMove, Owning, Registered, BusySteps, Runs
<1>11. CASE ClearMarker(r)
    BY <1>0, <1>11 DEF ClearMarker, OwnMove, Owning, Registered, BusySteps, Runs
<1>12. CASE StartLedgerRun(r)
    BY <1>0, <1>12 DEF StartLedgerRun, OwnMove, Owning, Registered, BusySteps, Runs
<1>13. CASE CommitFinal(r)
    BY <1>0, <1>13 DEF CommitFinal, OwnMove, Owning, Registered, BusySteps, Runs
<1>14. CASE RunTail(r)
    BY <1>0, <1>14 DEF RunTail, OwnMove, Owning, Registered, BusySteps, Runs
<1>15. CASE ReserveInsert(r)
    BY <1>0, <1>15 DEF ReserveInsert, OwnMove, Owning, Registered, BusySteps, Runs
<1>16. CASE CloneSession(r)
    BY <1>0, <1>16 DEF CloneSession, OwnMove, Owning, Registered, BusySteps, Runs
<1>17. CASE FetchSession(r)
    BY <1>0, <1>17 DEF FetchSession, OwnMove, Owning, Registered, BusySteps, Runs
<1>18. CASE SchedulerReturns(r)
    BY <1>0, <1>18 DEF SchedulerReturns, OwnMove, Owning, Registered, BusySteps, Runs
<1>19. CASE UpdateSession(r)
    BY <1>0, <1>19 DEF UpdateSession, OwnMove, Owning, Registered, BusySteps, Runs
<1>20. CASE RegisterRun(r)
    BY <1>0, <1>20 DEF RegisterRun, OwnMove, Owning, Registered, BusySteps, Runs
<1>21. CASE GuardIdle(r)
    BY <1>0, <1>21 DEF GuardIdle, OwnMove, Owning, Registered, BusySteps, Runs
<1>22. CASE Enqueue(r)
    BY <1>0, <1>22 DEF Enqueue, OwnMove, Owning, Registered, BusySteps, Runs
<1>23. CASE BusyCheck(r)
    BY <1>0, <1>23 DEF BusyCheck, OwnMove, Owning, Registered, BusySteps, Runs
<1>24. CASE ValidateAuto(r)
    BY <1>0, <1>24 DEF ValidateAuto, OwnMove, Owning, Registered, BusySteps, Runs
<1>25. CASE ReserveCheck(r)
    BY <1>0, <1>25 DEF ReserveCheck, OwnMove, Owning, Registered, BusySteps, Runs
<1>26. CASE StartTaskGoal(r)
    BY <1>0, <1>26 DEF StartTaskGoal, OwnMove, Owning, Registered, BusySteps, Runs
<1>27. CASE VerifyBegin(r)
    BY <1>0, <1>27 DEF VerifyBegin, OwnMove, Owning, Registered, BusySteps, Runs
<1>28. CASE VerifyEnd(r)
    BY <1>0, <1>28 DEF VerifyEnd, OwnMove, Owning, Registered, BusySteps, Runs
<1>29. CASE PlanContinuation(r)
    BY <1>0, <1>29 DEF PlanContinuation, OwnMove, Owning, Registered, BusySteps, Runs
<1>30. CASE BlockStagnant(r)
    BY <1>0, <1>30 DEF BlockStagnant, OwnMove, Owning, Registered, BusySteps, Runs
<1>31. CASE Adopt(r)
    BY <1>0, <1>31 DEF Adopt, OwnMove, Owning, Registered, BusySteps, Runs, TakeFollowup
<1>32. CASE QueueContinuation(r)
    BY <1>0, <1>32 DEF QueueContinuation, OwnMove, Owning, Registered, BusySteps, Runs
<1>33. CASE TakeQueued(r)
    BY <1>0, <1>33 DEF TakeQueued, OwnMove, Owning, Registered, BusySteps, Runs, TakeFollowup
<1> QED
    BY <1>1, <1>2, <1>3, <1>4, <1>5, <1>6, <1>7, <1>8, <1>9, <1>10, <1>11, <1>12, <1>13, <1>14, <1>15, <1>16, <1>17, <1>18, <1>19, <1>20, <1>21, <1>22, <1>23, <1>24, <1>25, <1>26, <1>27, <1>28, <1>29, <1>30, <1>31, <1>32, <1>33 DEF RunStep

\* A step that leaves the steps of the runs alone keeps what they own.
LEMMA OwnedElsewhere ==
    ASSUME Owned, \A q \in Slots : run'[q].step = run[q].step /\ run'[q].reserved = run[q].reserved,
           holder' \in {holder, None}, token' = token, busy' = busy
    PROVE  Owned'
<1>1. ASSUME NEW q \in Slots, holder' = q PROVE run'[q].reserved /\ run'[q].step \in Owning
    BY <1>1, SessionAssumption DEF Owned
<1>2. ASSUME NEW q \in Slots, token' = q PROVE run'[q].step \in Registered
    BY <1>2 DEF Owned
<1>3. ASSUME busy' PROVE \E q \in Slots : run'[q].step \in BusySteps
    BY <1>3 DEF Owned
<1> QED
    BY <1>1, <1>2, <1>3 DEF Owned

\* A cancelled run stands where it stood.
LEMMA CancelStands ==
    ASSUME WellFormed, NEW c \in Slots, run' = [run EXCEPT ![c].cancelled = TRUE]
    PROVE  \A q \in Slots : run'[q].step = run[q].step /\ run'[q].reserved = run[q].reserved
BY DEF WellFormed, TypeOK, Runs

\* Every step leaves reservation, token and busy flag with an owner.
LEMMA NextOwns ==
    ASSUME WellFormed, Owned, [Next]_vars
    PROVE  Owned'
<1>0. /\ run \in [Slots -> Runs] /\ NoRun.step = "none"
      /\ \A r \in Slots : r # None /\ r # Leaked
    BY SessionAssumption, FreshRuns DEF WellFormed, TypeOK
<1>1. ASSUME NEW r \in Slots, RunStep(r) PROVE Owned'
    BY <1>1, RunStepOwns, OwnMoveKeeps
<1>2. ASSUME NEW r \in Slots, RunFact(r) PROVE Owned'
    BY <1>2, OwnedElsewhere DEF RunFact
<1>3. ASSUME NEW r \in Slots, Disconnect(r) PROVE Owned'
  <2>1. OwnMove(r)
      BY <1>0, <1>3 DEF Disconnect, Ingress, Owned, OwnMove, Owning, Registered, BusySteps
  <2> QED
      BY <2>1, OwnMoveKeeps
<1>4. ASSUME NEW r \in Slots, NEW k \in Kinds, Submit(r, k) PROVE Owned'
  <2>1. OwnMove(r)
      BY <1>0, <1>4 DEF Submit, Owned, OwnMove, Owning, Registered, BusySteps
  <2> QED
      BY <2>1, OwnMoveKeeps
<1>5. CASE AbortDrain \/ AbortMarker \/ AbortPrompt \/ AbortReport \/ AbortDisconnect
    BY <1>5, OwnedElsewhere DEF AbortDrain, AbortMarker, AbortPrompt, AbortReport, AbortDisconnect
<1>6. CASE AbortToken
  <2>1. CASE token = None
      BY <1>6, <2>1, OwnedElsewhere DEF AbortToken
  <2>2. CASE token \in Slots
      BY <1>6, <2>2, <1>0, CancelStands, OwnedElsewhere DEF AbortToken
  <2> QED
      BY <2>1, <2>2 DEF WellFormed, TypeOK
<1>7. CASE AbortRunner
  <2>1. CASE holder \in Slots
      BY <1>7, <2>1, CancelStands, OwnedElsewhere DEF AbortRunner
  <2>2. CASE holder \notin Slots
      BY <1>7, <2>2, OwnedElsewhere DEF AbortRunner
  <2> QED
      BY <2>1, <2>2
<1>8. CASE UserOp
    BY <1>8, OwnedElsewhere DEF UserOp
<1>9. CASE UNCHANGED vars
    BY <1>9, OwnedElsewhere DEF vars
<1> QED
    BY <1>1, <1>2, <1>3, <1>4, <1>5, <1>6, <1>7, <1>8, <1>9 DEF Next, AbortStep

\* Reservation, token and busy flag always have an owner.
LEMMA OwnedHolds == Spec => []Owned
<1>1. Init => Owned
    BY SessionAssumption DEF Init, Owned
<1>2. WellFormed /\ Owned /\ [Next]_vars => Owned'
    BY NextOwns
<1> QED
    BY <1>1, <1>2, WellFormedHolds, PTL DEF Spec

\* When every prompt has ended, by success, error, abort or a dropped
\* connection, no token and no busy flag is left and no reservation but a
\* leaked one, for any number of overlapping prompts: a run may retire what
\* another one registered, but whatever is registered has a run that will
\* retire it.
THEOREM QuiescentIsCleanHolds == Spec => []QuiescentIsClean
<1>1. WellFormed /\ Owned => QuiescentIsClean
  <2> SUFFICES ASSUME WellFormed, Owned, AllIdle
               PROVE  holder \in {None, Leaked} /\ token = None /\ ~ busy
      BY DEF QuiescentIsClean
  <2>1. \A q \in Slots : run[q].step \notin Owning \cup Registered \cup BusySteps
      BY DEF AllIdle, Owning, Registered, BusySteps
  <2> QED
      BY <2>1 DEF Owned, WellFormed, TypeOK
<1> QED
    BY <1>1, WellFormedHolds, OwnedHolds, PTL

-----------------------------------------------------------------------------
(* A recorded stop, one prompt at a time *)

\* Prompts are handled one at a time: what one run writes back over another
\* one's stop is the finding of session_stale.
OneRun == \A q, r \in Slots : q = r

\* The steps after a run's tail.
After == {"prepare", "plan", "block", "finish", "release", "idle", "adopt"}

\* The ledger says that the goal was stopped.
Recorded == session.ledger.goal # None => session.ledger.status = "Interrupted"

\* An abort that has hit will report.
Reporting == abort.step \in {"prompt", "runner", "report"} /\ abort.hit

\* The inductive form of StopIsRecorded: a run cancelled after its tail has an
\* abort that is still to report, unless its handler was dropped; and the block
\* of a stagnant goal that is still current meets an active goal, never an
\* interrupted one.
Stopping ==
    /\ abort.step = "runner" => abort.hit
    /\ \A r \in Slots : run[r].step \in After /\ run[r].cancelled => Recorded \/ abort.lost \/ Reporting
    /\ \A r \in Slots : run[r].step = "block" =>
          /\ run[r].revision <= session.ledger.revision
          /\ run[r].revision = session.ledger.revision =>
                session.ledger.goal # None /\ session.ledger.status = "Active"

\* Before its tail and after its end a run has nothing to keep.
LEMMA StopElsewhere ==
    ASSUME OneRun, Stopping, NEW r \in Slots, run'[r].step \notin After, abort' = abort
    PROVE  Stopping'
<1>1. \A q \in Slots : q = r
    BY DEF OneRun
<1>2. abort'.step = "runner" => abort'.hit
    BY DEF Stopping
<1>3. run'[r].step # "block"
    BY DEF After
<1> QED
    BY <1>1, <1>2, <1>3 DEF Stopping

\* After its tail it keeps the stop while it leaves the ledger alone.
LEMMA StopStays ==
    ASSUME OneRun, Stopping, NEW r \in Slots, run[r].step \in After, run'[r].step # "block",
           run'[r].cancelled = run[r].cancelled, abort' = abort, session'.ledger = session.ledger
    PROVE  Stopping'
<1>1. \A q \in Slots : q = r
    BY DEF OneRun
<1>2. abort'.step = "runner" => abort'.hit
    BY DEF Stopping
<1> QED
    BY <1>1, <1>2 DEF Stopping, Recorded, Reporting

\* A request begins before its tail.
LEMMA RequestSteps ==
    \A kind, g, a : Requested(kind, g, a).step \in {"validate", "reserve", "check"}
<1> TAKE kind, g, a
<1>1. FirstStep(kind) \in {"validate", "reserve", "check"}
    BY DEF FirstStep
<1>2. Requested(kind, g, a).step = FirstStep(kind)
    BY DEF Requested, NoRun
<1> QED
    BY <1>1, <1>2

\* So does an adopted one.
LEMMA TakeBegins ==
    ASSUME WellFormed, NEW r \in Slots, TakeFollowup(r)
    PROVE  run'[r].step \in {"validate", "reserve", "check"}
<1> DEFINE x == Requested(followups[Preferred].kind, followups[Preferred].generation, TRUE)
<1>1. x.step \in {"validate", "reserve", "check"}
    BY RequestSteps
<1>2. run' = [run EXCEPT ![r] = x]
    BY DEF TakeFollowup
<1> HIDE DEF x
<1> QED
    BY <1>1, <1>2 DEF WellFormed, TypeOK

\* Every step of the run keeps the stop.
LEMMA RunStepStops ==
    ASSUME WellFormed, OneRun, Stopping, NEW r \in Slots, RunStep(r)
    PROVE  Stopping'
<1>0. run \in [Slots -> Runs] /\ run[r] \in Runs /\ NoRun.step = "none"
    BY FreshRuns DEF WellFormed, TypeOK
<1>00. session \in SessionRecords /\ session.ledger \in Ledgers /\ session.ledger.revision \in Nat
    BY DEF WellFormed, GoodSession, SessionRecords, Ledgers
<1>000. \A q \in Slots : q = r
    BY DEF OneRun
<1>1. CASE SetBusy(r)
  <2>1. run'[r].step \notin After /\ abort' = abort
      BY <1>0, <1>1 DEF SetBusy, After, Runs
  <2> QED
      BY <2>1, StopElsewhere
<1>2. CASE GiveUpReservation(r)
  <2>1. run'[r].step \notin After /\ abort' = abort
      BY <1>0, <1>2 DEF GiveUpReservation, After, Runs
  <2> QED
      BY <2>1, StopElsewhere
<1>3. CASE CommitInput(r)
  <2>1. run'[r].step \notin After /\ abort' = abort
      BY <1>0, <1>3 DEF CommitInput, After, Runs
  <2> QED
      BY <2>1, StopElsewhere
<1>4. CASE AddAssistant(r)
  <2>1. run'[r].step \notin After /\ abort' = abort
      BY <1>0, <1>4 DEF AddAssistant, After, Runs
  <2> QED
      BY <2>1, StopElsewhere
<1>5. CASE InputError(r)
  <2>1. run'[r].step \notin After /\ abort' = abort
      BY <1>0, <1>5 DEF InputError, After, Runs
  <2> QED
      BY <2>1, StopElsewhere
<1>6. CASE FinalCheck(r)
  <2>1. run'[r].step \notin After /\ abort' = abort
      BY <1>0, <1>6 DEF FinalCheck, After, Runs
  <2> QED
      BY <2>1, StopElsewhere
<1>7. CASE ClearMarker(r)
  <2>1. run'[r].step \notin After /\ abort' = abort
      BY <1>0, <1>7 DEF ClearMarker, After, Runs
  <2> QED
      BY <2>1, StopElsewhere
<1>8. CASE StartLedgerRun(r)
  <2>1. run'[r].step \notin After /\ abort' = abort
      BY <1>0, <1>8 DEF StartLedgerRun, After, Runs
  <2> QED
      BY <2>1, StopElsewhere
<1>9. CASE CommitFinal(r)
  <2>1. run'[r].step \notin After /\ abort' = abort
      BY <1>0, <1>9 DEF CommitFinal, After, Runs
  <2> QED
      BY <2>1, StopElsewhere
<1>10. CASE ReserveInsert(r)
  <2>1. run'[r].step \notin After /\ abort' = abort
      BY <1>0, <1>10 DEF ReserveInsert, After, Runs
  <2> QED
      BY <2>1, StopElsewhere
<1>11. CASE CloneSession(r)
  <2>1. run'[r].step \notin After /\ abort' = abort
      BY <1>0, <1>11 DEF CloneSession, After, Runs
  <2> QED
      BY <2>1, StopElsewhere
<1>12. CASE FetchSession(r)
  <2>1. run'[r].step \notin After /\ abort' = abort
      BY <1>0, <1>12 DEF FetchSession, After, Runs
  <2> QED
      BY <2>1, StopElsewhere
<1>13. CASE SchedulerReturns(r)
  <2>1. run'[r].step \notin After /\ abort' = abort
      BY <1>0, <1>13 DEF SchedulerReturns, After, Runs
  <2> QED
      BY <2>1, StopElsewhere
<1>14. CASE UpdateSession(r)
  <2>1. run'[r].step \notin After /\ abort' = abort
      BY <1>0, <1>14 DEF UpdateSession, After, Runs
  <2> QED
      BY <2>1, StopElsewhere
<1>15. CASE RegisterRun(r)
  <2>1. run'[r].step \notin After /\ abort' = abort
      BY <1>0, <1>15 DEF RegisterRun, After, Runs
  <2> QED
      BY <2>1, StopElsewhere
<1>16. CASE GuardIdle(r)
  <2>1. run'[r].step \notin After /\ abort' = abort
      BY <1>0, <1>16 DEF GuardIdle, After, Runs
  <2> QED
      BY <2>1, StopElsewhere
<1>17. CASE Enqueue(r)
  <2>1. run'[r].step \notin After /\ abort' = abort
      BY <1>0, <1>17 DEF Enqueue, After, Runs
  <2> QED
      BY <2>1, StopElsewhere
<1>18. CASE BusyCheck(r)
  <2>1. run'[r].step \notin After /\ abort' = abort
      BY <1>0, <1>18 DEF BusyCheck, After, Runs
  <2> QED
      BY <2>1, StopElsewhere
<1>19. CASE ValidateAuto(r)
  <2>1. run'[r].step \notin After /\ abort' = abort
      BY <1>0, <1>19 DEF ValidateAuto, After, Runs
  <2> QED
      BY <2>1, StopElsewhere
<1>20. CASE ReserveCheck(r)
  <2>1. run'[r].step \notin After /\ abort' = abort
      BY <1>0, <1>20 DEF ReserveCheck, After, Runs
  <2> QED
      BY <2>1, StopElsewhere
<1>21. CASE StartTaskGoal(r)
  <2>1. run'[r].step \notin After /\ abort' = abort
      BY <1>0, <1>21 DEF StartTaskGoal, After, Runs
  <2> QED
      BY <2>1, StopElsewhere
<1>22. CASE VerifyBegin(r)
  <2>1. run'[r].step \notin After /\ abort' = abort
      BY <1>0, <1>22 DEF VerifyBegin, After, Runs
  <2> QED
      BY <2>1, StopElsewhere
<1>23. CASE VerifyEnd(r)
  <2>1. run'[r].step \notin After /\ abort' = abort
      BY <1>0, <1>23 DEF VerifyEnd, After, Runs
  <2> QED
      BY <2>1, StopElsewhere
<1>24. CASE QueueContinuation(r)
  <2>1. run'[r].step \notin After /\ abort' = abort
      BY <1>0, <1>24 DEF QueueContinuation, After, Runs
  <2> QED
      BY <2>1, StopElsewhere
<1>25. CASE TakeQueued(r)
  <2>1. run'[r].step \notin After /\ abort' = abort
      BY <1>0, <1>25, TakeBegins DEF TakeQueued, After, Runs
  <2> QED
      BY <2>1, StopElsewhere
<1>26. CASE SetIdle(r)
  <2>1. /\ run[r].step \in After /\ run'[r].step # "block" /\ run'[r].cancelled = run[r].cancelled
        /\ abort' = abort /\ session'.ledger = session.ledger
      BY <1>0, <1>26 DEF SetIdle, After, Runs
  <2> QED
      BY <2>1, StopStays
<1>27. CASE Adopt(r)
  <2>1. run'[r].step \notin After /\ abort' = abort
      BY <1>0, <1>27, TakeBegins DEF Adopt, After, Runs
  <2> QED
      BY <2>1, StopElsewhere
<1>28. CASE RunTail(r)
  <2>1. /\ run'[r].step = "prepare" /\ run'[r].cancelled = run[r].cancelled /\ abort' = abort
      BY <1>0, <1>28 DEF RunTail, Runs
  <2>2. run[r].cancelled => Recorded'
    <3>1. RecoveryInterrupted(session.ledger).goal # None => RecoveryInterrupted(session.ledger).status = "Interrupted"
        BY <1>00, InterruptSays
    <3>2. run[r].cancelled => session'.ledger = RecoveryInterrupted(session.ledger)
        BY <1>00, <1>28 DEF RunTail, SessionRecords
    <3> QED
        BY <3>1, <3>2 DEF Recorded
  <2>3. abort'.step = "runner" => abort'.hit
      BY <2>1 DEF Stopping
  <2> QED
      BY <1>000, <2>1, <2>2, <2>3 DEF Stopping
<1>29. CASE PrepareCheck(r)
  <2>1. /\ run[r].step \in After /\ run'[r].step # "block" /\ run'[r].cancelled = run[r].cancelled
        /\ abort' = abort /\ session'.ledger = session.ledger
      BY <1>0, <1>29 DEF PrepareCheck, After, Runs
  <2> QED
      BY <2>1, StopStays
<1>30. CASE PlanContinuation(r)
  <2>1. /\ run[r].step \in After /\ run'[r].cancelled = run[r].cancelled /\ abort' = abort
        /\ session'.ledger = session.ledger
      BY <1>0, <1>00, <1>30 DEF PlanContinuation, After, Runs, SessionRecords
  <2>2. CASE run'[r].step # "block"
      BY <2>1, <2>2, StopStays
  <2>3. CASE run'[r].step = "block"
    <3>1. /\ run'[r].revision = session.ledger.revision
          /\ session.ledger.goal # None /\ session.ledger.status = "Active"
        BY <1>0, <1>30, <2>3 DEF PlanContinuation, MayContinue, Runs
    <3>2. abort'.step = "runner" => abort'.hit
        BY <2>1 DEF Stopping
    <3>3. run[r].cancelled => abort'.lost \/ Reporting'
        BY <2>1, <3>1 DEF Stopping, Recorded, Reporting
    <3> QED
        BY <1>00, <1>000, <2>1, <3>1, <3>2, <3>3 DEF Stopping
  <2> QED
      BY <2>2, <2>3
<1>31. CASE BlockStagnant(r)
  <2>1. /\ run[r].step = "block" /\ run[r].step \in After /\ run'[r].step = "finish"
        /\ run'[r].cancelled = run[r].cancelled /\ abort' = abort
      BY <1>0, <1>31 DEF BlockStagnant, After, Runs
  <2>2. CASE session'.ledger = session.ledger
      BY <2>1, <2>2, StopStays
  <2>3. CASE session'.ledger # session.ledger
    <3>1. session.ledger.revision = run[r].revision
        BY <1>00, <1>31, <2>3 DEF BlockStagnant, SessionRecords
    <3>2. run[r].cancelled => abort'.lost \/ Reporting'
        BY <2>1, <3>1 DEF Stopping, Recorded, Reporting
    <3>3. abort'.step = "runner" => abort'.hit
        BY <2>1 DEF Stopping
    <3> QED
        BY <1>000, <2>1, <3>2, <3>3 DEF Stopping
  <2> QED
      BY <2>2, <2>3
<1>32. CASE FinishRun(r)
  <2>1. /\ run[r].step \in After /\ run'[r].step # "block" /\ run'[r].cancelled = run[r].cancelled
        /\ abort' = abort /\ session'.ledger = session.ledger
      BY <1>0, <1>32 DEF FinishRun, After, Runs
  <2> QED
      BY <2>1, StopStays
<1>33. CASE ReleaseRun(r)
  <2>1. /\ run[r].step \in After /\ run'[r].step # "block" /\ run'[r].cancelled = run[r].cancelled
        /\ abort' = abort /\ session'.ledger = session.ledger
      BY <1>0, <1>33 DEF ReleaseRun, After, Runs
  <2> QED
      BY <2>1, StopStays
<1> QED
    BY <1>1, <1>2, <1>3, <1>4, <1>5, <1>6, <1>7, <1>8, <1>9, <1>10, <1>11, <1>12, <1>13, <1>14, <1>15, <1>16, <1>17, <1>18, <1>19, <1>20, <1>21, <1>22, <1>23, <1>24, <1>25, <1>26, <1>27, <1>28, <1>29, <1>30, <1>31, <1>32, <1>33 DEF RunStep

\* An operation of the user leaves the stop and makes a planned block stale.
LEMMA UserOpStops ==
    ASSUME WellFormed, Stopping, UserOp
    PROVE  Stopping'
<1>1. PICK R : /\ session' = [session EXCEPT !.ledger = R]
               /\ R \in Ledgers /\ Created(R) /\ R.goal # None /\ session.ledger.goal # None
               /\ R.revision = session.ledger.revision + 1 /\ R.status = session.ledger.status
    BY UserOpLedger
<1>2. run' = run /\ abort' = abort
    BY DEF UserOp
<1>3. session'.ledger = R
    BY <1>1 DEF WellFormed, GoodSession, SessionRecords
<1>4. Recorded => Recorded'
    BY <1>1, <1>3 DEF Recorded
<1>5. /\ session.ledger.revision \in Nat
      /\ \A q \in Slots : run[q].revision \in Nat
    BY DEF WellFormed, TypeOK, GoodSession, SessionRecords, Runs, Ledgers
<1>6. abort'.step = "runner" => abort'.hit
    BY <1>2 DEF Stopping
<1>7. Reporting => Reporting'
    BY <1>2 DEF Reporting
<1>8. ASSUME NEW q \in Slots, run'[q].step = "block"
      PROVE  run'[q].revision <= session'.ledger.revision /\ run'[q].revision # session'.ledger.revision
  <2>1. run[q].revision <= session.ledger.revision /\ run'[q] = run[q]
      BY <1>2, <1>8 DEF Stopping
  <2> QED
      BY <1>1, <1>3, <1>5, <2>1
<1>9. ASSUME NEW q \in Slots, run'[q].step \in After, run'[q].cancelled
      PROVE  Recorded' \/ abort'.lost \/ Reporting'
    BY <1>2, <1>4, <1>7, <1>9 DEF Stopping
<1> QED
    BY <1>6, <1>8, <1>9 DEF Stopping

\* A step that leaves runs and ledger alone and an abort that goes on.
LEMMA AbortGoesOn ==
    ASSUME Stopping, \A q \in Slots : run'[q].step = run[q].step /\ run'[q].revision = run[q].revision,
           session'.ledger = session.ledger, abort'.step = "runner" => abort'.hit,
           (\E q \in Slots : run'[q].cancelled # run[q].cancelled) => Reporting',
           abort.lost => abort'.lost, Reporting => Reporting' \/ abort'.lost
    PROVE  Stopping'
<1>1. Recorded' <=> Recorded
    BY DEF Recorded
<1>2. ASSUME NEW q \in Slots, run'[q].step \in After, run'[q].cancelled
      PROVE  Recorded' \/ abort'.lost \/ Reporting'
  <2>1. CASE run'[q].cancelled = run[q].cancelled
      BY <1>1, <1>2, <2>1 DEF Stopping
  <2> QED
      BY <2>1
<1> QED
    BY <1>2 DEF Stopping

\* The steps of an abort keep the stop.
LEMMA AbortStops ==
    ASSUME WellFormed, OneRun, Stopping, AbortDrain \/ AbortStep \/ AbortDisconnect
    PROVE  Stopping'
<1>0. /\ run \in [Slots -> Runs] /\ session \in SessionRecords
      /\ abort \in [step : {"idle", "marker", "token", "prompt", "runner", "report"},
                    hit : BOOLEAN, live : SUBSET Slots, lost : BOOLEAN]
    BY DEF WellFormed, TypeOK
<1>1. CASE AbortDrain
    BY <1>0, <1>1, AbortGoesOn DEF AbortDrain, Reporting
<1>2. CASE AbortMarker
    BY <1>0, <1>2, AbortGoesOn DEF AbortMarker, Reporting, SessionRecords
<1>3. CASE AbortToken
  <2>1. /\ session'.ledger = session.ledger /\ abort'.step = "prompt" /\ abort'.lost = abort.lost
        /\ token # None => abort'.hit
        /\ abort.step = "token"
      BY <1>0, <1>3 DEF AbortToken
  <2>2. \A q \in Slots : run'[q].step = run[q].step /\ run'[q].revision = run[q].revision
      BY <1>0, <1>3 DEF AbortToken, Runs
  <2>3. token = None => run' = run
      BY <1>3 DEF AbortToken
  <2> QED
      BY <2>1, <2>2, <2>3, AbortGoesOn DEF Reporting
<1>4. CASE AbortPrompt
    BY <1>0, <1>4, AbortGoesOn DEF AbortPrompt, Reporting
<1>5. CASE AbortRunner
  <2>1. /\ session'.ledger = session.ledger /\ abort'.step = "report" /\ abort'.lost = abort.lost
        /\ abort'.hit = abort.hit /\ abort.hit
      BY <1>0, <1>5 DEF AbortRunner, Stopping
  <2>2. \A q \in Slots : run'[q].step = run[q].step /\ run'[q].revision = run[q].revision
      BY <1>0, <1>5 DEF AbortRunner, Runs
  <2> QED
      BY <2>1, <2>2, AbortGoesOn DEF Reporting
<1>6. CASE AbortReport
  <2>1. CASE ~ abort.hit
      BY <1>0, <1>6, <2>1, AbortGoesOn DEF AbortReport, Reporting
  <2>2. CASE abort.hit
    <3> DEFINE L == session.ledger
               R == RecoveryInterrupted(session.ledger)
    <3>1. session'.ledger = R /\ run' = run /\ abort'.step = "idle"
        BY <1>0, <1>6, <2>2 DEF AbortReport, SessionRecords
    <3>2. L \in Ledgers /\ L.revision \in Nat
        BY <1>0 DEF SessionRecords, Ledgers
    <3>3. /\ R.revision >= L.revision /\ R.goal = L.goal /\ (R.goal # None => R.status = "Interrupted")
          /\ L.goal # None /\ L.status # "Interrupted" => R.revision = L.revision + 1
          /\ R \in Ledgers
        BY <3>2, InterruptSays
    <3>4. R.revision \in Nat /\ \A q \in Slots : run[q].revision \in Nat
        BY <1>0, <3>3 DEF Ledgers, Runs
    <3> HIDE DEF R, L
    <3>5. Recorded'
        BY <3>1, <3>3 DEF Recorded
    <3>6. ASSUME NEW q \in Slots, run'[q].step = "block"
          PROVE  run'[q].revision <= R.revision /\ run'[q].revision # R.revision
      <4>1. /\ run[q].revision <= L.revision
            /\ run[q].revision = L.revision => L.goal # None /\ L.status = "Active"
          BY <3>1, <3>6 DEF Stopping, L
      <4> QED
          BY <3>1, <3>2, <3>3, <3>4, <4>1
    <3> QED
        BY <3>1, <3>5, <3>6 DEF Stopping
  <2> QED
      BY <2>1, <2>2
<1>7. CASE AbortDisconnect
    BY <1>0, <1>7, AbortGoesOn DEF AbortDisconnect, Reporting
<1> QED
    BY <1>1, <1>2, <1>3, <1>4, <1>5, <1>6, <1>7 DEF AbortStep

\* Every step keeps the stop.
LEMMA NextStops ==
    ASSUME WellFormed, OneRun, Stopping, [Next]_vars
    PROVE  Stopping'
<1>0. run \in [Slots -> Runs] /\ NoRun.step = "none"
    BY FreshRuns DEF WellFormed, TypeOK
<1>1. ASSUME NEW r \in Slots, RunStep(r) PROVE Stopping'
    BY <1>1, RunStepStops
<1>2. ASSUME NEW r \in Slots, RunFact(r) PROVE Stopping'
  <2>1. run'[r].step \notin After /\ abort' = abort
      BY <1>2 DEF RunFact, After
  <2> QED
      BY <2>1, StopElsewhere
<1>3. ASSUME NEW r \in Slots, Disconnect(r) PROVE Stopping'
  <2>1. run'[r].step \notin After /\ abort' = abort
      BY <1>0, <1>3 DEF Disconnect, After
  <2> QED
      BY <2>1, StopElsewhere
<1>4. ASSUME NEW r \in Slots, NEW k \in Kinds, Submit(r, k) PROVE Stopping'
  <2>1. run'[r].step \notin After /\ abort' = abort
    <3>1. run'[r] = Requested(k, 0, FALSE) /\ abort' = abort
        BY <1>0, <1>4 DEF Submit
    <3> QED
        BY <3>1, RequestSteps DEF After
  <2> QED
      BY <2>1, StopElsewhere
<1>5. CASE AbortDrain \/ AbortStep \/ AbortDisconnect
    BY <1>5, AbortStops
<1>6. CASE UserOp
    BY <1>6, UserOpStops
<1>7. CASE UNCHANGED vars
    BY <1>7 DEF vars, Stopping, Recorded, Reporting
<1> QED
    BY <1>1, <1>2, <1>3, <1>4, <1>5, <1>6, <1>7 DEF Next

\* With one prompt at a time the records are well formed and a stop stays in
\* the ledger: a run that was cancelled before its tail records it there, one
\* that was cancelled later is recorded by the abort that hit it, and neither
\* the plan nor the block of a stagnant goal undoes that.
THEOREM RunSoundHolds ==
    ASSUME OneRun
    PROVE  Spec => []RunSound
<1>1. Init => Stopping
    BY FreshRuns DEF Init, Stopping, After
<1>2. WellFormed /\ Stopping /\ [Next]_vars => Stopping'
    BY NextStops
<1>3. WellFormed /\ Stopping => RunSound
    BY DEF WellFormed, Stopping, RunSound, StopIsRecorded, After, Recorded, Reporting
<1> QED
    BY <1>1, <1>2, <1>3, WellFormedHolds, PTL DEF Spec

-----------------------------------------------------------------------------
(* An active goal is driven on, one prompt at a time *)

\* The session has an active goal.
Driven(s) == s.ledger.goal # None /\ s.ledger.status = "Active"

\* A continuation of generation g will be accepted.
Continues(s, g) ==
    /\ Driven(s) /\ g = s.ledger.goal_generation
    /\ s.marker # None /\ s.marker.generation = g

\* The steps from the plan of a continuation to its adoption.
Planned == {"finish", "release", "idle", "adopt"}

\* What holds of a run with record x when nothing interferes: it ends with a
\* goal that is not active, or with a continuation that is armed, queued and
\* taken while the goal and its marker stay as planned.
CalmSlot(x, s, f) ==
    /\ ~ x.cancelled /\ x.step \notin {"enqueue", "give_up", "guard"}
    /\ Steady(x.copy.ledger)
    /\ x.step \notin Planned \cup {"queue", "take"} => x.armed = 0
    /\ x.step \in Planned => IF x.armed = 0 THEN ~ Driven(s) ELSE Continues(s, x.armed)
    /\ x.step \in {"queue", "take"} => x.armed # 0 /\ Continues(s, x.armed)
    /\ x.step = "validate" => Continues(s, x.generation)
    /\ x.step = "block" => Driven(s) /\ x.revision = s.ledger.revision
    /\ x.step = "none" => ~ Driven(s)
    /\ x.step = "take" => f = <<[kind |-> "auto", generation |-> x.armed]>>
    /\ x.step # "take" => f = <<>>

\* The inductive form of ActiveGoalIsDriven.
Driving ==
    calm => /\ abort.step = "idle" /\ holder # Leaked
            /\ Steady(session.ledger)
            /\ \A r \in Slots : CalmSlot(run[r], session, followups)

\* The steps that carry no promise about the goal.
Midway == {"reserve", "insert", "check", "goal", "clear", "clone", "busy", "input", "seam",
           "fetch", "assistant", "register", "running", "review", "verify", "checking",
           "final", "settle", "tail", "prepare", "plan"}

LEMMA CalmMidway ==
    ASSUME NEW x, NEW s, x.step \in Midway, ~ x.cancelled, Steady(x.copy.ledger), x.armed = 0
    PROVE  CalmSlot(x, s, <<>>)
BY DEF CalmSlot, Midway, Planned

\* What a step of the run has to leave.
CalmAfter(r) ==
    /\ abort' = abort /\ holder' \in {holder, None, r}
    /\ Steady(session'.ledger)
    /\ CalmSlot(run'[r], session', followups')

\* A step between two of the midway steps leaves a steady ledger and copy.
LEMMA MidwayStep ==
    ASSUME NEW r \in Slots, abort' = abort, holder' \in {holder, None, r}, followups' = <<>>,
           run'[r].step \in Midway, ~ run'[r].cancelled, Steady(run'[r].copy.ledger), run'[r].armed = 0,
           Steady(session'.ledger)
    PROVE  CalmAfter(r)
BY CalmMidway DEF CalmAfter

\* The queue of one continuation is taken whole.
LEMMA TakesContinuation ==
    ASSUME NEW g \in Nat, followups = <<[kind |-> "auto", generation |-> g]>>
    PROVE  /\ followups # <<>> /\ Preferred = 1
           /\ followups[Preferred].kind = "auto" /\ followups[Preferred].generation = g
           /\ RemoveAt(followups, Preferred) = <<>>
<1> DEFINE e == [kind |-> "auto", generation |-> g]
<1>1. followups = <<e>> /\ e.kind = "auto" /\ e.generation = g
    OBVIOUS
<1> HIDE DEF e
<1>2. Len(followups) = 1 /\ DOMAIN followups = {1} /\ followups[1] = e /\ followups \in Seq({e})
    BY <1>1
<1>3. Preferred = 1
    BY <1>1, <1>2 DEF Preferred
<1>4. RemoveAt(followups, 1) = <<>>
  <2>1. /\ SubSeq(followups, 1, 0) \in Seq({e}) /\ Len(SubSeq(followups, 1, 0)) = 0
        /\ SubSeq(followups, 2, 1) \in Seq({e}) /\ Len(SubSeq(followups, 2, 1)) = 0
      BY <1>2, SubSeqProperties
  <2>2. SubSeq(followups, 1, 0) = <<>> /\ SubSeq(followups, 2, 1) = <<>>
      BY <2>1, EmptySeq
  <2>3. RemoveAt(followups, 1) = SubSeq(followups, 1, 0) \o SubSeq(followups, 2, 1)
      BY <1>2 DEF RemoveAt
  <2> QED
      BY <2>2, <2>3
<1> QED
    BY <1>1, <1>2, <1>3, <1>4

\* Every step of the run does.
LEMMA RunStepDrives ==
    ASSUME WellFormed, OneRun, Owned, Driving, calm, calm', NEW r \in Slots, RunStep(r)
    PROVE  CalmAfter(r)
<1> DEFINE L == session.ledger
<1>0. /\ run \in [Slots -> Runs] /\ run[r] \in Runs /\ NoRun.step = "none"
      /\ session \in SessionRecords /\ L \in Ledgers
    BY FreshRuns DEF WellFormed, TypeOK, SessionRecords
<1>00. /\ CalmSlot(run[r], session, followups) /\ Steady(L) /\ abort.step = "idle"
       /\ ~ run[r].cancelled /\ Steady(run[r].copy.ledger)
    BY DEF Driving, CalmSlot
<1>01. run[r].step \notin {"enqueue", "give_up", "guard"}
    BY <1>00 DEF CalmSlot
<1>02. run[r].step \in Midway => run[r].armed = 0 /\ followups = <<>>
    BY <1>00 DEF CalmSlot, Midway, Planned
<1>03. run[r].step \in Planned \cup {"block", "validate", "queue"} => followups = <<>>
    BY <1>00 DEF CalmSlot, Planned
<1>04. holder = None \/ (holder = r /\ run[r].step \in Owning)
  <2>1. holder \in Slots => holder = r
      BY DEF OneRun
  <2>2. holder \in Slots \cup {None, Leaked} /\ holder # Leaked
      BY DEF WellFormed, TypeOK, Driving
  <2>3. holder = r => run[r].step \in Owning
      BY DEF Owned
  <2> QED
      BY <2>1, <2>2, <2>3
<1>05. Steady(NoSession.ledger) /\ NoRun.copy = NoSession /\ NoRun.armed = 0 /\ ~ NoRun.cancelled
    BY DEF NoRun, NoSession, EmptyLedger, Steady
<1>06. session.ledger \in Ledgers /\ L = session.ledger
    BY <1>0
<1> HIDE DEF L
<1>1. CASE GiveUpReservation(r)
    BY <1>1, <1>01 DEF GiveUpReservation
<1>2. CASE GuardIdle(r)
    BY <1>2, <1>01 DEF GuardIdle
<1>3. CASE Enqueue(r)
    BY <1>3, <1>01 DEF Enqueue
<1>4. CASE InputError(r)
    BY <1>4 DEF InputError
<1>5. CASE SetBusy(r)
  <2>1. /\ run[r].step \in Midway /\ run'[r].step \in Midway /\ ~ run'[r].cancelled
        /\ run'[r].armed = run[r].armed /\ Steady(run'[r].copy.ledger)
        /\ abort' = abort /\ holder' \in {holder, None, r} /\ followups' = followups
      BY <1>0, <1>00, <1>05, <1>5 DEF SetBusy, Midway, Runs, L
  <2>2. Steady(session'.ledger)
      BY <1>0, <1>00, <1>5 DEF SetBusy, SessionRecords, L
  <2> QED
      BY <1>02, <2>1, <2>2, MidwayStep
<1>6. CASE CommitInput(r)
  <2>1. /\ run[r].step \in Midway /\ run'[r].step \in Midway /\ ~ run'[r].cancelled
        /\ run'[r].armed = run[r].armed /\ Steady(run'[r].copy.ledger)
        /\ abort' = abort /\ holder' \in {holder, None, r} /\ followups' = followups
      BY <1>0, <1>00, <1>05, <1>6 DEF CommitInput, Midway, Runs, L
  <2>2. Steady(session'.ledger)
      BY <1>0, <1>00, <1>6 DEF CommitInput, SessionRecords, L
  <2> QED
      BY <1>02, <2>1, <2>2, MidwayStep
<1>7. CASE AddAssistant(r)
  <2>1. /\ run[r].step \in Midway /\ run'[r].step \in Midway /\ ~ run'[r].cancelled
        /\ run'[r].armed = run[r].armed /\ Steady(run'[r].copy.ledger)
        /\ abort' = abort /\ holder' \in {holder, None, r} /\ followups' = followups
      BY <1>0, <1>00, <1>05, <1>7 DEF AddAssistant, Midway, Runs, L
  <2>2. Steady(session'.ledger)
      BY <1>0, <1>00, <1>7 DEF AddAssistant, SessionRecords, L
  <2> QED
      BY <1>02, <2>1, <2>2, MidwayStep
<1>8. CASE FinalCheck(r)
  <2>1. /\ run[r].step \in Midway /\ run'[r].step \in Midway /\ ~ run'[r].cancelled
        /\ run'[r].armed = run[r].armed /\ Steady(run'[r].copy.ledger)
        /\ abort' = abort /\ holder' \in {holder, None, r} /\ followups' = followups
      BY <1>0, <1>00, <1>05, <1>8 DEF FinalCheck, Midway, Runs, L
  <2>2. Steady(session'.ledger)
      BY <1>0, <1>00, <1>8 DEF FinalCheck, SessionRecords, L
  <2> QED
      BY <1>02, <2>1, <2>2, MidwayStep
<1>9. CASE PrepareCheck(r)
  <2>1. /\ run[r].step \in Midway /\ run'[r].step \in Midway /\ ~ run'[r].cancelled
        /\ run'[r].armed = run[r].armed /\ Steady(run'[r].copy.ledger)
        /\ abort' = abort /\ holder' \in {holder, None, r} /\ followups' = followups
      BY <1>0, <1>00, <1>05, <1>9 DEF PrepareCheck, Midway, Runs, L
  <2>2. Steady(session'.ledger)
      BY <1>0, <1>00, <1>9 DEF PrepareCheck, SessionRecords, L
  <2> QED
      BY <1>02, <2>1, <2>2, MidwayStep
<1>10. CASE ClearMarker(r)
  <2>1. /\ run[r].step \in Midway /\ run'[r].step \in Midway /\ ~ run'[r].cancelled
        /\ run'[r].armed = run[r].armed /\ Steady(run'[r].copy.ledger)
        /\ abort' = abort /\ holder' \in {holder, None, r} /\ followups' = followups
      BY <1>0, <1>00, <1>05, <1>10 DEF ClearMarker, Midway, Runs, L
  <2>2. Steady(session'.ledger)
      BY <1>0, <1>00, <1>10 DEF ClearMarker, SessionRecords, L
  <2> QED
      BY <1>02, <2>1, <2>2, MidwayStep
<1>11. CASE ReserveInsert(r)
  <2>1. /\ run[r].step \in Midway /\ run'[r].step \in Midway /\ ~ run'[r].cancelled
        /\ run'[r].armed = run[r].armed /\ Steady(run'[r].copy.ledger)
        /\ abort' = abort /\ holder' \in {holder, None, r} /\ followups' = followups
      BY <1>0, <1>00, <1>05, <1>11 DEF ReserveInsert, Midway, Runs, L
  <2>2. Steady(session'.ledger)
      BY <1>0, <1>00, <1>11 DEF ReserveInsert, SessionRecords, L
  <2> QED
      BY <1>02, <2>1, <2>2, MidwayStep
<1>12. CASE CloneSession(r)
  <2>1. /\ run[r].step \in Midway /\ run'[r].step \in Midway /\ ~ run'[r].cancelled
        /\ run'[r].armed = run[r].armed /\ Steady(run'[r].copy.ledger)
        /\ abort' = abort /\ holder' \in {holder, None, r} /\ followups' = followups
      BY <1>0, <1>00, <1>05, <1>12 DEF CloneSession, Midway, Runs, L
  <2>2. Steady(session'.ledger)
      BY <1>0, <1>00, <1>12 DEF CloneSession, SessionRecords, L
  <2> QED
      BY <1>02, <2>1, <2>2, MidwayStep
<1>13. CASE FetchSession(r)
  <2>1. /\ run[r].step \in Midway /\ run'[r].step \in Midway /\ ~ run'[r].cancelled
        /\ run'[r].armed = run[r].armed /\ Steady(run'[r].copy.ledger)
        /\ abort' = abort /\ holder' \in {holder, None, r} /\ followups' = followups
      BY <1>0, <1>00, <1>05, <1>13 DEF FetchSession, Midway, Runs, L
  <2>2. Steady(session'.ledger)
      BY <1>0, <1>00, <1>13 DEF FetchSession, SessionRecords, L
  <2> QED
      BY <1>02, <2>1, <2>2, MidwayStep
<1>14. CASE SchedulerReturns(r)
  <2>1. /\ run[r].step \in Midway /\ run'[r].step \in Midway /\ ~ run'[r].cancelled
        /\ run'[r].armed = run[r].armed /\ Steady(run'[r].copy.ledger)
        /\ abort' = abort /\ holder' \in {holder, None, r} /\ followups' = followups
      BY <1>0, <1>00, <1>05, <1>14 DEF SchedulerReturns, Midway, Runs, L
  <2>2. Steady(session'.ledger)
      BY <1>0, <1>00, <1>14 DEF SchedulerReturns, SessionRecords, L
  <2> QED
      BY <1>02, <2>1, <2>2, MidwayStep
<1>15. CASE UpdateSession(r)
  <2>1. /\ run[r].step \in Midway /\ run'[r].step \in Midway /\ ~ run'[r].cancelled
        /\ run'[r].armed = run[r].armed /\ Steady(run'[r].copy.ledger)
        /\ abort' = abort /\ holder' \in {holder, None, r} /\ followups' = followups
      BY <1>0, <1>00, <1>05, <1>15 DEF UpdateSession, Midway, Runs, L
  <2>2. Steady(session'.ledger)
      BY <1>0, <1>00, <1>15 DEF UpdateSession, SessionRecords, L
  <2> QED
      BY <1>02, <2>1, <2>2, MidwayStep
<1>16. CASE RegisterRun(r)
  <2>1. /\ run[r].step \in Midway /\ run'[r].step \in Midway /\ ~ run'[r].cancelled
        /\ run'[r].armed = run[r].armed /\ Steady(run'[r].copy.ledger)
        /\ abort' = abort /\ holder' \in {holder, None, r} /\ followups' = followups
      BY <1>0, <1>00, <1>05, <1>16 DEF RegisterRun, Midway, Runs, L
  <2>2. Steady(session'.ledger)
      BY <1>0, <1>00, <1>16 DEF RegisterRun, SessionRecords, L
  <2> QED
      BY <1>02, <2>1, <2>2, MidwayStep
<1>17. CASE VerifyBegin(r)
  <2>1. /\ run[r].step \in Midway /\ run'[r].step \in Midway /\ ~ run'[r].cancelled
        /\ run'[r].armed = run[r].armed /\ Steady(run'[r].copy.ledger)
        /\ abort' = abort /\ holder' \in {holder, None, r} /\ followups' = followups
      BY <1>0, <1>00, <1>05, <1>17 DEF VerifyBegin, Midway, Runs, L
  <2>2. Steady(session'.ledger)
      BY <1>0, <1>00, <1>17 DEF VerifyBegin, SessionRecords, L
  <2> QED
      BY <1>02, <2>1, <2>2, MidwayStep
<1>18. CASE RunTail(r)
  <2>1. /\ run[r].step \in Midway /\ run'[r].step \in Midway /\ ~ run'[r].cancelled
        /\ run'[r].armed = run[r].armed /\ Steady(run'[r].copy.ledger)
        /\ abort' = abort /\ holder' \in {holder, None, r} /\ followups' = followups
      BY <1>0, <1>00, <1>05, <1>18 DEF RunTail, Midway, Runs, L
  <2>2. Steady(session'.ledger)
      BY <1>0, <1>00, <1>18 DEF RunTail, SessionRecords, L
  <2> QED
      BY <1>02, <2>1, <2>2, MidwayStep
<1>19. CASE StartLedgerRun(r)
  <2>1. /\ run[r].step \in Midway /\ run'[r].step \in Midway /\ ~ run'[r].cancelled
        /\ run'[r].armed = run[r].armed /\ Steady(run'[r].copy.ledger)
        /\ abort' = abort /\ holder' \in {holder, None, r} /\ followups' = followups
      BY <1>0, <1>00, <1>05, <1>19 DEF StartLedgerRun, Midway, Runs, L
  <2>2. Steady(session'.ledger)
    <3>1. Steady(RunStarted(session.ledger))
        BY <1>0, <1>00, RunStartedKeeps DEF L
    <3> QED
        BY <1>0, <3>1, <1>19 DEF StartLedgerRun, SessionRecords
  <2> QED
      BY <1>02, <2>1, <2>2, MidwayStep
<1>20. CASE CommitFinal(r)
  <2>1. /\ run[r].step \in Midway /\ run'[r].step \in Midway /\ ~ run'[r].cancelled
        /\ run'[r].armed = run[r].armed /\ Steady(run'[r].copy.ledger)
        /\ abort' = abort /\ holder' \in {holder, None, r} /\ followups' = followups
      BY <1>0, <1>00, <1>05, <1>20 DEF CommitFinal, Midway, Runs, L
  <2>2. Steady(session'.ledger)
    <3>1. Steady(FinalResponseCommitted(session.ledger))
        BY <1>0, <1>00, FinalResponseKeeps DEF L
    <3> QED
        BY <1>0, <3>1, <1>20 DEF CommitFinal, SessionRecords
  <2> QED
      BY <1>02, <2>1, <2>2, MidwayStep
<1>21. CASE VerifyEnd(r)
  <2>1. /\ run[r].step \in Midway /\ run'[r].step \in Midway /\ ~ run'[r].cancelled
        /\ run'[r].armed = run[r].armed /\ Steady(run'[r].copy.ledger)
        /\ abort' = abort /\ holder' \in {holder, None, r} /\ followups' = followups
      BY <1>0, <1>00, <1>05, <1>21 DEF VerifyEnd, Midway, Runs, L
  <2>2. Steady(session'.ledger)
    <3>1. session' = session \/ (session' = [session EXCEPT !.ledger = Bump(CheckedCriteria(L))] /\ L.revision = run[r].revision)
        BY <1>21 DEF VerifyEnd, L
    <3>2. L.revision = run[r].revision => L.goal # None
        BY <1>21 DEF VerifyEnd, WellFormed, GoodRun, GoodSession, Created, L
    <3>3. L.goal # None => Steady(Bump(CheckedCriteria(L)))
        BY <1>0, <1>00, CheckedCriteriaCarries, CommitCarries
    <3> QED
        BY <1>0, <1>00, <3>1, <3>2, <3>3 DEF SessionRecords, L
  <2> QED
      BY <1>02, <2>1, <2>2, MidwayStep
<1>22. CASE BusyCheck(r)
  <2>1. /\ run[r].step \in Midway /\ run'[r].step \in Midway /\ ~ run'[r].cancelled
        /\ run'[r].armed = run[r].armed /\ Steady(run'[r].copy.ledger)
        /\ abort' = abort /\ holder' \in {holder, None, r} /\ followups' = followups
      BY <1>0, <1>00, <1>04, <1>22 DEF BusyCheck, Midway, Runs, L, Owning
  <2>2. Steady(session'.ledger)
      BY <1>0, <1>00, <1>22 DEF BusyCheck, SessionRecords, L
  <2> QED
      BY <1>02, <2>1, <2>2, MidwayStep
<1>23. CASE ReserveCheck(r)
  <2>1. /\ run[r].step \in Midway /\ run'[r].step \in Midway /\ ~ run'[r].cancelled
        /\ run'[r].armed = run[r].armed /\ Steady(run'[r].copy.ledger)
        /\ abort' = abort /\ holder' \in {holder, None, r} /\ followups' = followups
      BY <1>0, <1>00, <1>04, <1>23 DEF ReserveCheck, Midway, Runs, L, Owning
  <2>2. Steady(session'.ledger)
      BY <1>0, <1>00, <1>23 DEF ReserveCheck, SessionRecords, L
  <2> QED
      BY <1>02, <2>1, <2>2, MidwayStep
<1>24. CASE StartTaskGoal(r)
  <2>0. L.awaiting = {}
      BY <1>00 DEF Steady
  <2>1. /\ run[r].step \in Midway /\ run'[r].step \in Midway /\ ~ run'[r].cancelled
        /\ run'[r].armed = run[r].armed /\ Steady(run'[r].copy.ledger)
        /\ abort' = abort /\ holder' \in {holder, None, r} /\ followups' = followups
      BY <1>0, <1>00, <2>0, <1>24 DEF StartTaskGoal, Midway, Runs, L
  <2>2. Steady(session'.ledger)
    <3>1. PICK s \in Statements :
             session' = [ledger |-> Bump(StartGoal(session.ledger, PlainGoal, s)), marker |-> None]
        BY <2>0, <1>24 DEF StartTaskGoal, L
    <3>2. Steady(Bump(StartGoal(session.ledger, PlainGoal, s)))
        BY <1>06, StartGoalSteady
    <3> QED
        BY <3>1, <3>2
  <2> QED
      BY <1>02, <2>1, <2>2, MidwayStep
<1>25. CASE ValidateAuto(r)
  <2>1. /\ L.goal_generation = run[r].generation /\ L.status = "Active" /\ L.next # None
        /\ session.marker # None /\ session.marker.generation = run[r].generation /\ run[r].armed = 0
      BY <1>00, <1>25 DEF ValidateAuto, CalmSlot, Continues, Driven, Steady, Planned, L
  <2>2. run' = [run EXCEPT ![r] = [run[r] EXCEPT !.step = "reserve"]]
      BY <2>1, <1>25 DEF ValidateAuto, L
  <2>3. /\ run'[r].step \in Midway /\ ~ run'[r].cancelled /\ run'[r].armed = 0 /\ Steady(run'[r].copy.ledger)
      BY <1>0, <1>00, <2>1, <2>2 DEF Midway, Runs
  <2>4. abort' = abort /\ holder' \in {holder, None, r} /\ followups' = <<>> /\ Steady(session'.ledger)
      BY <1>00, <1>03, <1>25 DEF ValidateAuto, L
  <2> QED
      BY <2>3, <2>4, MidwayStep
<1>26. CASE PlanContinuation(r)
  <2>0. run[r].armed = 0 /\ followups = <<>> /\ run[r].step = "plan"
      BY <1>02, <1>26 DEF PlanContinuation, Midway
  <2>1. /\ abort' = abort /\ holder' \in {holder, None, r} /\ followups' = <<>>
        /\ session'.ledger = L
      BY <1>0, <2>0, <1>26 DEF PlanContinuation, SessionRecords, L
  <2>2. run'[r].cancelled = run[r].cancelled /\ run'[r].copy = run[r].copy
      BY <1>0, <1>26 DEF PlanContinuation, Runs
  <2>3. CASE MayContinue(L) /\ ~ Exhausted(session.marker, L)
    <3>1. /\ run'[r].step = "finish" /\ run'[r].armed = L.goal_generation
          /\ session' = [session EXCEPT !.marker = NextMarker(session.marker, L)]
        BY <1>0, <2>3, <1>26 DEF PlanContinuation, Runs, L
    <3>2. L.goal_generation \in Nat /\ L.goal_generation >= 1 /\ L.goal # None /\ L.status = "Active"
        BY <1>0, <1>00, <2>3 DEF MayContinue, Steady, Ledgers
    <3>3. NextMarker(session.marker, L) \in Markers
        BY <1>0, <2>3, MarkerAdvances DEF SessionRecords
    <3>4. session'.marker = NextMarker(session.marker, L)
        BY <1>0, <3>1 DEF SessionRecords
    <3>5. session'.marker # None /\ session'.marker.generation = L.goal_generation
        BY <3>3, <3>4, SessionAssumption DEF NextMarker
    <3>6. Continues(session', run'[r].armed) /\ run'[r].armed # 0
        BY <2>1, <3>1, <3>2, <3>5 DEF Continues, Driven
    <3>7. CalmSlot(run'[r], session', <<>>)
        BY <1>00, <2>2, <3>1, <3>6 DEF CalmSlot, Planned
    <3> QED
        BY <1>00, <2>1, <3>7 DEF CalmAfter
  <2>4. CASE MayContinue(L) /\ Exhausted(session.marker, L)
    <3>1. run'[r].step = "block" /\ run'[r].armed = 0 /\ run'[r].revision = L.revision
        BY <1>0, <2>0, <2>4, <1>26 DEF PlanContinuation, Runs, L
    <3>2. CalmSlot(run'[r], session', <<>>)
        BY <1>00, <2>1, <2>2, <2>4, <3>1 DEF CalmSlot, Planned, Driven, MayContinue
    <3> QED
        BY <1>00, <2>1, <3>2 DEF CalmAfter
  <2>5. CASE ~ MayContinue(L)
    <3>1. run'[r].step = "finish" /\ run'[r].armed = 0
        BY <1>0, <2>0, <2>5, <1>26 DEF PlanContinuation, Runs, L
    <3>2. ~ Driven(session')
        BY <1>00, <2>1, <2>5 DEF Driven, Steady, MayContinue
    <3>3. CalmSlot(run'[r], session', <<>>)
        BY <1>00, <2>2, <3>1, <3>2 DEF CalmSlot, Planned
    <3> QED
        BY <1>00, <2>1, <3>3 DEF CalmAfter
  <2> QED
      BY <2>3, <2>4, <2>5
<1>27. CASE BlockStagnant(r)
  <2>0. /\ run[r].armed = 0 /\ followups = <<>>
        /\ L.goal # None /\ L.status = "Active" /\ L.revision = run[r].revision
      BY <1>00, <1>27 DEF BlockStagnant, CalmSlot, Driven, Planned, L
  <2>1. SetBlockedOk(L)
      BY <1>00, <2>0 DEF SetBlockedOk, EnsureCreated, RequireNextForStatus, Steady
  <2>2. session'.ledger = Bump(SetBlocked(L))
      BY <1>0, <2>0, <2>1, <1>27 DEF BlockStagnant, SessionRecords, L
  <2>3. Steady(Bump(SetBlocked(L))) /\ Bump(SetBlocked(L)).status = "Blocked"
      BY <1>0, <1>00, <2>0, StatusOpsCarry, CommitCarries
  <2>4. /\ run'[r].step = "finish" /\ run'[r].armed = 0 /\ run'[r].cancelled = run[r].cancelled
        /\ run'[r].copy = run[r].copy
      BY <1>0, <2>0, <1>27 DEF BlockStagnant, Runs
  <2>5. abort' = abort /\ holder' \in {holder, None, r} /\ followups' = <<>>
      BY <2>0, <1>27 DEF BlockStagnant
  <2>6. ~ Driven(session')
      BY <2>2, <2>3 DEF Driven
  <2>7. CalmSlot(run'[r], session', <<>>)
      BY <1>00, <2>4, <2>6 DEF CalmSlot, Planned
  <2> QED
      BY <2>2, <2>3, <2>5, <2>7 DEF CalmAfter
<1>28. CASE FinishRun(r)
  <2>1. /\ run[r].step \in Planned /\ run'[r].step \in Planned
        /\ run'[r].cancelled = run[r].cancelled /\ run'[r].copy = run[r].copy /\ run'[r].armed = run[r].armed
      BY <1>0, <1>28 DEF FinishRun, Planned, Runs
  <2>2. abort' = abort /\ holder' \in {holder, None, r} /\ followups' = followups /\ session' = session
      BY <1>28 DEF FinishRun
  <2>3. CalmSlot(run'[r], session', followups')
      BY <1>00, <2>1, <2>2 DEF CalmSlot, Planned
  <2> QED
      BY <1>00, <2>2, <2>3 DEF CalmAfter, L
<1>29. CASE ReleaseRun(r)
  <2>1. /\ run[r].step \in Planned /\ run'[r].step \in Planned
        /\ run'[r].cancelled = run[r].cancelled /\ run'[r].copy = run[r].copy /\ run'[r].armed = run[r].armed
      BY <1>0, <1>29 DEF ReleaseRun, Planned, Runs
  <2>2. abort' = abort /\ holder' \in {holder, None, r} /\ followups' = followups /\ session' = session
      BY <1>29 DEF ReleaseRun
  <2>3. CalmSlot(run'[r], session', followups')
      BY <1>00, <2>1, <2>2 DEF CalmSlot, Planned
  <2> QED
      BY <1>00, <2>2, <2>3 DEF CalmAfter, L
<1>30. CASE SetIdle(r)
  <2>1. /\ run[r].step \in Planned /\ run'[r].step \in Planned
        /\ run'[r].cancelled = run[r].cancelled /\ run'[r].copy = run[r].copy /\ run'[r].armed = run[r].armed
      BY <1>0, <1>30 DEF SetIdle, Planned, Runs
  <2>2. abort' = abort /\ holder' \in {holder, None, r} /\ followups' = followups /\ session' = session
      BY <1>30 DEF SetIdle
  <2>3. CalmSlot(run'[r], session', followups')
      BY <1>00, <2>1, <2>2 DEF CalmSlot, Planned
  <2> QED
      BY <1>00, <2>2, <2>3 DEF CalmAfter, L
<1>31. CASE Adopt(r)
  <2>1. /\ followups = <<>> /\ run[r].step = "adopt"
        /\ IF run[r].armed = 0 THEN ~ Driven(session) ELSE Continues(session, run[r].armed)
      BY <1>00, <1>03, <1>31 DEF Adopt, CalmSlot, Planned
  <2>2. abort' = abort /\ holder' \in {holder, None, r} /\ followups' = <<>> /\ session' = session
      BY <2>1, <1>31 DEF Adopt
  <2>3. CASE run[r].armed # 0
    <3>1. run' = [run EXCEPT ![r] = [run[r] EXCEPT !.step = "queue"]]
        BY <1>00, <2>1, <2>3, <1>31 DEF Adopt
    <3>2. /\ run'[r].step = "queue" /\ run'[r].cancelled = run[r].cancelled
          /\ run'[r].copy = run[r].copy /\ run'[r].armed = run[r].armed
        BY <1>0, <3>1 DEF Runs
    <3>3. CalmSlot(run'[r], session', <<>>)
        BY <1>00, <2>1, <2>2, <2>3, <3>2 DEF CalmSlot, Planned
    <3> QED
        BY <1>00, <2>2, <3>3 DEF CalmAfter, L
  <2>4. CASE run[r].armed = 0
    <3>1. run'[r] = NoRun
        BY <1>0, <2>1, <2>4, <1>31 DEF Adopt
    <3>2. CalmSlot(run'[r], session', <<>>)
        BY <1>0, <1>05, <2>1, <2>2, <2>4, <3>1 DEF CalmSlot, Planned
    <3> QED
        BY <1>00, <2>2, <3>2 DEF CalmAfter, L
  <2> QED
      BY <2>3, <2>4
<1>32. CASE QueueContinuation(r)
  <2>1. followups = <<>> /\ run[r].armed # 0 /\ Continues(session, run[r].armed)
      BY <1>00, <1>32 DEF QueueContinuation, CalmSlot
  <2>2. abort' = abort /\ holder' \in {holder, None, r} /\ session' = session
      BY <1>32 DEF QueueContinuation
  <2>3. followups' = <<[kind |-> "auto", generation |-> run[r].armed]>>
      BY <2>1, <1>32 DEF QueueContinuation
  <2>4. /\ run'[r].step = "take" /\ run'[r].cancelled = run[r].cancelled
        /\ run'[r].copy = run[r].copy /\ run'[r].armed = run[r].armed
      BY <1>0, <1>32 DEF QueueContinuation, Runs
  <2>5. CalmSlot(run'[r], session', followups')
      BY <1>00, <2>1, <2>2, <2>3, <2>4 DEF CalmSlot, Planned
  <2> QED
      BY <1>00, <2>2, <2>5 DEF CalmAfter, L
<1>33. CASE TakeQueued(r)
  <2>1. /\ followups = <<[kind |-> "auto", generation |-> run[r].armed]>>
        /\ run[r].armed \in Nat /\ Continues(session, run[r].armed)
      BY <1>0, <1>00, <1>33 DEF TakeQueued, CalmSlot, Runs
  <2>2. abort' = abort /\ holder' \in {holder, None, r} /\ session' = session
      BY <1>33 DEF TakeQueued
  <2>3. /\ followups # <<>>
        /\ followups[Preferred].kind = "auto" /\ followups[Preferred].generation = run[r].armed
        /\ RemoveAt(followups, Preferred) = <<>>
      BY <2>1, TakesContinuation
  <2>4. TakeFollowup(r)
      BY <2>3, <1>33 DEF TakeQueued
  <2>5. followups' = <<>> /\ run' = [run EXCEPT ![r] = Requested("auto", run[r].armed, TRUE)]
      BY <2>3, <2>4 DEF TakeFollowup
  <2>6. FirstStep("auto") = "validate"
      BY DEF FirstStep
  <2>7. /\ run'[r].step = "validate" /\ run'[r].cancelled = NoRun.cancelled
        /\ run'[r].copy = NoRun.copy /\ run'[r].armed = NoRun.armed /\ run'[r].generation = run[r].armed
      BY <1>0, <2>5, <2>6 DEF Requested, NoRun
  <2>8. CalmSlot(run'[r], session', <<>>)
      BY <1>05, <2>1, <2>2, <2>7 DEF CalmSlot, Planned
  <2> QED
      BY <1>00, <2>2, <2>5, <2>8 DEF CalmAfter, L
<1> QED
    BY <1>1, <1>2, <1>3, <1>4, <1>5, <1>6, <1>7, <1>8, <1>9, <1>10, <1>11, <1>12, <1>13, <1>14, <1>15, <1>16, <1>17, <1>18, <1>19, <1>20, <1>21, <1>22, <1>23, <1>24, <1>25, <1>26, <1>27, <1>28, <1>29, <1>30, <1>31, <1>32, <1>33 DEF RunStep

\* Every step keeps the goal driven.
LEMMA NextDrives ==
    ASSUME WellFormed, OneRun, Owned, Driving, [Next]_vars
    PROVE  Driving'
<1> SUFFICES ASSUME calm'
             PROVE  /\ abort'.step = "idle" /\ holder' # Leaked
                    /\ Steady(session'.ledger)
                    /\ \A q \in Slots : CalmSlot(run'[q], session', followups')
    BY DEF Driving
<1>0. run \in [Slots -> Runs] /\ session \in SessionRecords
    BY DEF WellFormed, TypeOK
<1>1. ASSUME NEW r \in Slots, RunStep(r), calm PROVE Driving'
  <2>1. CalmAfter(r)
      BY <1>1, RunStepDrives
  <2>2. \A q \in Slots : q = r
      BY DEF OneRun
  <2> QED
      BY <1>1, <2>1, <2>2, SessionAssumption DEF CalmAfter, Driving
<1>2. ASSUME NEW r \in Slots, RunFact(r), calm PROVE Driving'
  <2>1. PICK R : /\ session' = [session EXCEPT !.ledger = R]
                 /\ R \in Ledgers /\ Created(R) /\ (Steady(session.ledger) => Steady(R))
      BY <1>2, RunFactLedger
  <2>2. session'.ledger = R
      BY <1>0, <2>1 DEF SessionRecords
  <2>3. run' = run /\ abort' = abort /\ holder' = holder /\ followups' = followups /\ run[r].step = "running"
      BY <1>2 DEF RunFact
  <2>4. CalmSlot(run[r], session, followups) /\ Steady(session.ledger) /\ abort.step = "idle" /\ holder # Leaked
      BY <1>2 DEF Driving
  <2>5. /\ followups = <<>> /\ run[r].armed = 0 /\ ~ run[r].cancelled /\ Steady(run[r].copy.ledger)
        /\ run[r].step \in Midway
      BY <2>3, <2>4 DEF CalmSlot, Planned, Midway
  <2>6. CalmSlot(run[r], session', <<>>)
      BY <2>5, CalmMidway
  <2>7. \A q \in Slots : q = r
      BY DEF OneRun
  <2> QED
      BY <2>1, <2>2, <2>3, <2>4, <2>5, <2>6, <2>7 DEF Driving
<1>3. ASSUME NEW r \in Slots, NEW k \in Kinds, Submit(r, k), calm PROVE Driving'
  <2>1. CalmSlot(run[r], session, followups) /\ Steady(session.ledger) /\ abort.step = "idle" /\ holder # Leaked
      BY <1>3 DEF Driving
  <2>2. run[r].step = "none" /\ run'[r] = Requested(k, 0, FALSE)
      BY <1>0, <1>3 DEF Submit
  <2>3. session' = session /\ abort' = abort /\ holder' = holder /\ followups' = followups
      BY <1>3 DEF Submit
  <2>4. FirstStep(k) \in {"reserve", "check"}
      BY SessionAssumption DEF FirstStep
  <2>5. Requested(k, 0, FALSE).step = FirstStep(k)
      BY DEF Requested, NoRun
  <2>6. /\ Requested(k, 0, FALSE).copy = NoSession /\ Requested(k, 0, FALSE).armed = 0
        /\ ~ Requested(k, 0, FALSE).cancelled
      BY DEF Requested, NoRun
  <2>7. Steady(NoSession.ledger) /\ followups = <<>>
      BY <2>1, <2>2 DEF NoSession, EmptyLedger, Steady, CalmSlot
  <2>8. CalmSlot(run'[r], session', <<>>)
    <3>1. run'[r].step \in Midway
        BY <2>2, <2>4, <2>5 DEF Midway
    <3> QED
        BY <2>2, <2>6, <2>7, <3>1, CalmMidway
  <2>9. \A q \in Slots : q = r
      BY DEF OneRun
  <2> QED
      BY <2>1, <2>3, <2>7, <2>8, <2>9 DEF Driving
<1>4. ASSUME UNCHANGED vars PROVE Driving'
    BY <1>4 DEF vars, Driving
<1>5. CASE \E r \in Slots : Disconnect(r)
    BY <1>5 DEF Disconnect
<1>6. CASE AbortDrain \/ UserOp
    BY <1>6 DEF AbortDrain, UserOp
<1>7. CASE AbortStep \/ AbortDisconnect
  <2>1. abort.step # "idle" /\ calm
      BY <1>7 DEF AbortStep, AbortMarker, AbortToken, AbortPrompt, AbortRunner, AbortReport, AbortDisconnect
  <2> QED
      BY <2>1 DEF Driving
<1>8. ASSUME NEW r \in Slots, RunStep(r) PROVE calm
    BY <1>8 DEF RunStep, ValidateAuto, ReserveCheck, ReserveInsert, BusyCheck, Enqueue, StartTaskGoal, ClearMarker, CloneSession, SetBusy, InputError, GiveUpReservation, GuardIdle, CommitInput, StartLedgerRun, FetchSession, AddAssistant, RegisterRun, SchedulerReturns, UpdateSession, VerifyBegin, VerifyEnd, FinalCheck, CommitFinal, RunTail, PrepareCheck, PlanContinuation, BlockStagnant, FinishRun, ReleaseRun, SetIdle, Adopt, QueueContinuation, TakeQueued
<1>9. ASSUME NEW r \in Slots, NEW k \in Kinds, Submit(r, k) PROVE calm
    BY <1>9 DEF Submit
<1>10. ASSUME NEW r \in Slots, RunFact(r) PROVE calm
    BY <1>10 DEF RunFact
<1> QED
    BY <1>1, <1>2, <1>3, <1>4, <1>5, <1>6, <1>7, <1>8, <1>9, <1>10 DEF Next, Driving

\* With one prompt at a time, and without aborts, rejected inputs, dropped
\* connections and ledger API calls, the session comes to rest only with a goal
\* that is not active: the continuation that the run's tail plans is queued,
\* taken, found to match the goal and its marker, and not turned away by the
\* reservation of the run it follows.
THEOREM ActiveGoalIsDrivenHolds ==
    ASSUME OneRun, Slots # {}
    PROVE  Spec => []ActiveGoalIsDriven
<1>1. Init => Driving
  <2>1. NoRun.step = "none" /\ ~ NoRun.cancelled /\ NoRun.copy = NoSession /\ NoRun.armed = 0
      BY DEF NoRun
  <2>2. Steady(NoSession.ledger) /\ NoSession.ledger.goal = None
      BY DEF NoSession, EmptyLedger, Steady
  <2> QED
      BY <2>1, <2>2, SessionAssumption DEF Init, Driving, CalmSlot, Driven, Planned
<1>2. WellFormed /\ Owned /\ Driving /\ [Next]_vars => Driving'
    BY NextDrives
<1>3. Driving => ActiveGoalIsDriven
    BY DEF Driving, ActiveGoalIsDriven, AllIdle, CalmSlot, Driven
<1> QED
    BY <1>1, <1>2, <1>3, WellFormedHolds, OwnedHolds, PTL DEF Spec

-----------------------------------------------------------------------------
(* The stall detector *)

\* A ledger only grows: a change has the next revision and loses no checkpoint.
Grows(L, M) ==
    /\ M \in Ledgers
    /\ M = L \/ M.revision = L.revision + 1
    /\ Len(M.verified) >= Len(L.verified)

\* M is L before its revision moves.
Edits(L, M) ==
    M \in Ledgers /\ M.revision = L.revision /\ Len(M.verified) >= Len(L.verified)

LEMMA CommitGrows ==
    ASSUME NEW L \in Ledgers, NEW M, Edits(L, M)
    PROVE  Grows(L, Bump(M)) /\ Bump(M).revision = L.revision + 1
BY BumpKeeps DEF Edits, Grows

LEMMA DispatchGrows ==
    ASSUME NEW L \in Ledgers, NEW ok \in BOOLEAN, NEW M, ok => Edits(L, M)
    PROVE  Grows(L, Dispatch(L, ok, M))
<1>1. Len(L.verified) \in Nat
    BY DEF Ledgers
<1>2. Grows(L, L)
    BY <1>1 DEF Grows
<1> QED
    BY <1>2, CommitGrows DEF Dispatch

\* Every operation edits a ledger.
LEMMA OpsEdit ==
    ASSUME NEW L \in Ledgers
    PROVE  /\ \A s \in Statements : Edits(L, SetNext(L, s))
           /\ Edits(L, SetBlocked(L)) /\ Edits(L, SetActive(L))
           /\ Edits(L, Complete(L, {})) /\ Edits(L, Interrupt(L))
           /\ \A x \in Interactions : Edits(L, SetAwaiting(L, x)) /\ Edits(L, ResolveInteraction(L, x))
           /\ \A v \in Verifiers : /\ Edits(L, AddCheckpoint(L, v, {}, 0))
                                   /\ Len(AddCheckpoint(L, v, {}, 0).verified) = Len(L.verified) + 1
           /\ \A q \in Statements : /\ Edits(L, OpenQuestion(L, q))
                                    /\ OpenQuestion(L, q).verified = L.verified
           /\ \A g \in Goals, s \in Statements : /\ Edits(L, Create(L, g, s))
                                                 /\ Create(L, g, s).verified = L.verified
<1>0. Len(L.verified) \in Nat
    BY DEF Ledgers
<1>00. \A M \in Ledgers : M.revision = L.revision /\ M.verified = L.verified => Edits(L, M)
    BY <1>0 DEF Edits
<1>1. ASSUME NEW s \in Statements PROVE Edits(L, SetNext(L, s))
  <2>1. SetNext(L, s) \in Ledgers /\ SetNext(L, s).revision = L.revision /\ SetNext(L, s).verified = L.verified
      BY NextIsThere DEF SetNext, Ledgers
  <2> QED
      BY <1>00, <2>1
<1>2. Edits(L, SetBlocked(L)) /\ Edits(L, SetActive(L)) /\ Edits(L, Complete(L, {}))
  <2>2. SetBlocked(L) \in Ledgers /\ SetBlocked(L).revision = L.revision /\ SetBlocked(L).verified = L.verified
      BY DEF SetBlocked, SetActive, SetStatus, Complete, Ledgers, Statuses
  <2>3. SetActive(L) \in Ledgers /\ SetActive(L).revision = L.revision /\ SetActive(L).verified = L.verified
      BY DEF SetBlocked, SetActive, SetStatus, Complete, Ledgers, Statuses
  <2>4. Complete(L, {}) \in Ledgers /\ Complete(L, {}).revision = L.revision /\ Complete(L, {}).verified = L.verified
      BY DEF SetBlocked, SetActive, SetStatus, Complete, Ledgers, Statuses
  <2> QED
      BY <1>00, <2>2, <2>3, <2>4
<1>3. Edits(L, Interrupt(L))
  <2>1. MarkPreInterrupt(L.next) \in NextActions \cup {None}
      BY DEF MarkPreInterrupt, NextActions, Ledgers
  <2>2. Interrupt(L) \in Ledgers /\ Interrupt(L).revision = L.revision /\ Interrupt(L).verified = L.verified
      BY <2>1 DEF Interrupt, Ledgers, Statuses
  <2> QED
      BY <1>00, <2>2
<1>4. ASSUME NEW x \in Interactions PROVE Edits(L, SetAwaiting(L, x)) /\ Edits(L, ResolveInteraction(L, x))
  <2>1. L.awaiting \cup {x} \in SUBSET Interactions /\ L.awaiting \ {x} \in SUBSET Interactions
      BY DEF Ledgers
  <2>2. SetAwaiting(L, x) \in Ledgers /\ SetAwaiting(L, x).revision = L.revision /\ SetAwaiting(L, x).verified = L.verified
      BY <2>1 DEF SetAwaiting, SetStatus, ResolveInteraction, Ledgers, Statuses
  <2>3. ResolveInteraction(L, x) \in Ledgers /\ ResolveInteraction(L, x).revision = L.revision /\ ResolveInteraction(L, x).verified = L.verified
      BY <2>1 DEF SetAwaiting, SetStatus, ResolveInteraction, Ledgers, Statuses
  <2> QED
      BY <1>00, <2>2, <2>3
<1>5. ASSUME NEW v \in Verifiers
      PROVE  Edits(L, AddCheckpoint(L, v, {}, 0)) /\ Len(AddCheckpoint(L, v, {}, 0).verified) = Len(L.verified) + 1
    BY <1>0, AddCheckpointCarries DEF Edits, Carries
<1>6. ASSUME NEW q \in Statements
      PROVE  Edits(L, OpenQuestion(L, q)) /\ OpenQuestion(L, q).verified = L.verified
  <2> DEFINE new == [id |-> NextSequentialId(OpenIds(L)), question |-> q, closed_by |-> 0]
  <2>1. new \in Questions
      BY LedgerIdsAreNumbers DEF Questions
  <2>2. Append(L.open, new) \in Seq(Questions)
      BY <2>1 DEF Ledgers
  <2>3. OpenQuestion(L, q) = [L EXCEPT !.open = Append(L.open, new)]
      BY DEF OpenQuestion
  <2> HIDE DEF new
  <2>4. /\ OpenQuestion(L, q) \in Ledgers /\ OpenQuestion(L, q).revision = L.revision
        /\ OpenQuestion(L, q).verified = L.verified
      BY <2>2, <2>3 DEF Ledgers
  <2> QED
      BY <1>00, <2>4
<1>7. ASSUME NEW g \in Goals, NEW s \in Statements
      PROVE  Edits(L, Create(L, g, s)) /\ Create(L, g, s).verified = L.verified
  <2>1. /\ Create(L, g, s) \in Ledgers /\ Create(L, g, s).revision = L.revision
        /\ Create(L, g, s).verified = L.verified
      BY NextIsThere DEF Create, Ledgers, Statuses
  <2> QED
      BY <1>00, <2>1
<1> QED
    BY <1>1, <1>2, <1>3, <1>4, <1>5, <1>6, <1>7

\* So does every fact that a run reports.
LEMMA SeamsGrow ==
    ASSUME NEW L \in Ledgers
    PROVE  /\ Grows(L, RunStarted(L)) /\ Grows(L, RecoveryInterrupted(L))
           /\ Grows(L, FinalResponseCommitted(L))
           /\ \A g \in Nat : Grows(L, EvaluatorGateCompleted(L, g))
           /\ \A x \in Interactions : /\ Grows(L, InteractionAwaiting(L, x))
                                      /\ Grows(L, InteractionResolved(L, x))
<1>1. Grows(L, RunStarted(L))
  <2> DEFINE ok == L.status = "Interrupted" /\ SetActiveOk(L)
  <2>1. ok \in BOOLEAN
      BY DEF ResolveInteractionOk
  <2>2. RunStarted(L) = Dispatch(L, ok, SetActive(L))
      BY DEF RunStarted
  <2>3. Edits(L, SetActive(L))
      BY OpsEdit, SeamsAssumption
  <2> HIDE DEF ok
  <2> QED
      BY <2>1, <2>2, <2>3, DispatchGrows
<1>2. Grows(L, RecoveryInterrupted(L))
  <2> DEFINE ok == L.status # "Interrupted" /\ InterruptOk(L)
  <2>1. ok \in BOOLEAN
      BY DEF ResolveInteractionOk
  <2>2. RecoveryInterrupted(L) = Dispatch(L, ok, Interrupt(L))
      BY DEF RecoveryInterrupted
  <2>3. Edits(L, Interrupt(L))
      BY OpsEdit, SeamsAssumption
  <2> HIDE DEF ok
  <2> QED
      BY <2>1, <2>2, <2>3, DispatchGrows
<1>3. Grows(L, FinalResponseCommitted(L))
  <2> DEFINE ok == CompletionReady(L) /\ L.status # "Completed"
  <2>1. ok \in BOOLEAN
      BY DEF ResolveInteractionOk
  <2>2. FinalResponseCommitted(L) = Dispatch(L, ok, Complete(L, {}))
      BY DEF FinalResponseCommitted
  <2>3. Edits(L, Complete(L, {}))
      BY OpsEdit, SeamsAssumption
  <2> HIDE DEF ok
  <2> QED
      BY <2>1, <2>2, <2>3, DispatchGrows
<1>4. ASSUME NEW g \in Nat PROVE Grows(L, EvaluatorGateCompleted(L, g))
  <2> DEFINE ok == g = L.goal_generation /\ AddCheckpointOk(L, {}, 0)
  <2>1. ok \in BOOLEAN
      BY DEF ResolveInteractionOk
  <2>2. EvaluatorGateCompleted(L, g) = Dispatch(L, ok, AddCheckpoint(L, "Evaluator", {}, 0))
      BY DEF EvaluatorGateCompleted
  <2>3. Edits(L, AddCheckpoint(L, "Evaluator", {}, 0))
      BY OpsEdit, SeamsAssumption
  <2> HIDE DEF ok
  <2> QED
      BY <2>1, <2>2, <2>3, DispatchGrows
<1>5. ASSUME NEW x \in Interactions PROVE Grows(L, InteractionAwaiting(L, x))
  <2> DEFINE ok == x \notin L.awaiting /\ SetAwaitingOk(L)
  <2>1. ok \in BOOLEAN
      BY DEF ResolveInteractionOk
  <2>2. InteractionAwaiting(L, x) = Dispatch(L, ok, SetAwaiting(L, x))
      BY DEF InteractionAwaiting
  <2>3. Edits(L, SetAwaiting(L, x))
      BY OpsEdit, SeamsAssumption
  <2> HIDE DEF ok
  <2> QED
      BY <2>1, <2>2, <2>3, DispatchGrows
<1>6. ASSUME NEW x \in Interactions PROVE Grows(L, InteractionResolved(L, x))
  <2> DEFINE ok == ResolveInteractionOk(L, x)
  <2>1. ok \in BOOLEAN
      BY DEF ResolveInteractionOk
  <2>2. InteractionResolved(L, x) = Dispatch(L, ok, ResolveInteraction(L, x))
      BY DEF InteractionResolved
  <2>3. Edits(L, ResolveInteraction(L, x))
      BY OpsEdit, SeamsAssumption
  <2> HIDE DEF ok
  <2> QED
      BY <2>1, <2>2, <2>3, DispatchGrows
<1> QED
    BY <1>1, <1>2, <1>3, <1>4, <1>5, <1>6


Controls == [frames : Seq(Frames), phase : Phases, hits : 0..2,
             attempts : 0..MaxReplans, late : BOOLEAN, set : BOOLEAN]

StallSeams == [step : {"none", "record", "act", "rebaseline", "steer"}, ledger : Ledgers,
               started : BOOLEAN, auto : BOOLEAN, action : {"none", "replan", "block"},
               attempt : 0..MaxReplans]

\* A frame counts what is in the ledger.
LEMMA FrameOf ==
    ASSUME NEW L \in Ledgers
    PROVE  Frame(L) \in Frames /\ Frame(L).verified = Len(L.verified)
<1>1. L.open \in Seq(Questions) /\ Len(L.verified) \in Nat
    BY DEF Ledgers
<1>2. IsFiniteSet(OpenQuestions(L))
  <2>1. OpenQuestions(L) \subseteq 1..Len(L.open)
      BY <1>1 DEF OpenQuestions
  <2>2. IsFiniteSet(1..Len(L.open))
      BY <1>1, FS_Interval
  <2> QED
      BY <2>1, <2>2, FS_Subset
<1>3. Cardinality(OpenQuestions(L)) \in Nat
    BY <1>2, FS_CardinalityType
<1>4. (IF L.next = None THEN None ELSE L.next.statement) \in Statements \cup {None}
    BY DEF Ledgers, NextActions
<1> DEFINE n == Cardinality(OpenQuestions(L))
           st == IF L.next = None THEN None ELSE L.next.statement
<1>5. Frame(L) = [next |-> st, verified |-> Len(L.verified), open |-> n]
    BY DEF Frame
<1>6. n \in Nat /\ st \in Statements \cup {None}
    BY <1>3, <1>4
<1> HIDE DEF n, st
<1> QED
    BY <1>1, <1>5, <1>6 DEF Frames

\* What a push does to a window.
LEMMA PushFrameSays ==
    ASSUME NEW f \in Seq(Frames), Len(f) <= Window, NEW L \in Ledgers
    PROVE  LET w == PushFrame(f, L)
           IN  /\ w \in Seq(Frames) /\ Len(w) <= Window
               /\ L.status \in Suppressed => w = f
               /\ L.status \notin Suppressed =>
                    /\ Len(w) >= 1 /\ w[Len(w)] = Frame(L)
                    /\ Len(f) < Window => Len(w) = Len(f) + 1 /\ \A i \in 1..Len(f) : w[i] = f[i]
                    /\ Len(f) = Window => Len(w) = Window /\ \A i \in 1..(Window - 1) : w[i] = f[i + 1]
<1> DEFINE g == Append(f, Frame(L))
<1>1. Window \in Nat \ {0} /\ Len(f) \in Nat
    BY StallAssumption
<1>2. Frame(L) \in Frames
    BY FrameOf
<1>3. /\ g \in Seq(Frames) /\ Len(g) = Len(f) + 1 /\ g[Len(f) + 1] = Frame(L)
      /\ \A i \in 1..Len(f) : g[i] = f[i]
    BY <1>2
<1>4. /\ Tail(g) \in Seq(Frames) /\ Len(Tail(g)) = Len(f)
      /\ \A i \in 1..Len(f) : Tail(g)[i] = g[i + 1]
    BY <1>1, <1>3
<1>5. PushFrame(f, L) = IF L.status \in Suppressed THEN f ELSE IF Len(g) > Window THEN Tail(g) ELSE g
    BY DEF PushFrame
<1> HIDE DEF g
<1>6. CASE L.status \in Suppressed
    BY <1>5, <1>6
<1>7. CASE L.status \notin Suppressed /\ Len(f) < Window
    BY <1>1, <1>3, <1>5, <1>7
<1>8. CASE L.status \notin Suppressed /\ Len(f) = Window
  <2>1. PushFrame(f, L) = Tail(g)
      BY <1>1, <1>3, <1>5, <1>8
  <2>2. Tail(g)[Len(f)] = Frame(L) /\ \A i \in 1..(Window - 1) : Tail(g)[i] = f[i + 1]
      BY <1>1, <1>3, <1>4, <1>8
  <2> QED
      BY <1>1, <1>4, <1>8, <2>1, <2>2
<1> QED
    BY <1>1, <1>6, <1>7, <1>8

\* What the detector decides, and on what.
Decided(c, L, started, auto, d) ==
    /\ d.control \in Controls /\ Len(d.control.frames) <= Window
    /\ d.action \in {"none", "replan", "block"}
    /\ started => /\ d.action = "none" /\ d.control.attempts = 0 /\ d.control.hits = 0
                  /\ d.control.frames = PushFrame(<<>>, L)
    /\ ~ started => d.control.attempts = IF d.action = "replan" THEN c.attempts + 1 ELSE c.attempts
    /\ ~ started /\ ~ auto => d.action = "none" /\ d.control.hits = 0 /\ d.control.frames = <<>>
    /\ ~ started /\ auto =>
          /\ d.control.frames = PushFrame(c.frames, L)
          /\ d.control.hits >= 1 => c.hits >= 1 \/ Len(PushFrame(c.frames, L)) = Window
    /\ d.action # "none" => /\ c.hits >= 1 /\ StallEvidence(PushFrame(c.frames, L))
                            /\ L.status \notin Suppressed

LEMMA EvaluateSays ==
    ASSUME NEW c \in Controls, Len(c.frames) <= Window, NEW L \in Ledgers,
           NEW started \in BOOLEAN, NEW auto \in BOOLEAN, NEW tok \in BOOLEAN
    PROVE  Decided(c, L, started, auto, Evaluate(c, L, started, auto, tok))
<1> DEFINE w == PushFrame(c.frames, L)
           pushed == [c EXCEPT !.frames = w]
           h == IF c.hits < 2 THEN c.hits + 1 ELSE c.hits
           hit == [pushed EXCEPT !.hits = h]
           d == Evaluate(c, L, started, auto, tok)
<1> SUFFICES Decided(c, L, started, auto, d)
    OBVIOUS
<1>w. w = PushFrame(c.frames, L)
    OBVIOUS
<1>0. c.frames \in Seq(Frames) /\ c.hits \in 0..2 /\ c.attempts \in 0..MaxReplans /\ MaxReplans \in Nat
    BY StallAssumption DEF Controls
<1>1. w \in Seq(Frames) /\ Len(w) <= Window
    BY <1>0, PushFrameSays
<1>2. PushFrame(<<>>, L) \in Seq(Frames) /\ Len(PushFrame(<<>>, L)) <= Window
  <2>1. <<>> \in Seq(Frames) /\ Len(<<>>) <= Window
      BY StallAssumption
  <2> QED
      BY <2>1, PushFrameSays
<1> HIDE DEF w
<1>3. pushed \in Controls /\ pushed.frames = w /\ pushed.hits = c.hits /\ pushed.attempts = c.attempts
    BY <1>1 DEF Controls
<1>h. h \in 0..2 /\ (h = 1 \/ c.hits >= 1)
    BY <1>0
<1>5. d = IF started THEN Quietly(Restarted(L))
          ELSE IF ~ auto THEN Quietly([c EXCEPT !.frames = <<>>, !.phase = "Healthy", !.hits = 0])
          ELSE IF L.status \in Suppressed THEN Quietly(pushed)
          ELSE IF L.status = "Blocked" THEN Quietly([pushed EXCEPT !.phase = "Blocked"])
          ELSE IF ~ StallEvidence(w)
               THEN Quietly([pushed EXCEPT !.phase = "Healthy", !.hits = 0])
          ELSE IF hit.hits = 1 THEN Quietly([hit EXCEPT !.phase = "Suspected"])
          ELSE Decide(hit, tok)
    BY <1>0, <1>3 DEF Evaluate, HitCap, Controls, w
<1> HIDE DEF h
<1>4. hit \in Controls /\ hit.frames = w /\ hit.attempts = c.attempts /\ hit.hits = h
    BY <1>h, <1>3 DEF Controls
<1> HIDE DEF pushed, hit, d
<1>z. 0 \in 0..2 /\ ~ (0 >= 1)
    OBVIOUS
<1>6. CASE started
  <2>1. d = [control |-> Restarted(L), action |-> "none"]
      BY <1>5, <1>6 DEF Quietly
  <2>2. Restarted(L) \in Controls
      BY <1>0, <1>2 DEF Restarted, Controls, Phases
  <2>3. /\ Restarted(L).attempts = 0 /\ Restarted(L).hits = 0
        /\ Restarted(L).frames = PushFrame(<<>>, L)
      BY DEF Restarted
  <2> QED
      BY <1>2, <1>6, <2>1, <2>2, <2>3 DEF Decided
<1>7. CASE ~ started /\ ~ auto
  <2> DEFINE e == [c EXCEPT !.frames = <<>>, !.phase = "Healthy", !.hits = 0]
  <2>1. d = [control |-> e, action |-> "none"]
      BY <1>5, <1>7 DEF Quietly
  <2>2. e \in Controls /\ e.frames = <<>> /\ e.hits = 0 /\ e.attempts = c.attempts
    <3>1. <<>> \in Seq(Frames) /\ "Healthy" \in Phases
        BY DEF Phases
    <3> QED
        BY <1>z, <3>1 DEF Controls
  <2>3. Len(<<>>) <= Window
      BY StallAssumption
  <2> HIDE DEF e
  <2> QED
      BY <1>7, <2>1, <2>2, <2>3 DEF Decided
<1>8. CASE ~ started /\ auto /\ (L.status \in Suppressed \/ L.status = "Blocked"
                                  \/ ~ StallEvidence(w) \/ hit.hits = 1)
  <2>1. \E e \in Controls : /\ d = [control |-> e, action |-> "none"]
                            /\ e.frames = w /\ e.attempts = c.attempts
                            /\ e.hits >= 1 => c.hits >= 1 \/ Len(w) = Window
    <3>1. CASE L.status \in Suppressed
        BY <1>3, <1>5, <1>8, <3>1 DEF Quietly
    <3>2. CASE L.status \notin Suppressed /\ L.status = "Blocked"
      <4>1. d = [control |-> [pushed EXCEPT !.phase = "Blocked"], action |-> "none"]
          BY <1>5, <1>8, <3>2 DEF Quietly
      <4>2. LET e == [pushed EXCEPT !.phase = "Blocked"]
            IN  e \in Controls /\ e.frames = w /\ e.hits = c.hits /\ e.attempts = c.attempts
          BY <1>3 DEF Controls, Phases
      <4> QED
          BY <4>1, <4>2
    <3>3. CASE L.status \notin Suppressed /\ L.status # "Blocked" /\ ~ StallEvidence(w)
      <4>1. d = [control |-> [pushed EXCEPT !.phase = "Healthy", !.hits = 0], action |-> "none"]
          BY <1>5, <1>8, <3>3 DEF Quietly
      <4>2. LET e == [pushed EXCEPT !.phase = "Healthy", !.hits = 0]
            IN  e \in Controls /\ e.frames = w /\ e.hits = 0 /\ e.attempts = c.attempts
          BY <1>3, <1>z DEF Controls, Phases
      <4> QED
          BY <1>z, <4>1, <4>2
    <3>4. CASE L.status \notin Suppressed /\ L.status # "Blocked" /\ StallEvidence(w) /\ hit.hits = 1
      <4>1. d = [control |-> [hit EXCEPT !.phase = "Suspected"], action |-> "none"]
          BY <1>5, <1>8, <3>4 DEF Quietly
      <4>2. LET e == [hit EXCEPT !.phase = "Suspected"]
            IN  e \in Controls /\ e.frames = w /\ e.attempts = c.attempts
          BY <1>4 DEF Controls, Phases
      <4>3. Len(w) = Window
          BY <3>4 DEF StallEvidence
      <4> QED
          BY <4>1, <4>2, <4>3
    <3> QED
        BY <1>8, <3>1, <3>2, <3>3, <3>4
  <2> QED
      BY <1>1, <1>w, <1>8, <2>1 DEF Decided
<1>9. CASE ~ started /\ auto /\ L.status \notin Suppressed /\ L.status # "Blocked"
           /\ StallEvidence(w) /\ hit.hits # 1
  <2>1. d = Decide(hit, tok)
      BY <1>5, <1>9
  <2>2. c.hits >= 1 /\ Len(w) = Window
      BY <1>h, <1>4, <1>9 DEF StallEvidence
  <2>3. \E e \in Controls : \E act \in {"none", "replan", "block"} :
           /\ d = [control |-> e, action |-> act]
           /\ e.frames = w /\ e.attempts = IF act = "replan" THEN c.attempts + 1 ELSE c.attempts
    <3>1. CASE tok
      <4>1. d = [control |-> [hit EXCEPT !.phase = "Stalled"], action |-> "none"]
          BY <2>1, <3>1 DEF Decide, Quietly
      <4>2. LET e == [hit EXCEPT !.phase = "Stalled"]
            IN  e \in Controls /\ e.frames = w /\ e.attempts = c.attempts
          BY <1>4 DEF Controls, Phases
      <4> QED
          BY <4>1, <4>2
    <3>2. CASE ~ tok /\ (hit.late \/ hit.attempts >= MaxReplans)
      <4>1. d = [control |-> [hit EXCEPT !.phase = "Blocked"], action |-> "block"]
          BY <2>1, <3>2 DEF Decide, Blocking
      <4>2. LET e == [hit EXCEPT !.phase = "Blocked"]
            IN  e \in Controls /\ e.frames = w /\ e.attempts = c.attempts
          BY <1>4 DEF Controls, Phases
      <4> QED
          BY <4>1, <4>2
    <3>3. CASE ~ tok /\ ~ (hit.late \/ hit.attempts >= MaxReplans)
      <4>1. d = [control |-> [hit EXCEPT !.phase = "Replanning", !.attempts = hit.attempts + 1], action |-> "replan"]
          BY <1>4, <2>1, <3>3 DEF Decide, Replanning, Controls
      <4>2. c.attempts + 1 \in 0..MaxReplans
          BY <1>0, <1>4, <3>3
      <4>3. LET e == [hit EXCEPT !.phase = "Replanning", !.attempts = hit.attempts + 1]
            IN  e \in Controls /\ e.frames = w /\ e.attempts = c.attempts + 1
          BY <1>4, <4>2 DEF Controls, Phases
      <4> QED
          BY <4>1, <4>3
    <3> QED
        BY <3>1, <3>2, <3>3
  <2> QED
      BY <1>1, <1>w, <1>9, <2>2, <2>3 DEF Decided
<1> QED
    BY <1>6, <1>7, <1>8, <1>9


\* A window f of a ledger with n checkpoints, q batches after the last of them:
\* no frame has seen a checkpoint that is not there, and the frames since one
\* that has seen them all are q's.  The first frame may be of a run's start or
\* of a replan, which is no batch.
Backed(f, n, q) ==
    \A i \in 1..Len(f) :
        /\ f[i].verified <= n
        /\ f[i].verified = n => q >= Len(f) - i + (IF i = 1 THEN 0 ELSE 1)

\* The batch after q, up to the window.
Batch(q) == IF q < Window THEN q + 1 ELSE q

\* A frame that starts a window is backed by nothing.
LEMMA FirstFrameBacked ==
    ASSUME NEW L \in Ledgers, NEW n \in Nat, Len(L.verified) <= n, NEW q \in Nat
    PROVE  Backed(PushFrame(<<>>, L), n, q)
<1> DEFINE w == PushFrame(<<>>, L)
           e == <<>>
<1>1. e \in Seq(Frames) /\ Len(e) = 0 /\ Len(e) <= Window /\ Window \in Nat \ {0}
    BY StallAssumption
<1>0. /\ w = PushFrame(e, L) /\ e = <<>>
    OBVIOUS
<1> HIDE DEF w, e
<1>2. L.status \in Suppressed => w = e
    BY <1>0, <1>1, PushFrameSays
<1>3. L.status \notin Suppressed => Len(w) = 1 /\ w[1] = Frame(L)
  <2>1. L.status \notin Suppressed => Len(w) >= 1 /\ w[Len(w)] = Frame(L) /\ (Len(e) < Window => Len(w) = Len(e) + 1)
      BY <1>0, <1>1, PushFrameSays
  <2> QED
      BY <1>1, <2>1
<1>4. Frame(L).verified = Len(L.verified) /\ Len(L.verified) \in Nat
    BY FrameOf DEF Ledgers
<1>5. CASE L.status \in Suppressed
    BY <1>0, <1>1, <1>2, <1>5 DEF Backed
<1>6. CASE L.status \notin Suppressed
  <2>1. Len(w) = 1 /\ w[1].verified <= n
      BY <1>3, <1>4, <1>6
  <2>2. ASSUME NEW i \in 1..Len(w) PROVE i = 1
      BY <2>1
  <2>3. q >= 1 - 1 + 0
      OBVIOUS
  <2> QED
      BY <1>0, <2>1, <2>2, <2>3 DEF Backed
<1> QED
    BY <1>5, <1>6

\* A batch keeps the window backed.
LEMMA BatchBacked ==
    ASSUME NEW f \in Seq(Frames), Len(f) <= Window, NEW L \in Ledgers,
           NEW n \in Nat, Len(L.verified) <= n, NEW q \in 0..Window, Backed(f, n, q)
    PROVE  /\ Backed(PushFrame(f, L), n, Batch(q))
           /\ Len(f) = Window /\ L.status \notin Suppressed /\ Len(L.verified) = n
                 /\ StallEvidence(PushFrame(f, L)) => Batch(q) = Window
<1> DEFINE w == PushFrame(f, L)
<1>0. Window \in Nat \ {0} /\ Len(f) \in Nat /\ q \in Nat /\ Len(L.verified) \in Nat
    BY StallAssumption DEF Ledgers
<1>1. \A i \in 1..Len(f) : f[i].verified \in Nat
  <2>1. \A i \in 1..Len(f) : f[i] \in Frames
      BY ElementOfSeq
  <2> QED
      BY <2>1 DEF Frames
<1>2. Frame(L).verified = Len(L.verified)
    BY FrameOf
<1>3. /\ L.status \in Suppressed => w = f
      /\ L.status \notin Suppressed =>
            /\ Len(w) >= 1 /\ w[Len(w)] = Frame(L)
            /\ Len(f) < Window => Len(w) = Len(f) + 1 /\ \A i \in 1..Len(f) : w[i] = f[i]
            /\ Len(f) = Window => Len(w) = Window /\ \A i \in 1..(Window - 1) : w[i] = f[i + 1]
    BY PushFrameSays
<1>4. Batch(q) \in Nat /\ Batch(q) >= q /\ ((q < Window /\ Batch(q) = q + 1) \/ (q = Window /\ Batch(q) = Window))
    BY <1>0 DEF Batch
<1>5. StallEvidence(w) => w[1].verified = w[Len(w)].verified
    BY DEF StallEvidence, NoNewVerification
<1>6. \A i \in 1..Len(f) : f[i].verified <= n /\ (f[i].verified = n => q >= Len(f) - i + (IF i = 1 THEN 0 ELSE 1))
    BY DEF Backed
<1> HIDE DEF w, Batch
<1>7. CASE L.status \in Suppressed
  <2>1. Backed(f, n, Batch(q))
      BY <1>0, <1>4, <1>6 DEF Backed
  <2> QED
      BY <1>3, <1>7, <2>1 DEF w
<1>8. CASE L.status \notin Suppressed /\ Len(f) < Window
  <2>1. Len(w) = Len(f) + 1 /\ (\A i \in 1..Len(f) : w[i] = f[i]) /\ w[Len(f) + 1].verified = Len(L.verified)
      BY <1>2, <1>3, <1>8
  <2>2. ASSUME NEW i \in 1..Len(w)
        PROVE  w[i].verified <= n /\ (w[i].verified = n => Batch(q) >= Len(w) - i + (IF i = 1 THEN 0 ELSE 1))
    <3>1. CASE i = Len(f) + 1
        BY <1>0, <1>4, <1>8, <2>1, <3>1
    <3>2. CASE i \in 1..Len(f)
        BY <1>0, <1>4, <1>6, <1>8, <2>1, <3>2
    <3> QED
        BY <1>0, <2>1, <3>1, <3>2
  <2>3. Backed(w, n, Batch(q))
      BY <2>2 DEF Backed
  <2> QED
      BY <1>0, <1>8, <2>3 DEF w
<1>9. CASE L.status \notin Suppressed /\ Len(f) = Window
  <2>1. /\ Len(w) = Window /\ (\A i \in 1..(Window - 1) : w[i] = f[i + 1])
        /\ w[Window].verified = Len(L.verified)
      BY <1>2, <1>3, <1>9
  <2>2. ASSUME NEW i \in 1..Len(w)
        PROVE  w[i].verified <= n /\ (w[i].verified = n => Batch(q) >= Len(w) - i + (IF i = 1 THEN 0 ELSE 1))
    <3>1. CASE i = Window
        BY <1>0, <1>4, <1>9, <2>1, <3>1
    <3>2. CASE i \in 1..(Window - 1)
      <4>1. i + 1 \in 1..Len(f) /\ i + 1 # 1 /\ w[i] = f[i + 1]
          BY <1>0, <1>9, <2>1, <3>2
      <4>2. f[i + 1].verified <= n /\ (f[i + 1].verified = n => q >= Len(f) - (i + 1) + 1)
          BY <1>6, <4>1
      <4> QED
          BY <1>0, <1>4, <1>9, <2>1, <3>2, <4>1, <4>2
    <3> QED
        BY <1>0, <2>1, <3>1, <3>2
  <2>3. Backed(w, n, Batch(q))
      BY <2>2 DEF Backed
  <2>4. ASSUME Len(L.verified) = n, StallEvidence(w) PROVE Batch(q) = Window
    <3>1. w[1].verified = n
        BY <1>5, <2>1, <2>4
    <3>2. CASE Window = 1
        BY <1>0, <1>4, <3>2
    <3>3. CASE Window # 1
      <4>1. 2 \in 1..Len(f) /\ f[2].verified = n
          BY <1>0, <1>9, <2>1, <3>1, <3>3
      <4>2. q >= Len(f) - 2 + 1
          BY <1>6, <4>1
      <4> QED
          BY <1>0, <1>4, <1>9, <4>2
    <3> QED
        BY <3>2, <3>3
  <2> QED
      BY <2>3, <2>4 DEF w
<1> QED
    BY <1>0, <1>7, <1>8, <1>9


\* The types, with the records of this module.
StallTyped ==
    /\ ledger \in Ledgers
    /\ control \in Controls /\ Len(control.frames) <= Window
    /\ seam \in [Actors -> StallSeams]
    /\ stallRun \in [on : BOOLEAN, auto : BOOLEAN, scope : Nat]
    /\ cancelled \in BOOLEAN
    /\ steered \in Nat
    /\ quiet \in 0..Window
    /\ runs \in 0..MaxRuns
    /\ stallFacts \in 0..MaxStallFacts

\* A counted attempt of this seam may still steer the run.
MaySteer(x) == x.step \in {"rebaseline", "steer"} \/ (x.step = "act" /\ x.action = "replan")

Pending(s) == {a \in Actors : MaySteer(s[a])}

\* Only the batches of agents act, and no run is over while one is recorded;
\* the frame of a run's start is recorded before any of its batches.
Poised(a) ==
    /\ seam[a].step \in {"act", "rebaseline", "steer"} => seam[a].auto
    /\ seam[a].auto => a \in Agents /\ ~ seam[a].started /\ stallRun.on /\ seam[a].step # "none"
    /\ seam[a].started => /\ a = Task /\ seam[a].step = "record" /\ steered = 0
                          /\ \A b \in Actors : ~ seam[b].auto
    /\ seam[a].action = "replan" => seam[a].attempt >= 1

\* Every steering, done or to come, has its attempt.
Budgeted ==
    /\ steered + Cardinality(Pending(seam)) <= control.attempts
    /\ \A a \in Actors : Poised(a)

\* What a seam read is of the past, and its decision rests on a full window of
\* batches for as long as no one has written since.
Rests(a) ==
    seam[a].step # "none" =>
        /\ seam[a].ledger.revision <= ledger.revision
        /\ seam[a].ledger.revision = ledger.revision =>
              seam[a].ledger = ledger /\ (seam[a].step = "act" => quiet = Window)
        /\ Len(seam[a].ledger.verified) <= Len(ledger.verified)

Evidenced ==
    /\ Backed(control.frames, Len(ledger.verified), quiet)
    /\ control.hits >= 1 => Len(control.frames) = Window
    /\ \A a \in Actors : Rests(a)

StallInv == StallTyped /\ Budgeted /\ Evidenced

\* They can be counted.
LEMMA PendingCounts ==
    ASSUME NEW s
    PROVE  IsFiniteSet(Pending(s)) /\ Cardinality(Pending(s)) \in Nat
<1>1. IsFiniteSet(Actors)
  <2>1. IsFiniteSet(Agents)
      BY StallAssumption
  <2>2. IsFiniteSet({Projector, Task})
    <3>1. IsFiniteSet({Projector})
        BY FS_Singleton
    <3>2. {Projector, Task} = {Projector} \cup {Task}
        OBVIOUS
    <3> QED
        BY <3>1, <3>2, FS_AddElement
  <2> QED
      BY <2>1, <2>2, FS_Union DEF Actors
<1>2. Pending(s) \subseteq Actors
    BY DEF Pending
<1>3. IsFiniteSet(Pending(s))
    BY <1>1, <1>2, FS_Subset
<1> QED
    BY <1>3, FS_CardinalityType

\* One seam moves.
LEMMA PendingMoves ==
    ASSUME NEW s \in [Actors -> StallSeams], NEW a \in Actors,
           NEW x \in StallSeams, NEW t, t = [s EXCEPT ![a] = x]
    PROVE  /\ t \in [Actors -> StallSeams] /\ t[a] = x
           /\ \A b \in Actors : b # a => t[b] = s[b]
           /\ Cardinality(Pending(s)) \in Nat /\ Cardinality(Pending(t)) \in Nat
           /\ Cardinality(Pending(t)) <= Cardinality(Pending(s)) + 1
           /\ ~ MaySteer(x) => Cardinality(Pending(t)) <= Cardinality(Pending(s))
           /\ MaySteer(s[a]) => Cardinality(Pending(t)) <= Cardinality(Pending(s))
           /\ MaySteer(s[a]) /\ ~ MaySteer(x) => Cardinality(Pending(t)) < Cardinality(Pending(s))
<1>1. /\ t \in [Actors -> StallSeams] /\ t[a] = x
      /\ \A b \in Actors : b # a => t[b] = s[b]
    OBVIOUS
<1>3. IsFiniteSet(Pending(s)) /\ IsFiniteSet(Pending(t))
    BY PendingCounts
<1>4. Cardinality(Pending(s)) \in Nat /\ Cardinality(Pending(t)) \in Nat
    BY PendingCounts
<1>5. /\ MaySteer(x) => Pending(t) = Pending(s) \cup {a}
      /\ ~ MaySteer(x) => Pending(t) = Pending(s) \ {a}
      /\ a \in Pending(s) <=> MaySteer(s[a])
    BY <1>1 DEF Pending
<1>6. /\ Cardinality(Pending(s) \cup {a}) = IF a \in Pending(s) THEN Cardinality(Pending(s))
                                            ELSE Cardinality(Pending(s)) + 1
      /\ Cardinality(Pending(s) \ {a}) = IF a \in Pending(s) THEN Cardinality(Pending(s)) - 1
                                         ELSE Cardinality(Pending(s))
    BY <1>3, FS_AddElement, FS_RemoveElement
<1> DEFINE m == Cardinality(Pending(s))  n == Cardinality(Pending(t))
<1>7. /\ m \in Nat /\ n \in Nat
      /\ MaySteer(x) => n = IF MaySteer(s[a]) THEN m ELSE m + 1
      /\ ~ MaySteer(x) => n = IF MaySteer(s[a]) THEN m - 1 ELSE m
    BY <1>4, <1>5, <1>6
<1> HIDE DEF m, n
<1>8. /\ m \in Nat /\ n \in Nat /\ n <= m + 1
      /\ ~ MaySteer(x) => n <= m
      /\ MaySteer(s[a]) => n <= m
      /\ MaySteer(s[a]) /\ ~ MaySteer(x) => n < m
    BY <1>7
<1> QED
    BY <1>1, <1>8 DEF m, n

\* While no seam acts, none steers.
LEMMA NonePending ==
    ASSUME \A b \in Actors : Poised(b) /\ ~ seam[b].auto
    PROVE  Cardinality(Pending(seam)) = 0
<1>1. Pending(seam) = {}
    BY DEF Pending, Poised, MaySteer
<1> QED
    BY <1>1, FS_EmptySet

\* Seam a may become x.
Fits(a, x) ==
    /\ steered' = steered \/ steered' = 0 \/ \A b \in Actors : ~ seam[b].started
    /\ stallRun'.on = stallRun.on \/ \A b \in Actors : ~ seam[b].auto
    /\ x.step \in {"act", "rebaseline", "steer"} => x.auto
    /\ x.auto => /\ a \in Agents /\ ~ x.started /\ stallRun'.on /\ x.step # "none"
                 /\ \A b \in Actors : b # a => ~ seam[b].started
    /\ x.started => /\ a = Task /\ x.step = "record" /\ steered' = 0
                    /\ \A b \in Actors : b # a => ~ seam[b].auto
    /\ x.action = "replan" => x.attempt >= 1

\* The others stay poised.
LEMMA PoisedMoves ==
    ASSUME StallTyped, \A b \in Actors : Poised(b), NEW a \in Actors, NEW x \in StallSeams,
           seam' = [seam EXCEPT ![a] = x], Fits(a, x)
    PROVE  \A b \in Actors : Poised(b)'
<1>1. seam'[a] = x /\ \A b \in Actors : b # a => seam'[b] = seam[b]
    BY DEF StallTyped
<1>2. x \in StallSeams /\ x.auto \in BOOLEAN /\ x.started \in BOOLEAN
    BY DEF StallSeams
<1> SUFFICES ASSUME NEW b \in Actors PROVE Poised(b)'
    OBVIOUS
<1>3. CASE b = a
    BY <1>1, <1>2, <1>3 DEF Poised, Fits
<1>4. CASE b # a
  <2>1. seam'[b] = seam[b] /\ Poised(b)
      BY <1>1, <1>4
  <2>2. seam[b].auto => stallRun'.on
      BY <2>1 DEF Poised, Fits
  <2>3. seam[b].started => steered' = 0 /\ \A c \in Actors : ~ seam'[c].auto
      BY <1>1, <1>4, <2>1 DEF Poised, Fits
  <2> QED
      BY <2>1, <2>2, <2>3 DEF Poised
<1> QED
    BY <1>3, <1>4

\* The evidence stands while the ledger grows.
LEMMA EvidenceGrows ==
    ASSUME StallTyped, Evidenced, Grows(ledger, ledger'),
           control'.frames = control.frames, control'.hits = control.hits,
           quiet' = IF Len(ledger'.verified) > Len(ledger.verified) THEN 0 ELSE quiet,
           \A b \in Actors :
               \/ seam'[b] = seam[b]
               \/ seam'[b].step # "act" /\ (seam'[b].step # "none" => seam'[b].ledger = ledger')
    PROVE  Evidenced'
<1>0. /\ ledger.revision \in Nat /\ Len(ledger.verified) \in Nat /\ Len(ledger'.verified) \in Nat
      /\ Len(ledger'.verified) >= Len(ledger.verified)
      /\ ledger'.revision \in Nat /\ ledger'.revision >= ledger.revision
      /\ ledger'.revision = ledger.revision => ledger' = ledger
    BY DEF StallTyped, Grows, Ledgers
<1>1. Backed(control'.frames, Len(ledger'.verified), quiet')
  <2> DEFINE f == control.frames  n == Len(ledger.verified)  m == Len(ledger'.verified)
  <2>1. \A i \in 1..Len(f) : f[i].verified \in Nat
    <3>1. f \in Seq(Frames)
        BY DEF StallTyped, Controls
    <3>2. \A i \in 1..Len(f) : f[i] \in Frames
        BY <3>1, ElementOfSeq
    <3> QED
        BY <3>2 DEF Frames
  <2>2. Backed(f, n, quiet)
      BY DEF Evidenced
  <2>3. m = n => Backed(f, m, quiet')
      BY <1>0, <2>2
  <2>a. m \in Nat /\ n \in Nat /\ \A i \in 1..Len(f) : f[i].verified <= n
      BY <1>0, <2>2 DEF Backed
  <2>4. ASSUME m > n, NEW i \in 1..Len(f) PROVE f[i].verified <= m /\ f[i].verified # m
    <3> HIDE DEF f, m, n
    <3>1. f[i].verified \in Nat /\ f[i].verified <= n
        BY <2>1, <2>a
    <3> QED
        BY <2>4, <2>a, <3>1
  <2>5. m > n => Backed(f, m, quiet')
      BY <2>4 DEF Backed
  <2> QED
      BY <1>0, <2>3, <2>5
<1>2. ASSUME NEW b \in Actors PROVE Rests(b)'
  <2>1. CASE seam'[b] = seam[b]
    <3>1. Rests(b) /\ (seam[b].step # "none" => seam[b].ledger.revision \in Nat /\ Len(seam[b].ledger.verified) \in Nat)
        BY DEF Evidenced, StallTyped, StallSeams, Ledgers
    <3> QED
        BY <1>0, <2>1, <3>1 DEF Rests
  <2>2. CASE seam'[b].step # "act" /\ (seam'[b].step # "none" => seam'[b].ledger = ledger')
      BY <1>0, <2>2 DEF Rests
  <2> QED
      BY <2>1, <2>2
<1>3. control'.hits >= 1 => Len(control'.frames) = Window
    BY DEF Evidenced
<1> QED
    BY <1>1, <1>2, <1>3 DEF Evidenced


\* The records a seam starts and ends with.
LEMMA SeamRecords ==
    /\ NoSeam \in StallSeams /\ NoSeam.step = "none" /\ ~ NoSeam.auto
    /\ ~ NoSeam.started /\ NoSeam.action = "none"
<1>1. EmptyLedger \in Ledgers
    BY DEF EmptyLedger, Ledgers, Statuses
<1>2. NoSeam = [step |-> "none", ledger |-> EmptyLedger, started |-> FALSE, auto |-> FALSE,
                      action |-> "none", attempt |-> 0]
    BY DEF NoSeam
<1>3. 0 \in 0..MaxReplans
    BY StallAssumption
<1> HIDE DEF NoSeam
<1>4. NoSeam \in StallSeams
    BY <1>1, <1>2, <1>3 DEF StallSeams
<1> QED
    BY <1>2, <1>4 DEF StallSeams

\* A step that leaves the detector's record alone and moves one seam.
LEMMA SeamKeeps ==
    ASSUME StallInv, NEW a \in Actors, NEW x \in StallSeams,
           seam' = [seam EXCEPT ![a] = x], Fits(a, x), control' = control, Grows(ledger, ledger'),
           quiet' = IF Len(ledger'.verified) > Len(ledger.verified) THEN 0 ELSE quiet,
           stallRun' \in [on : BOOLEAN, auto : BOOLEAN, scope : Nat], cancelled' \in BOOLEAN,
           steered' \in Nat, runs' \in 0..MaxRuns, stallFacts' \in 0..MaxStallFacts,
           steered' + Cardinality(Pending(seam')) <= control.attempts,
           x.step # "act", x.step # "none" => x.ledger = ledger'
    PROVE  StallInv'
<1>1. StallTyped'
  <2>1. seam' \in [Actors -> StallSeams]
      BY DEF StallInv, StallTyped
  <2>2. ledger' \in Ledgers /\ quiet' \in 0..Window
      BY StallAssumption DEF StallInv, StallTyped, Grows
  <2> QED
      BY <2>1, <2>2 DEF StallInv, StallTyped
<1>2. Budgeted'
  <2>1. \A b \in Actors : Poised(b)'
      BY PoisedMoves DEF StallInv, Budgeted
  <2> QED
      BY <2>1 DEF Budgeted
<1>3. Evidenced'
  <2>1. \A b \in Actors : \/ seam'[b] = seam[b]
                          \/ seam'[b].step # "act" /\ (seam'[b].step # "none" => seam'[b].ledger = ledger')
      BY DEF StallInv, StallTyped
  <2> QED
      BY <2>1, EvidenceGrows DEF StallInv
<1> QED
    BY <1>1, <1>2, <1>3 DEF StallInv

\* A fact of the run is dispatched.
LEMMA DispatchedKeeps ==
    ASSUME StallInv, NEW a \in Actors, NEW L, Grows(ledger, L),
           NEW st \in BOOLEAN, Dispatched(a, L, st), control' = control,
           stallRun' \in [on : BOOLEAN, auto : BOOLEAN, scope : Nat], cancelled' \in BOOLEAN,
           steered' = steered \/ steered' = 0, runs' \in 0..MaxRuns, stallFacts' \in 0..MaxStallFacts,
           stallRun'.on = stallRun.on \/ \A b \in Actors : ~ seam[b].auto,
           st => a = Task /\ steered' = 0 /\ \A b \in Actors : ~ seam[b].auto
    PROVE  StallInv'
<1> DEFINE y == [NoSeam EXCEPT !.step = "record", !.ledger = L, !.started = st]
           x == IF L # ledger \/ st THEN y ELSE NoSeam
<1>1. /\ seam' = [seam EXCEPT ![a] = x] /\ ledger' = L /\ seam[a].step = "none"
      /\ quiet' = IF Len(ledger'.verified) > Len(ledger.verified) THEN 0 ELSE quiet
    BY DEF Dispatched
<1>2. L \in Ledgers
    BY DEF Grows
<1>3. /\ x \in StallSeams /\ x.step \in {"none", "record"} /\ ~ x.auto /\ x.action = "none"
      /\ x.started => st /\ x.step = "record"
      /\ x.step # "none" => x.ledger = L
  <2>2. /\ NoSeam \in StallSeams /\ NoSeam.step = "none" /\ ~ NoSeam.auto
        /\ ~ NoSeam.started /\ NoSeam.action = "none"
      BY SeamRecords
  <2>1. /\ y \in StallSeams /\ y.step = "record" /\ y.ledger = L /\ y.started = st
        /\ ~ y.auto /\ y.action = "none"
      BY <1>2, <2>2 DEF StallSeams
  <2> HIDE DEF y
  <2> QED
      BY <2>1, <2>2
<1> HIDE DEF x
<1>4. Fits(a, x)
    BY <1>3 DEF Fits
<1>5. ~ MaySteer(x)
    BY <1>3 DEF MaySteer
<1>6. seam \in [Actors -> StallSeams] /\ steered \in Nat /\ control.attempts \in Nat
    BY StallAssumption DEF StallInv, StallTyped, Controls
<1>7. steered + Cardinality(Pending(seam)) <= control.attempts
    BY DEF StallInv, Budgeted
<1>8. steered' + Cardinality(Pending(seam')) <= control.attempts /\ steered' \in Nat
  <2>1. /\ Cardinality(Pending(seam)) \in Nat /\ Cardinality(Pending(seam')) \in Nat
        /\ Cardinality(Pending(seam')) <= Cardinality(Pending(seam))
      BY <1>1, <1>3, <1>5, <1>6, PendingMoves
  <2> DEFINE m == Cardinality(Pending(seam))  n == Cardinality(Pending(seam'))
  <2>2. m \in Nat /\ n \in Nat /\ n <= m /\ steered + m <= control.attempts
      BY <1>7, <2>1
  <2> HIDE DEF m, n
  <2>3. steered' + n <= control.attempts /\ steered' \in Nat
      BY <1>6, <2>2
  <2> QED
      BY <2>3 DEF n
<1> QED
    BY <1>1, <1>3, <1>4, <1>8, SeamKeeps

LEMMA RunBeginKeeps ==
    ASSUME StallInv, RunBegin PROVE StallInv'
<1>1. /\ ledger \in Ledgers /\ Task \in Actors /\ ledger.goal_generation \in Nat
      /\ MaxRuns \in Nat /\ runs \in 0..MaxRuns
    BY StallAssumption DEF StallInv, StallTyped, Actors, Ledgers
<1>2. Grows(ledger, RunStarted(ledger))
    BY <1>1, SeamsGrow
<1>3. \A b \in Actors : ~ seam[b].auto
    BY DEF RunBegin, StallInv, Budgeted, Poised
<1>4. runs' \in 0..MaxRuns /\ stallFacts' \in 0..MaxStallFacts /\ cancelled' \in BOOLEAN
  <2>1. runs < MaxRuns /\ runs' = runs + 1 /\ stallFacts' = stallFacts /\ cancelled' = FALSE
      BY DEF RunBegin
  <2>2. stallFacts \in 0..MaxStallFacts
      BY DEF StallInv, StallTyped
  <2>3. runs' \in 0..MaxRuns
      BY <1>1, <2>1
  <2> QED
      BY <2>1, <2>2, <2>3
<1>5. stallRun' \in [on : BOOLEAN, auto : BOOLEAN, scope : Nat]
    BY <1>1 DEF RunBegin
<1>6. Dispatched(Task, RunStarted(ledger), TRUE) /\ control' = control /\ steered' = 0
    BY DEF RunBegin
<1> QED
    BY <1>1, <1>2, <1>3, <1>4, <1>5, <1>6, DispatchedKeeps

LEMMA RunEndKeeps ==
    ASSUME StallInv, RunEnd PROVE StallInv'
<1>1. ledger \in Ledgers /\ Task \in Actors
    BY DEF StallInv, StallTyped, Actors
<1> DEFINE L == IF cancelled THEN RecoveryInterrupted(ledger) ELSE FinalResponseCommitted(ledger)
<1>2. Grows(ledger, L)
    BY <1>1, SeamsGrow
<1>3. \A b \in Actors : ~ seam[b].auto
    BY DEF RunEnd, StallInv, Budgeted, Poised
<1>4. runs' \in 0..MaxRuns /\ stallFacts' \in 0..MaxStallFacts /\ cancelled' \in BOOLEAN
    BY DEF RunEnd, StallInv, StallTyped
<1>5. stallRun' \in [on : BOOLEAN, auto : BOOLEAN, scope : Nat]
    BY DEF RunEnd, StallInv, StallTyped
<1>6. Dispatched(Task, L, FALSE) /\ control' = control /\ steered' = steered
    BY DEF RunEnd
<1> HIDE DEF L
<1> QED
    BY <1>1, <1>2, <1>3, <1>4, <1>5, <1>6, DispatchedKeeps

LEMMA EvaluatorPassKeeps ==
    ASSUME StallInv, EvaluatorPass PROVE StallInv'
<1>1. ledger \in Ledgers /\ Projector \in Actors /\ stallRun.scope \in Nat /\ MaxStallFacts \in Nat
    BY StallAssumption DEF StallInv, StallTyped, Actors
<1>2. Grows(ledger, EvaluatorGateCompleted(ledger, stallRun.scope))
    BY <1>1, SeamsGrow
<1>4. runs' \in 0..MaxRuns /\ stallFacts' \in 0..MaxStallFacts /\ cancelled' \in BOOLEAN
    BY <1>1 DEF EvaluatorPass, CountFact, StallInv, StallTyped
<1>5. stallRun' \in [on : BOOLEAN, auto : BOOLEAN, scope : Nat] /\ stallRun' = stallRun
    BY DEF EvaluatorPass, StallInv, StallTyped
<1>6. /\ Dispatched(Projector, EvaluatorGateCompleted(ledger, stallRun.scope), FALSE)
      /\ control' = control /\ steered' = steered
    BY DEF EvaluatorPass
<1> QED
    BY <1>1, <1>2, <1>4, <1>5, <1>6, DispatchedKeeps

LEMMA InteractKeeps ==
    ASSUME StallInv, NEW a \in Agents, Interact(a) PROVE StallInv'
<1>1. ledger \in Ledgers /\ a \in Actors /\ MaxStallFacts \in Nat
    BY StallAssumption DEF StallInv, StallTyped, Actors
<1>2. PICK x \in Interactions : \/ Dispatched(a, InteractionAwaiting(ledger, x), FALSE)
                                \/ Dispatched(a, InteractionResolved(ledger, x), FALSE)
    BY DEF Interact
<1>3. Grows(ledger, InteractionAwaiting(ledger, x)) /\ Grows(ledger, InteractionResolved(ledger, x))
    BY <1>1, SeamsGrow
<1>4. runs' \in 0..MaxRuns /\ stallFacts' \in 0..MaxStallFacts /\ cancelled' \in BOOLEAN
    BY <1>1 DEF Interact, CountFact, StallInv, StallTyped
<1>5. stallRun' \in [on : BOOLEAN, auto : BOOLEAN, scope : Nat] /\ stallRun' = stallRun
    BY DEF Interact, StallInv, StallTyped
<1>6. control' = control /\ steered' = steered
    BY DEF Interact
<1>7. CASE Dispatched(a, InteractionAwaiting(ledger, x), FALSE)
    BY <1>1, <1>3, <1>4, <1>5, <1>6, <1>7, DispatchedKeeps
<1>8. CASE Dispatched(a, InteractionResolved(ledger, x), FALSE)
    BY <1>1, <1>3, <1>4, <1>5, <1>6, <1>8, DispatchedKeeps
<1> QED
    BY <1>2, <1>7, <1>8


\* What the invariant says of one seam.
LEMMA OneSeam ==
    ASSUME StallInv, NEW a \in Actors
    PROVE  /\ seam \in [Actors -> StallSeams] /\ seam[a] \in StallSeams /\ Poised(a) /\ Rests(a)
           /\ ledger \in Ledgers /\ seam[a].ledger \in Ledgers /\ Grows(ledger, ledger)
           /\ steered \in Nat /\ control.attempts \in 0..MaxReplans
           /\ Cardinality(Pending(seam)) \in Nat
           /\ steered + Cardinality(Pending(seam)) <= control.attempts
<1>1. /\ seam \in [Actors -> StallSeams] /\ Poised(a) /\ Rests(a) /\ ledger \in Ledgers
      /\ steered \in Nat /\ control.attempts \in 0..MaxReplans
      /\ steered + Cardinality(Pending(seam)) <= control.attempts
    BY DEF StallInv, StallTyped, Budgeted, Evidenced, Controls
<1>2. seam[a] \in StallSeams
    BY <1>1
<1>3. seam[a].ledger \in Ledgers
    BY <1>2 DEF StallSeams
<1>4. Grows(ledger, ledger)
  <2>1. Len(ledger.verified) \in Nat
      BY <1>1 DEF Ledgers
  <2> QED
      BY <1>1, <2>1 DEF Grows
<1>5. Cardinality(Pending(seam)) \in Nat
    BY <1>1, <1>2, PendingMoves
<1> QED
    BY <1>1, <1>2, <1>3, <1>4, <1>5

LEMMA ToolBatchKeeps ==
    ASSUME StallInv, NEW a \in Agents, ToolBatch(a) PROVE StallInv'
<1> DEFINE x == [NoSeam EXCEPT !.step = "record", !.ledger = ledger, !.auto = stallRun.auto]
<1>1. a \in Actors /\ Task \in Actors /\ stallRun.auto \in BOOLEAN
    BY DEF Actors, StallInv, StallTyped
<1>2. /\ seam' = [seam EXCEPT ![a] = x] /\ stallRun.on /\ seam[Task].step = "none"
      /\ UNCHANGED <<ledger, control, stallRun, cancelled, steered, quiet, runs, stallFacts>>
    BY DEF ToolBatch
<1>3. ledger \in Ledgers /\ Grows(ledger, ledger)
    BY <1>1, OneSeam
<1>4. /\ x \in StallSeams /\ x.step = "record" /\ x.ledger = ledger /\ ~ x.started /\ x.action = "none"
  <2>1. NoSeam \in StallSeams /\ ~ NoSeam.started /\ NoSeam.action = "none"
      BY SeamRecords
  <2> QED
      BY <1>1, <1>3, <2>1 DEF StallSeams
<1> HIDE DEF x
<1>5. \A b \in Actors : ~ seam[b].started
    BY <1>1, <1>2 DEF StallInv, Budgeted, Poised
<1>6. Fits(a, x)
    BY <1>2, <1>4, <1>5 DEF Fits
<1>7. steered' + Cardinality(Pending(seam')) <= control.attempts
  <2>1. /\ Cardinality(Pending(seam')) \in Nat /\ Cardinality(Pending(seam)) \in Nat
        /\ Cardinality(Pending(seam')) <= Cardinality(Pending(seam))
    <3>1. ~ MaySteer(x) /\ seam \in [Actors -> StallSeams]
        BY <1>1, <1>4, OneSeam DEF MaySteer
    <3> QED
        BY <1>1, <1>2, <1>4, <3>1, PendingMoves
  <2>2. steered \in Nat /\ steered + Cardinality(Pending(seam)) <= control.attempts /\ control.attempts \in Nat
      BY <1>1, OneSeam, StallAssumption
  <2> QED
      BY <1>2, <2>1, <2>2
<1>8. /\ stallRun' \in [on : BOOLEAN, auto : BOOLEAN, scope : Nat] /\ cancelled' \in BOOLEAN
      /\ steered' \in Nat /\ runs' \in 0..MaxRuns /\ stallFacts' \in 0..MaxStallFacts
    BY <1>2 DEF StallInv, StallTyped
<1>9. quiet' = IF Len(ledger'.verified) > Len(ledger.verified) THEN 0 ELSE quiet
  <2>1. Len(ledger.verified) \in Nat
      BY <1>3 DEF Ledgers
  <2> QED
      BY <1>2, <2>1
<1> QED
    BY <1>1, <1>2, <1>3, <1>4, <1>6, <1>7, <1>8, <1>9, SeamKeeps

\* A seam that ends, its decision carried out or not.
LEMMA SeamEnds ==
    ASSUME StallInv, NEW a \in Actors, seam' = [seam EXCEPT ![a] = NoSeam],
           control' = control, Grows(ledger, ledger'), ledger'.verified = ledger.verified,
           \/ steered' = steered
           \/ steered' = steered + 1 /\ MaySteer(seam[a]),
           UNCHANGED <<stallRun, cancelled, quiet, runs, stallFacts>>
    PROVE  StallInv'
<1> DEFINE x == NoSeam
<1>1. x \in StallSeams /\ x.step = "none" /\ ~ x.auto /\ ~ x.started /\ x.action = "none"
    BY SeamRecords
<1>2. seam' = [seam EXCEPT ![a] = x]
    OBVIOUS
<1> HIDE DEF x
<1>3. /\ seam \in [Actors -> StallSeams] /\ Poised(a) /\ steered \in Nat /\ control.attempts \in 0..MaxReplans
      /\ steered + Cardinality(Pending(seam)) <= control.attempts /\ Cardinality(Pending(seam)) \in Nat
    BY OneSeam
<1>4. ~ MaySteer(x)
    BY <1>1 DEF MaySteer
<1>5. MaySteer(seam[a]) => \A b \in Actors : ~ seam[b].started
    BY DEF StallInv, Budgeted, Poised, MaySteer
<1>6. Fits(a, x)
    BY <1>1, <1>5 DEF Fits
<1>7. steered' + Cardinality(Pending(seam')) <= control.attempts /\ steered' \in Nat
  <2> DEFINE m == Cardinality(Pending(seam))  n == Cardinality(Pending(seam'))  k == control.attempts
  <2>b. seam \in [Actors -> StallSeams] /\ x \in StallSeams
      BY <1>1, <1>3
  <2>d. Cardinality(Pending(seam')) \in Nat
      BY PendingCounts
  <2>a. Cardinality(Pending(seam')) <= Cardinality(Pending(seam))
      BY <1>2, <1>4, <2>b, PendingMoves
  <2>c. ASSUME MaySteer(seam[a]) PROVE Cardinality(Pending(seam')) < Cardinality(Pending(seam))
      BY <1>2, <1>4, <2>b, <2>c, PendingMoves
  <2>1. n \in Nat /\ n <= m /\ (MaySteer(seam[a]) => n < m)
      BY <2>a, <2>c, <2>d
  <2>2. steered + m <= k /\ k \in Nat /\ m \in Nat
      BY <1>3, StallAssumption
  <2> HIDE DEF m, n, k
  <2>3. steered' + n <= k /\ steered' \in Nat
      BY <1>3, <2>1, <2>2
  <2> QED
      BY <2>3 DEF n, k
<1>8. /\ stallRun' \in [on : BOOLEAN, auto : BOOLEAN, scope : Nat] /\ cancelled' \in BOOLEAN
      /\ runs' \in 0..MaxRuns /\ stallFacts' \in 0..MaxStallFacts
    BY DEF StallInv, StallTyped
<1>9. quiet' = IF Len(ledger'.verified) > Len(ledger.verified) THEN 0 ELSE quiet
  <2>1. Len(ledger.verified) \in Nat
      BY DEF StallInv, StallTyped, Ledgers
  <2> QED
      BY <2>1
<1> QED
    BY <1>1, <1>2, <1>6, <1>7, <1>8, <1>9, SeamKeeps

LEMMA SteerKeeps ==
    ASSUME StallInv, NEW a \in Actors, Steer(a) PROVE StallInv'
<1>1. /\ seam' = [seam EXCEPT ![a] = NoSeam] /\ MaySteer(seam[a])
      /\ steered' = steered \/ steered' = steered + 1
      /\ UNCHANGED <<ledger, control, stallRun, cancelled, quiet, runs, stallFacts>>
    BY DEF Steer, MaySteer
<1>2. Grows(ledger, ledger')
    BY <1>1, OneSeam
<1> QED
    BY <1>1, <1>2, SeamEnds

\* The commits of the detector.
LEMMA StallCommits ==
    ASSUME NEW L \in Ledgers
    PROVE  /\ Grows(L, Bump(SetBlocked(L))) /\ Bump(SetBlocked(L)).verified = L.verified
           /\ \A t \in Statements : /\ Grows(L, Bump(SetNext(L, t)))
                                    /\ Bump(SetNext(L, t)).verified = L.verified
<1>2. Edits(L, SetBlocked(L)) /\ SetBlocked(L).verified = L.verified
    BY OpsEdit DEF SetBlocked, SetStatus, Ledgers
<1>3. Bump(SetBlocked(L)).verified = L.verified
    BY <1>2, BumpKeeps DEF Edits
<1>4. ASSUME NEW t \in Statements
      PROVE  /\ Grows(L, Bump(SetNext(L, t)))
             /\ Bump(SetNext(L, t)).verified = L.verified
  <2>2. Edits(L, SetNext(L, t)) /\ SetNext(L, t).verified = L.verified
      BY OpsEdit DEF SetNext, Ledgers
  <2>3. Bump(SetNext(L, t)).verified = L.verified
      BY <2>2, BumpKeeps DEF Edits
  <2> QED
      BY <2>2, <2>3, CommitGrows
<1> QED
    BY <1>2, <1>3, <1>4, CommitGrows

LEMMA BlockKeeps ==
    ASSUME StallInv, NEW a \in Actors, Block(a) PROVE StallInv'
<1>1. /\ seam' = [seam EXCEPT ![a] = NoSeam]
      /\ ledger' = Bump(SetBlocked(ledger)) \/ ledger' = ledger
      /\ UNCHANGED <<control, stallRun, cancelled, steered, quiet, runs, stallFacts>>
    BY DEF Block
<1>2. ledger \in Ledgers /\ Grows(ledger, ledger)
    BY OneSeam
<1>3. Grows(ledger, ledger') /\ ledger'.verified = ledger.verified
    BY <1>1, <1>2, StallCommits
<1> QED
    BY <1>1, <1>3, SeamEnds

LEMMA ReplanKeeps ==
    ASSUME StallInv, NEW a \in Actors, Replan(a) PROVE StallInv'
<1>1. /\ seam[a].step = "act" /\ seam[a].action = "replan"
      /\ UNCHANGED <<control, stallRun, cancelled, steered, quiet, runs, stallFacts>>
    BY DEF Replan
<1>2. /\ seam \in [Actors -> StallSeams] /\ seam[a] \in StallSeams /\ Poised(a) /\ ledger \in Ledgers
      /\ Grows(ledger, ledger) /\ steered \in Nat /\ control.attempts \in 0..MaxReplans
      /\ Cardinality(Pending(seam)) \in Nat /\ steered + Cardinality(Pending(seam)) <= control.attempts
    BY OneSeam
<1>3. CASE ApplyUnlessCancelled(a, SetNextOk(ledger))
  <2> DEFINE x == [seam[a] EXCEPT !.step = "rebaseline", !.ledger = ledger']
  <2>1. /\ ledger' = Bump(SetNext(ledger, ReplanNext[seam[a].attempt]))
        /\ seam' = [seam EXCEPT ![a] = x]
      BY <1>2, <1>3 DEF Replan
  <2>2. ReplanNext[seam[a].attempt] \in Statements
    <3>1. seam[a].attempt \in 1..MaxReplans
        BY <1>1, <1>2, StallAssumption DEF Poised, StallSeams
    <3> QED
        BY <3>1, StallAssumption
  <2>3. Grows(ledger, ledger') /\ ledger'.verified = ledger.verified
      BY <1>2, <2>1, <2>2, StallCommits
  <2>4. /\ x \in StallSeams /\ x.step = "rebaseline" /\ x.ledger = ledger' /\ x.action = "replan"
        /\ x.auto = seam[a].auto /\ x.started = seam[a].started /\ x.attempt = seam[a].attempt
      BY <1>1, <1>2, <2>3 DEF StallSeams, Grows
  <2> HIDE DEF x
  <2>5. MaySteer(seam[a])
      BY <1>1 DEF MaySteer
  <2>6. seam[a].auto /\ \A b \in Actors : ~ seam[b].started
      BY <1>1 DEF StallInv, Budgeted, Poised
  <2>7. Fits(a, x)
      BY <1>1, <1>2, <2>4, <2>6 DEF Fits, Poised
  <2>8. steered' + Cardinality(Pending(seam')) <= control.attempts
    <3> DEFINE m == Cardinality(Pending(seam))  n == Cardinality(Pending(seam'))  k == control.attempts
    <3>1. n \in Nat /\ n <= m
        BY <1>2, <2>1, <2>4, <2>5, PendingMoves
    <3>2. steered + m <= k /\ k \in Nat /\ m \in Nat
        BY <1>2, StallAssumption
    <3> HIDE DEF m, n, k
    <3>3. steered' + n <= k
        BY <1>1, <1>2, <3>1, <3>2
    <3> QED
        BY <3>3 DEF n, k
  <2>9. /\ stallRun' \in [on : BOOLEAN, auto : BOOLEAN, scope : Nat] /\ cancelled' \in BOOLEAN
        /\ runs' \in 0..MaxRuns /\ stallFacts' \in 0..MaxStallFacts /\ steered' \in Nat
      BY <1>1 DEF StallInv, StallTyped
  <2>10. quiet' = IF Len(ledger'.verified) > Len(ledger.verified) THEN 0 ELSE quiet
    <3>1. Len(ledger.verified) \in Nat
        BY <1>2 DEF Ledgers
    <3> QED
        BY <1>1, <2>3, <3>1
  <2> QED
      BY <1>1, <2>1, <2>3, <2>4, <2>7, <2>8, <2>9, <2>10, SeamKeeps
<1>4. CASE ~ ApplyUnlessCancelled(a, SetNextOk(ledger))
  <2>1. ledger' = ledger /\ seam' = [seam EXCEPT ![a] = NoSeam]
      BY <1>4 DEF Replan
  <2> QED
      BY <1>1, <1>2, <2>1, SeamEnds
<1> QED
    BY <1>3, <1>4


\* A window that starts anew is one.
LEMMA FirstFrameTyped ==
    ASSUME NEW L \in Ledgers
    PROVE  PushFrame(<<>>, L) \in Seq(Frames) /\ Len(PushFrame(<<>>, L)) <= Window
<1>1. <<>> \in Seq(Frames) /\ Len(<<>>) <= Window
    BY StallAssumption
<1> QED
    BY <1>1, PushFrameSays

\* A step that leaves the ledger alone keeps what the seams rest on.
LEMMA RestsStay ==
    ASSUME StallTyped, \A b \in Actors : Rests(b), ledger' = ledger,
           quiet = Window => quiet' = Window, NEW a \in Actors, NEW x \in StallSeams,
           seam' = [seam EXCEPT ![a] = x],
           x.step # "none" => x.ledger = seam[a].ledger /\ seam[a].step # "none",
           x.step = "act" /\ x.ledger.revision = ledger.revision => quiet' = Window
    PROVE  \A b \in Actors : Rests(b)'
<1>1. seam'[a] = x /\ \A b \in Actors : b # a => seam'[b] = seam[b]
    BY DEF StallTyped
<1> SUFFICES ASSUME NEW b \in Actors PROVE Rests(b)'
    OBVIOUS
<1>2. CASE b = a
    BY <1>1, <1>2 DEF Rests
<1>3. CASE b # a
    BY <1>1, <1>3 DEF Rests
<1> QED
    BY <1>2, <1>3

LEMMA RebaselineKeeps ==
    ASSUME StallInv, NEW a \in Actors, Rebaseline(a) PROVE StallInv'
<1> DEFINE L == seam[a].ledger
           w == PushFrame(<<>>, L)
           x == [seam[a] EXCEPT !.step = "steer"]
<1>1. /\ seam \in [Actors -> StallSeams] /\ seam[a] \in StallSeams /\ Poised(a) /\ Rests(a)
      /\ ledger \in Ledgers /\ L \in Ledgers /\ steered \in Nat /\ control.attempts \in 0..MaxReplans
      /\ Cardinality(Pending(seam)) \in Nat /\ steered + Cardinality(Pending(seam)) <= control.attempts
    BY OneSeam
<1>2. /\ seam[a].step = "rebaseline" /\ seam' = [seam EXCEPT ![a] = x]
      /\ control' = [control EXCEPT !.frames = w, !.hits = 0]
      /\ UNCHANGED <<ledger, stallRun, cancelled, steered, quiet, runs, stallFacts>>
    BY <1>1 DEF Rebaseline, Rebaselined
<1>3. w \in Seq(Frames) /\ Len(w) <= Window
    BY <1>1, FirstFrameTyped
<1>4. Backed(w, Len(ledger.verified), quiet)
  <2>1. Len(ledger.verified) \in Nat /\ Len(L.verified) <= Len(ledger.verified) /\ quiet \in Nat
      BY <1>1, <1>2 DEF Rests, Ledgers, StallInv, StallTyped
  <2> QED
      BY <1>1, <2>1, FirstFrameBacked
<1>5. x \in StallSeams /\ x.step = "steer" /\ x.ledger = L /\ x.auto = seam[a].auto
      /\ x.started = seam[a].started /\ x.action = seam[a].action /\ x.attempt = seam[a].attempt
    BY <1>1 DEF StallSeams
<1>6. control \in Controls
    BY DEF StallInv, StallTyped
<1> HIDE DEF w, x
<1>7. /\ control' \in Controls /\ control'.frames = w /\ control'.hits = 0
      /\ control'.attempts = control.attempts
  <2>1. 0 \in 0..2
      OBVIOUS
  <2> QED
      BY <1>2, <1>3, <1>6, <2>1 DEF Controls
<1>8. StallTyped'
  <2>1. seam' \in [Actors -> StallSeams]
      BY <1>1, <1>2, <1>5
  <2> QED
      BY <1>2, <1>3, <1>7, <2>1 DEF StallInv, StallTyped
<1>9. Budgeted'
  <2>1. seam[a].auto /\ \A b \in Actors : ~ seam[b].started
      BY <1>2 DEF StallInv, Budgeted, Poised
  <2>2. Fits(a, x)
      BY <1>1, <1>2, <1>5, <2>1 DEF Fits, Poised
  <2>3. \A b \in Actors : Poised(b)'
      BY <1>2, <1>5, <2>2, PoisedMoves DEF StallInv, Budgeted
  <2>4. MaySteer(seam[a])
      BY <1>2 DEF MaySteer
  <2> DEFINE m == Cardinality(Pending(seam))  n == Cardinality(Pending(seam'))  k == control.attempts
  <2>5. n \in Nat
      BY PendingCounts
  <2>6. n <= m
      BY <1>1, <1>2, <1>5, <2>4, PendingMoves
  <2>7. steered + m <= k /\ k \in Nat /\ m \in Nat
      BY <1>1, StallAssumption
  <2> HIDE DEF m, n, k
  <2>8. steered' + n <= k
      BY <1>1, <1>2, <2>5, <2>6, <2>7
  <2> QED
      BY <1>7, <2>3, <2>8 DEF Budgeted, n, k
<1>10. Evidenced'
  <2>1. \A b \in Actors : Rests(b)'
      BY <1>2, <1>5, RestsStay DEF StallInv, Evidenced
  <2> QED
      BY <1>2, <1>4, <1>7, <2>1 DEF Evidenced
<1> QED
    BY <1>8, <1>9, <1>10 DEF StallInv

\* A seam records its frame: nothing follows, or a decision of an agent's batch.
LEMMA RecordKeeps ==
    ASSUME StallInv, NEW a \in Actors, Record(a) PROVE StallInv'
<1> DEFINE L == seam[a].ledger
           d == Evaluate(control, L, seam[a].started, seam[a].auto, seam[a].auto /\ cancelled)
           x == IF d.action = "none" THEN NoSeam
                ELSE [seam[a] EXCEPT !.step = "act", !.action = d.action, !.attempt = d.control.attempts]
<1>1. /\ seam \in [Actors -> StallSeams] /\ seam[a] \in StallSeams /\ Poised(a) /\ Rests(a)
      /\ ledger \in Ledgers /\ L \in Ledgers /\ steered \in Nat /\ control.attempts \in 0..MaxReplans
      /\ Cardinality(Pending(seam)) \in Nat /\ steered + Cardinality(Pending(seam)) <= control.attempts
      /\ Grows(ledger, ledger)
    BY OneSeam
<1>2. seam[a].step = "record" /\ UNCHANGED <<ledger, stallRun, cancelled, steered, runs, stallFacts>>
    BY DEF Record
<1>3. CASE L.revision = 0
  <2>1. seam' = [seam EXCEPT ![a] = NoSeam] /\ control' = control /\ quiet' = quiet
      BY <1>3 DEF Record
  <2> QED
      BY <1>1, <1>2, <2>1, SeamEnds
<1>4. CASE L.revision # 0
  <2>1. /\ control' = d.control /\ seam' = [seam EXCEPT ![a] = x]
        /\ quiet' = IF seam[a].auto /\ quiet < Window THEN quiet + 1 ELSE quiet
      BY <1>1, <1>4 DEF Record
  <2>2. /\ control \in Controls /\ Len(control.frames) <= Window /\ cancelled \in BOOLEAN
        /\ quiet \in 0..Window /\ Window \in Nat \ {0} /\ quiet \in Nat
        /\ seam[a].started \in BOOLEAN /\ seam[a].auto \in BOOLEAN
      BY <1>1, StallAssumption DEF StallInv, StallTyped, StallSeams
  <2>3. Decided(control, L, seam[a].started, seam[a].auto, d)
    <3>1. (seam[a].auto /\ cancelled) \in BOOLEAN
        OBVIOUS
    <3> QED
        BY <1>1, <2>2, <3>1, EvaluateSays
  <2>4. /\ Len(ledger.verified) \in Nat /\ Len(L.verified) <= Len(ledger.verified)
        /\ L.revision = ledger.revision => L = ledger
      BY <1>1, <1>2 DEF Rests, Ledgers
  <2> HIDE DEF d
  <2>5. /\ d.control \in Controls /\ Len(d.control.frames) <= Window /\ d.action \in {"none", "replan", "block"}
        /\ d.control.attempts \in 0..MaxReplans
      BY <2>3 DEF Decided, Controls
  <2>6. /\ d.action = "none" => x = NoSeam
        /\ d.action # "none" => /\ x \in StallSeams /\ x.step = "act" /\ x.action = d.action
                                /\ x.attempt = d.control.attempts /\ x.ledger = L
                                /\ x.auto = seam[a].auto /\ x.started = seam[a].started
      BY <1>1, <2>5 DEF StallSeams
  <2> HIDE DEF x
  <2>7. /\ x \in StallSeams
        /\ d.action = "none" => x.step = "none" /\ ~ x.auto /\ ~ x.started /\ x.action = "none"
      BY <2>6, SeamRecords
  <2>8. d.action # "none" => seam[a].auto /\ ~ seam[a].started
      BY <2>3 DEF Decided
  <2>9. StallTyped'
    <3>1. seam' \in [Actors -> StallSeams]
        BY <1>1, <2>1, <2>7
    <3>2. quiet' \in 0..Window
        BY <2>1, <2>2
    <3> QED
        BY <1>2, <2>1, <2>5, <3>1, <3>2 DEF StallInv, StallTyped
  <2>10. Budgeted'
    <3> DEFINE m == Cardinality(Pending(seam))  n == Cardinality(Pending(seam'))  k == control.attempts
    <3>1. n \in Nat /\ m \in Nat /\ k \in Nat /\ steered + m <= k
        BY <1>1, PendingCounts, StallAssumption
    <3>2. seam[a].auto => \A b \in Actors : ~ seam[b].started
        BY DEF StallInv, Budgeted, Poised
    <3>3. Fits(a, x)
      <4>1. d.action = "replan" => d.control.attempts = control.attempts + 1
          BY <2>3, <2>8 DEF Decided
      <4>2. x.action = "replan" => x.attempt >= 1
          BY <2>6, <2>7, <3>1, <4>1
      <4>3. CASE d.action = "none"
          BY <1>2, <2>7, <4>3 DEF Fits
      <4>4. CASE d.action # "none"
          BY <1>1, <1>2, <2>6, <2>8, <3>2, <4>2, <4>4 DEF Fits, Poised
      <4> QED
          BY <4>3, <4>4
    <3>4. \A b \in Actors : Poised(b)'
        BY <2>1, <2>7, <3>3, PoisedMoves DEF StallInv, Budgeted
    <3>5. n <= m + 1
        BY <1>1, <2>1, <2>7, PendingMoves
    <3>6. ASSUME d.action # "replan" PROVE n <= m
      <4>1. ~ MaySteer(x)
          BY <2>6, <2>7, <3>6 DEF MaySteer
      <4> QED
          BY <1>1, <2>1, <2>7, <4>1, PendingMoves
    <3>7. ASSUME seam[a].started PROVE steered = 0 /\ m = 0 /\ d.action = "none" /\ d.control.attempts = 0
      <4>1. steered = 0 /\ \A b \in Actors : Poised(b) /\ ~ seam[b].auto
          BY <1>1, <3>7 DEF Poised, StallInv, Budgeted
      <4> QED
          BY <2>3, <3>7, <4>1, NonePending DEF Decided
    <3>8. ASSUME ~ seam[a].started
          PROVE  d.control.attempts = IF d.action = "replan" THEN k + 1 ELSE k
        BY <2>3, <3>8 DEF Decided
    <3> HIDE DEF m, n, k
    <3>9. steered' + n <= d.control.attempts
      <4>1. CASE seam[a].started
          BY <1>1, <1>2, <3>1, <3>6, <3>7, <4>1
      <4>2. CASE ~ seam[a].started
          BY <1>1, <1>2, <3>1, <3>5, <3>6, <3>8, <4>2
      <4> QED
          BY <4>1, <4>2
    <3> QED
        BY <2>1, <3>4, <3>9 DEF Budgeted, n
  <2>11. Evidenced'
    <3> DEFINE f == control.frames  N == Len(ledger.verified)  w == PushFrame(f, L)
    <3>1. f \in Seq(Frames) /\ Backed(f, N, quiet) /\ (control.hits >= 1 => Len(f) = Window)
        BY <2>2 DEF StallInv, Evidenced, Controls
    <3>2. CASE seam[a].started
      <4>1. ~ seam[a].auto
          BY <1>1, <3>2 DEF Poised
      <4>2. quiet' = quiet /\ d.action = "none" /\ d.control.hits = 0 /\ d.control.frames = PushFrame(<<>>, L)
          BY <2>1, <2>3, <3>2, <4>1 DEF Decided
      <4>3. Backed(d.control.frames, N, quiet)
          BY <1>1, <2>2, <2>4, <4>2, FirstFrameBacked
      <4>4. \A b \in Actors : Rests(b)'
          BY <1>2, <2>1, <2>7, <4>2, RestsStay DEF StallInv, Evidenced
      <4> QED
          BY <1>2, <2>1, <4>2, <4>3, <4>4 DEF Evidenced
    <3>3. CASE ~ seam[a].started /\ ~ seam[a].auto
      <4>1. quiet' = quiet /\ d.action = "none" /\ d.control.hits = 0 /\ d.control.frames = <<>>
          BY <2>1, <2>3, <3>3 DEF Decided
      <4>2. Backed(d.control.frames, N, quiet)
          BY <4>1 DEF Backed
      <4>3. \A b \in Actors : Rests(b)'
          BY <1>2, <2>1, <2>7, <4>1, RestsStay DEF StallInv, Evidenced
      <4> QED
          BY <1>2, <2>1, <4>1, <4>2, <4>3 DEF Evidenced
    <3>4. CASE ~ seam[a].started /\ seam[a].auto
      <4>1. quiet' = Batch(quiet) /\ (quiet = Window => quiet' = Window)
          BY <2>1, <2>2, <3>4 DEF Batch
      <4>2. /\ d.control.frames = w
            /\ d.control.hits >= 1 => control.hits >= 1 \/ Len(w) = Window
            /\ d.action # "none" => control.hits >= 1 /\ StallEvidence(w) /\ L.status \notin Suppressed
          BY <2>3, <3>4 DEF Decided
      <4>3. Backed(w, N, Batch(quiet))
          BY <1>1, <2>2, <2>4, <3>1, BatchBacked
      <4>4. ASSUME Len(f) = Window PROVE Len(w) = Window
          BY <1>1, <2>2, <3>1, <4>4, PushFrameSays
      <4>5. ASSUME x.step = "act", x.ledger.revision = ledger.revision PROVE quiet' = Window
        <5>1. d.action # "none" /\ L = ledger
            BY <2>4, <2>6, <2>7, <4>5
        <5>2. Len(f) = Window /\ Len(L.verified) = N /\ StallEvidence(w) /\ L.status \notin Suppressed
            BY <3>1, <4>2, <5>1
        <5>3. Batch(quiet) = Window
            BY <1>1, <2>2, <2>4, <3>1, <5>2, BatchBacked
        <5> QED
            BY <4>1, <5>3
      <4>6. \A b \in Actors : Rests(b)'
        <5>1. x.step # "none" => x.ledger = L
            BY <2>6, <2>7
        <5> QED
            BY <1>2, <2>1, <2>7, <4>1, <4>5, <5>1, RestsStay DEF StallInv, Evidenced
      <4> QED
          BY <1>2, <2>1, <3>1, <4>1, <4>2, <4>3, <4>4, <4>6 DEF Evidenced
    <3> QED
        BY <2>2, <3>2, <3>3, <3>4
  <2> QED
      BY <2>9, <2>10, <2>11 DEF StallInv
<1> QED
    BY <1>3, <1>4


\* The ledger API writes beside the detector.
LEMMA StallUserOpKeeps ==
    ASSUME StallInv, StallUserOp PROVE StallInv'
<1> DEFINE g == [criteria |-> {}, checks |-> {}]
<1>1. /\ ledger \in Ledgers /\ g \in Goals /\ "UserConfirmation" \in Verifiers /\ MaxStallFacts \in Nat
      /\ Len(ledger.verified) \in Nat /\ stallFacts \in 0..MaxStallFacts
    BY StallAssumption DEF StallInv, StallTyped, Goals, Ledgers
<1>2. /\ UNCHANGED <<control, seam, stallRun, cancelled, steered, runs>>
      /\ stallFacts < MaxStallFacts /\ stallFacts' = stallFacts + 1
    BY DEF StallUserOp, CountFact
<1>3. /\ Grows(ledger, ledger')
      /\ quiet' = IF Len(ledger'.verified) > Len(ledger.verified) THEN 0 ELSE quiet
  <2>1. CASE /\ \E t \in Statements : ledger' = Bump(Create(ledger, g, t))
             /\ quiet' = quiet
    <3>1. PICK t \in Statements : ledger' = Bump(Create(ledger, g, t))
        BY <2>1
    <3>2. Edits(ledger, Create(ledger, g, t)) /\ Create(ledger, g, t).verified = ledger.verified
        BY <1>1, OpsEdit
    <3>3. ledger'.verified = ledger.verified
        BY <3>1, <3>2, BumpKeeps DEF Edits
    <3> QED
        BY <1>1, <2>1, <3>1, <3>2, <3>3, CommitGrows
  <2>2. CASE /\ ledger' = Bump(AddCheckpoint(ledger, "UserConfirmation", {}, 0))
             /\ quiet' = 0
    <3> DEFINE M == AddCheckpoint(ledger, "UserConfirmation", {}, 0)
    <3>1. ledger' = Bump(M)
        BY <2>2
    <3>2. Edits(ledger, M) /\ Len(M.verified) = Len(ledger.verified) + 1
        BY <1>1, OpsEdit
    <3> HIDE DEF M
    <3>3. ledger'.verified = M.verified
        BY <3>1, <3>2, BumpKeeps DEF Edits
    <3> QED
        BY <1>1, <2>2, <3>1, <3>2, <3>3, CommitGrows
  <2>3. CASE /\ \E t \in Statements : ledger' = Bump(OpenQuestion(ledger, t))
             /\ quiet' = quiet
    <3>1. PICK t \in Statements : ledger' = Bump(OpenQuestion(ledger, t))
        BY <2>3
    <3>2. Edits(ledger, OpenQuestion(ledger, t)) /\ OpenQuestion(ledger, t).verified = ledger.verified
        BY <1>1, OpsEdit
    <3>3. ledger'.verified = ledger.verified
        BY <3>1, <3>2, BumpKeeps DEF Edits
    <3> QED
        BY <1>1, <2>3, <3>1, <3>2, <3>3, CommitGrows
  <2> QED
      BY <2>1, <2>2, <2>3 DEF StallUserOp
<1>4. StallTyped'
  <2>1. quiet' \in 0..Window /\ ledger' \in Ledgers
      BY <1>3, StallAssumption DEF StallInv, StallTyped, Grows
  <2>2. stallFacts' \in 0..MaxStallFacts
      BY <1>1, <1>2
  <2> QED
      BY <1>2, <2>1, <2>2 DEF StallInv, StallTyped
<1>5. Budgeted'
    BY <1>2 DEF StallInv, Budgeted, Poised
<1>6. Evidenced'
    BY <1>2, <1>3, EvidenceGrows DEF StallInv
<1> QED
    BY <1>4, <1>5, <1>6 DEF StallInv

\* Stop and the clock touch neither seams nor frames.
LEMMA StallStays ==
    ASSUME StallInv,
           UNCHANGED <<ledger, seam, stallRun, steered, quiet, runs, stallFacts>>,
           cancelled' \in BOOLEAN, control' = control \/ control' = [control EXCEPT !.late = TRUE]
    PROVE  StallInv'
<1>1. control \in Controls
    BY DEF StallInv, StallTyped
<1>2. /\ control' \in Controls /\ control'.frames = control.frames /\ control'.hits = control.hits
      /\ control'.attempts = control.attempts
    BY <1>1 DEF Controls
<1>3. StallTyped'
    BY <1>2 DEF StallInv, StallTyped
<1>4. Budgeted'
    BY <1>2 DEF StallInv, Budgeted, Poised
<1>5. Evidenced'
    BY <1>2 DEF StallInv, Evidenced, Rests
<1> QED
    BY <1>3, <1>4, <1>5 DEF StallInv

\* StallInv is inductive: one case per action.
LEMMA NextStalls ==
    ASSUME StallInv, [StallNext]_stallVars PROVE StallInv'
<1>1. CASE RunBegin
    BY <1>1, RunBeginKeeps
<1>2. CASE RunEnd
    BY <1>2, RunEndKeeps
<1>3. CASE EvaluatorPass
    BY <1>3, EvaluatorPassKeeps
<1>4. CASE StallUserOp
    BY <1>4, StallUserOpKeeps
<1>5. CASE Cancel
    BY <1>5, StallStays DEF Cancel
<1>6. CASE Expire
  <2>1. cancelled' \in BOOLEAN
      BY <1>6 DEF Expire, StallInv, StallTyped
  <2> QED
      BY <1>6, <2>1, StallStays DEF Expire
<1>7. ASSUME NEW a \in Agents, ToolBatch(a) \/ Interact(a) PROVE StallInv'
    BY <1>7, ToolBatchKeeps, InteractKeeps
<1>8. ASSUME NEW a \in Actors, SeamStep(a) PROVE StallInv'
    BY <1>8, RecordKeeps, ReplanKeeps, RebaselineKeeps, SteerKeeps, BlockKeeps DEF SeamStep
<1>9. CASE UNCHANGED stallVars
  <2>1. UNCHANGED <<ledger, control, seam, stallRun, cancelled, steered, quiet, runs, stallFacts>>
      BY <1>9 DEF stallVars
  <2>2. cancelled' \in BOOLEAN
      BY <2>1 DEF StallInv, StallTyped
  <2> QED
      BY <2>1, <2>2, StallStays
<1> QED
    BY <1>1, <1>2, <1>3, <1>4, <1>5, <1>6, <1>7, <1>8, <1>9 DEF StallNext

LEMMA InitStalls ==
    ASSUME StallInit PROVE StallInv
<1>1. /\ ledger = EmptyLedger /\ seam = [a \in Actors |-> NoSeam]
      /\ stallRun = [on |-> FALSE, auto |-> FALSE, scope |-> 0] /\ cancelled = FALSE
      /\ steered = 0 /\ quiet = 0 /\ runs = 0 /\ stallFacts = 0
    BY DEF StallInit
<1>2. control = [frames |-> <<>>, phase |-> "Healthy", hits |-> 0, attempts |-> 0, late |-> TRUE, set |-> FALSE]
    BY DEF StallInit
<1>3. /\ NoSeam \in StallSeams /\ NoSeam.step = "none" /\ ~ NoSeam.auto
      /\ ~ NoSeam.started /\ NoSeam.action = "none"
    BY SeamRecords
<1>4. seam \in [Actors -> StallSeams] /\ \A a \in Actors : seam[a] = NoSeam
    BY <1>1, <1>3
<1>5. 0 \in 0..MaxReplans /\ 0 \in 0..Window /\ 0 \in 0..MaxRuns /\ 0 \in 0..MaxStallFacts /\ 0 \in 0..2 /\ Len(<<>>) <= Window
    BY StallAssumption
<1>6. control \in Controls /\ control.frames = <<>> /\ control.attempts = 0 /\ control.hits = 0
  <2>1. <<>> \in Seq(Frames) /\ "Healthy" \in Phases
      BY DEF Phases
  <2> QED
      BY <1>2, <1>5, <2>1 DEF Controls
<1>7. ledger \in Ledgers
    BY <1>1 DEF EmptyLedger, Ledgers, Statuses
<1>8. stallRun \in [on : BOOLEAN, auto : BOOLEAN, scope : Nat]
    BY <1>1
<1>9. StallTyped
    BY <1>1, <1>4, <1>5, <1>6, <1>7, <1>8 DEF StallTyped
<1>10. \A a \in Actors : Poised(a) /\ Rests(a) /\ ~ seam[a].auto
    BY <1>3, <1>4 DEF Poised, Rests
<1>11. Cardinality(Pending(seam)) = 0
    BY <1>10, NonePending
<1>12. Budgeted
    BY <1>1, <1>6, <1>10, <1>11 DEF Budgeted
<1>13. Backed(control.frames, Len(ledger.verified), quiet)
    BY <1>6 DEF Backed
<1>14. Evidenced
    BY <1>6, <1>10, <1>13 DEF Evidenced
<1> QED
    BY <1>9, <1>12, <1>14 DEF StallInv

\* The records of the detector (StallControl::evaluate, record) stay well
\* formed, and it steers a run at most MAX_REPLAN_ATTEMPTS times, for any number
\* of agents, any window and any budget: every steering done or still to come
\* has an attempt of its own (Budgeted).
THEOREM StallSoundHolds == StallSpec => []StallSound
<1>1. StallInit => StallInv
    BY InitStalls
<1>2. StallInv /\ [StallNext]_stallVars => StallInv'
    BY NextStalls
<1>3. StallInv => StallSound
  <2> SUFFICES ASSUME StallInv PROVE StallSound
      OBVIOUS
  <2>1. StallTypeOK
      BY DEF StallTypeOK, StallInv, StallTyped, Controls, StallSeams, HitCap
  <2>2. ReplanBudget
    <3>1. steered \in Nat /\ control.attempts \in 0..MaxReplans /\ MaxReplans \in Nat
        BY StallAssumption DEF StallInv, StallTyped, Controls
    <3> DEFINE m == Cardinality(Pending(seam))
    <3>2. m \in Nat /\ steered + m <= control.attempts
        BY PendingCounts DEF StallInv, Budgeted
    <3> HIDE DEF m
    <3>3. steered <= MaxReplans
        BY <3>1, <3>2
    <3> QED
        BY <3>3 DEF ReplanBudget
  <2> QED
      BY <2>1, <2>2 DEF StallSound
<1> QED
    BY <1>1, <1>2, <1>3, PTL DEF StallSpec

\* Only a seam's own Replan or Block takes it out of "act"; it writes the ledger
\* under the lock with a live token and an unchanged revision, and then its
\* evidence still stands.
LEMMA ActsHold ==
    ASSUME StallInv, [StallNext]_stallVars, NEW c \in Actors, ActsOf(c),
           ledger' # ledger
    PROVE  ~ cancelled /\ quiet = Window
<1>0. seam \in [Actors -> StallSeams]
    BY DEF StallInv, StallTyped
<1>1. seam[c].step = "act" /\ seam'[c].step # "act"
    BY DEF ActsOf
<1>2. ASSUME NEW a \in Actors, NEW x, seam' = [seam EXCEPT ![a] = x] PROVE a = c
    BY <1>0, <1>1, <1>2
<1>3. ASSUME NEW a \in Actors, NEW L, NEW st, Dispatched(a, L, st) PROVE FALSE
    BY <1>1, <1>2, <1>3 DEF Dispatched
<1>4. Task \in Actors /\ Projector \in Actors /\ Agents \subseteq Actors
    BY DEF Actors
<1>5. CASE RunBegin \/ RunEnd \/ EvaluatorPass \/ \E a \in Agents : Interact(a)
    BY <1>3, <1>4, <1>5 DEF RunBegin, RunEnd, EvaluatorPass, Interact
<1>6. CASE StallUserOp \/ Cancel \/ Expire \/ UNCHANGED stallVars
    BY <1>1, <1>6 DEF StallUserOp, Cancel, Expire, stallVars
<1>7. ASSUME NEW a \in Actors, ToolBatch(a) \/ Rebaseline(a) \/ Steer(a) \/ Record(a)
      PROVE  FALSE
    BY <1>7 DEF ToolBatch, Rebaseline, Steer, Record
<1>8. ASSUME NEW a \in Actors, Replan(a) \/ Block(a)
      PROVE  ~ cancelled /\ quiet = Window
  <2>1. seam[a].step = "act" /\ ~ cancelled /\ ledger.revision = seam[a].ledger.revision
      BY <1>8 DEF Replan, Block, ApplyUnlessCancelled
  <2>2. Rests(a)
      BY DEF StallInv, Evidenced
  <2> QED
      BY <2>1, <2>2 DEF Rests
<1> QED
    BY <1>4, <1>5, <1>6, <1>7, <1>8 DEF StallNext, SeamStep

\* A decision that commits holds when it commits, however many seams
\* interleaved since: the run has not been stopped (CancelledRunKeepsLedger) and
\* Window batches have gone by without a checkpoint (ActsOnEvidence).
THEOREM DecisionsHoldHolds == StallSpec => DecisionsHold
<1>1. StallInit => StallInv
    BY InitStalls
<1>2. StallInv /\ [StallNext]_stallVars => StallInv'
    BY NextStalls
<1>3. StallInv /\ [StallNext]_stallVars =>
        [(\E a \in Actors : ActsOf(a)) /\ cancelled => ledger' = ledger]_stallVars
    BY ActsHold
<1>4. StallInv /\ [StallNext]_stallVars =>
        [(\E a \in Actors : ActsOf(a)) /\ ledger' # ledger => quiet = Window]_stallVars
    BY ActsHold
<1> QED
    BY <1>1, <1>2, <1>3, <1>4, PTL DEF StallSpec, DecisionsHold, CancelledRunKeepsLedger,
       ActsOnEvidence

=============================================================================
