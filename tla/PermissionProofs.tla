-------------------------- MODULE PermissionProofs --------------------------
(***************************************************************************)
(* Theorems about PermissionRendezvous, for all sets of requests, keys and *)
(* answers and any number of runs.  A request is in four places (pending   *)
(* table, waiter table, channel, ledger) that no common lock guards; the   *)
(* inductive invariant says for every step of a request in which of them   *)
(* it may still be, whatever replies and aborts are half-way.              *)
(***************************************************************************)
EXTENDS PermissionRendezvous, TLAPS

(* What the seams of the reducer do to the interactions a ledger awaits.    *)
(* One fact about every ledger of the protocol carries it: a ledger that    *)
(* awaits something says so, and could go on.  Without it the reducer's     *)
(* validation may refuse a seam and leave the wait in place.                *)

WaitsForUser(L) ==
    L.awaiting # {} => L.status = "AwaitingUser" /\ L.next # None /\ L.goal # None

\* A ledger of the right type that keeps WaitsForUser.
GoodLedger(L) == L \in Ledgers /\ WaitsForUser(L)

\* The revision says nothing about what is awaited.
LEMMA RevisionIsApart ==
    ASSUME NEW L, GoodLedger(L)
    PROVE  /\ GoodLedger(Bump(L)) /\ Bump(L).awaiting = L.awaiting
           /\ GoodLedger(Unrevised(L)) /\ Unrevised(L).awaiting = L.awaiting
<1>1. \A n \in Nat : GoodLedger([L EXCEPT !.revision = n]) /\ [L EXCEPT !.revision = n].awaiting = L.awaiting
    BY DEF GoodLedger, WaitsForUser, Ledgers
<1>2. L.revision + 1 \in Nat /\ Bump(L) = [L EXCEPT !.revision = L.revision + 1]
    BY DEF GoodLedger, Ledgers, Bump
<1> QED
    BY <1>1, <1>2 DEF Unrevised

\* An interrupt keeps the next action, marked.
LEMMA MarkPreInterruptTyped ==
    ASSUME NEW n \in NextActions \cup {None}
    PROVE  MarkPreInterrupt(n) \in NextActions \cup {None}
BY DEF MarkPreInterrupt, NextActions

\* The ledgers a session may have when a run begins.
LEMMA GovernedIsGood ==
    /\ GoodLedger(EmptyLedger)
    /\ GoodLedger(Governed) /\ Governed.verified = <<>> /\ Governed.goal_generation = 1
    /\ Governed.awaiting = {} /\ EmptyLedger.awaiting = {}
<1> DEFINE s0 == CHOOSE s \in Statements : TRUE
           g0 == [criteria |-> {}, checks |-> {}]
<1>1. s0 \in Statements
    BY SeamsAssumption
<1> HIDE DEF s0
<1>2. g0 \in Goals /\ NextFromStatement(s0) \in NextActions
    BY <1>1 DEF Goals, NextFromStatement, NextActions
<1>3. /\ EmptyLedger \in Ledgers /\ EmptyLedger.awaiting = {} /\ EmptyLedger.verified = <<>>
    BY DEF EmptyLedger, Ledgers, Statuses
<1>4. /\ Governed \in Ledgers
      /\ Governed.awaiting = {} /\ Governed.verified = <<>> /\ Governed.goal_generation = 1
  <2>1. Governed = Create(EmptyLedger, g0, s0)
      BY DEF Governed, s0
  <2> QED
      BY <1>2, <1>3, <2>1 DEF Create, Ledgers, Statuses
<1> QED
    BY <1>3, <1>4 DEF GoodLedger, WaitsForUser

\* A run that starts clears nothing it waits for.
LEMMA RunStartedKeeps ==
    ASSUME NEW L, GoodLedger(L)
    PROVE  GoodLedger(RunStarted(L)) /\ RunStarted(L).awaiting = L.awaiting
<1> DEFINE M == SetActive(L)
<1>1. CASE RunStarted(L) = L
    BY <1>1
<1>2. CASE SetActiveOk(L) /\ RunStarted(L) = Bump(M)
  <2>1. GoodLedger(M) /\ M.awaiting = L.awaiting
      BY <1>2 DEF GoodLedger, WaitsForUser, Ledgers, SetActive, SetActiveOk, SetStatus, Statuses
  <2> QED
      BY <1>2, <2>1, RevisionIsApart
<1> QED
    BY <1>1, <1>2 DEF RunStarted, Dispatch

\* A final response completes a ledger only when nothing is awaited.
LEMMA FinalResponseKeeps ==
    ASSUME NEW L, GoodLedger(L)
    PROVE  GoodLedger(FinalResponseCommitted(L)) /\ FinalResponseCommitted(L).awaiting = L.awaiting
<1> DEFINE M == Complete(L, {})
<1>1. CASE FinalResponseCommitted(L) = L
    BY <1>1
<1>2. CASE CompletionReady(L) /\ FinalResponseCommitted(L) = Bump(M)
  <2>1. L.awaiting = {}
      BY <1>2 DEF CompletionReady, ValidateCompletion
  <2>2. GoodLedger(M) /\ M.awaiting = L.awaiting
      BY <2>1 DEF GoodLedger, WaitsForUser, Ledgers, Complete, Statuses
  <2> QED
      BY <1>2, <2>2, RevisionIsApart
<1> QED
    BY <1>1, <1>2 DEF FinalResponseCommitted, Dispatch

\* A new wait adds itself at most.
LEMMA AwaitingAdds ==
    ASSUME NEW L, GoodLedger(L), NEW x \in Interactions
    PROVE  /\ GoodLedger(InteractionAwaiting(L, x))
           /\ InteractionAwaiting(L, x).awaiting \subseteq L.awaiting \cup {x}
<1> DEFINE M == SetAwaiting(L, x)
<1>1. CASE InteractionAwaiting(L, x) = L
    BY <1>1
<1>2. CASE SetAwaitingOk(L) /\ InteractionAwaiting(L, x) = Bump(M)
  <2>1. L.goal # None /\ L.next # None
      BY <1>2 DEF SetAwaitingOk, EnsureCreated, RequireNextForStatus
  <2>2. GoodLedger(M) /\ M.awaiting = L.awaiting \cup {x}
      BY <2>1 DEF GoodLedger, WaitsForUser, Ledgers, SetAwaiting, SetStatus, Statuses
  <2> QED
      BY <1>2, <2>2, RevisionIsApart
<1> QED
    BY <1>1, <1>2 DEF InteractionAwaiting, Dispatch

\* What is resolved is awaited no more: the reducer never refuses it, because
\* the ledger either keeps waiting for something else or has a next action.
LEMMA ResolvedRemoves ==
    ASSUME NEW L, GoodLedger(L), NEW x
    PROVE  /\ GoodLedger(InteractionResolved(L, x))
           /\ InteractionResolved(L, x).awaiting = L.awaiting \ {x}
<1> DEFINE M == ResolveInteraction(L, x)
<1>1. CASE x \notin L.awaiting
    BY <1>1 DEF InteractionResolved, Dispatch, ResolveInteractionOk
<1>2. CASE x \in L.awaiting
  <2>1. L.status = "AwaitingUser" /\ L.next # None /\ L.goal # None
      BY <1>2 DEF GoodLedger, WaitsForUser
  <2>2. GoodLedger(M) /\ M.awaiting = L.awaiting \ {x}
      BY <1>2, <2>1 DEF GoodLedger, WaitsForUser, Ledgers, ResolveInteraction, Statuses
  <2>3. /\ M.next = L.next
        /\ M.status = IF L.awaiting = {x} THEN "Active" ELSE "AwaitingUser"
        /\ M.awaiting = {} <=> L.awaiting = {x}
      BY <1>2, <2>1 DEF GoodLedger, Ledgers, ResolveInteraction
  <2>4. ValidateSnapshot(M)
      BY <2>1, <2>3 DEF ValidateSnapshot, RequireNextForStatus
  <2>5. InteractionResolved(L, x) = Bump(M)
      BY <1>2, <2>1, <2>4 DEF InteractionResolved, Dispatch, ResolveInteractionOk, EnsureCreated
  <2> QED
      BY <2>2, <2>5, RevisionIsApart
<1> QED
    BY <1>1, <1>2

\* An interrupted session awaits nothing.
LEMMA InterruptedAwaitsNothing ==
    ASSUME NEW L, GoodLedger(L)
    PROVE  GoodLedger(RecoveryInterrupted(L)) /\ RecoveryInterrupted(L).awaiting = {}
<1> DEFINE M == Interrupt(L)
<1>1. M \in Ledgers /\ M.awaiting = {} /\ M.status = "Interrupted"
    BY MarkPreInterruptTyped DEF GoodLedger, Ledgers, Interrupt, Statuses
<1>2. GoodLedger(M)
    BY <1>1 DEF GoodLedger, WaitsForUser
<1>3. CASE L.goal # None /\ L.status # "Interrupted"
  <2>1. ValidateSnapshot(M)
      BY <1>1 DEF ValidateSnapshot, RequireNextForStatus
  <2>2. RecoveryInterrupted(L) = Bump(M)
      BY <1>3, <2>1 DEF RecoveryInterrupted, Dispatch, InterruptOk, EnsureCreated
  <2> QED
      BY <1>1, <1>2, <2>2, RevisionIsApart
<1>4. CASE ~ (L.goal # None /\ L.status # "Interrupted")
  <2>1. L.awaiting = {}
      BY <1>4 DEF GoodLedger, WaitsForUser
  <2>2. RecoveryInterrupted(L) = L
      BY <1>4 DEF RecoveryInterrupted, Dispatch
  <2> QED
      BY <2>1, <2>2
<1> QED
    BY <1>3, <1>4

-----------------------------------------------------------------------------
(* The inductive invariant *)

Before == {"new", "hook", "allowed", "denied"}

Reachable == {"registered", "shown", "announced", "waiting"}

\* A request that has not asked is nowhere, and nobody can have answered it.
Untouched(r) ==
    pc[r] \in Before =>
        r \notin pending /\ r \notin waiters /\ channel[r] = None /\ reply[r].accepted = 0

\* The pending entry is the right to answer: it is there only before the one
\* answer, and what reaches the waiter as a grant is that answer.
Answered(r) ==
    /\ reply[r].accepted \in {0, 1}
    /\ r \in pending => reply[r].accepted = 0
    /\ reply[r].accepted = 0 => reply[r].answer = None /\ reply[r].step = "none"
    /\ reply[r].accepted = 1 => reply[r].answer \in Replies
    /\ channel[r] \in Grants => reply[r].answer \in Grants
    /\ pc[r] = "granted" => reply[r].answer \in Grants

\* From its registration to the end of its wait a request has a sender or an
\* answer; after each step of the clean-up it is gone from one more place.
Placed(r) ==
    /\ pc[r] \in Reachable => r \in waiters \/ channel[r] # None
    /\ pc[r] \in {"unwind_pending", "unwind_shown", "unwind_ledger", "cancelled"} => r \notin waiters
    /\ pc[r] \in {"unwind_shown", "unwind_ledger", "cancelled"} => r \notin pending
    /\ pc[r] = "cancelled" => r \notin ledger.awaiting

AbortAtHand == abort.step \in {"remove", "retire", "resolve"} => abort.id \in Requests

\* The tool futures of a run are over before it goes on; a cancelled run has
\* interrupted the ledger when it closes, or the abort is about to.
RunSettled ==
    /\ run # "running" => \A r \in RunRequests : pc[r] \in {"new"} \cup Unwinding \cup Over
    /\ run \in {"closing", "idle"} /\ cancelled /\ abort.step # "interrupt" =>
          ledger.awaiting \cap RunRequests = {}

IndInv ==
    /\ TypeOK
    /\ WaitsForUser(ledger)
    /\ \A r \in Requests : Untouched(r) /\ Answered(r) /\ Placed(r)
    /\ AbortAtHand
    /\ RunSettled
    /\ GrantsWereAnswered

-----------------------------------------------------------------------------
(* The initial states *)

\* The evaluator's checkpoint on a new ledger.
LEMMA EvidencedIsGood ==
    LET L == AddCheckpoint(Governed, "Evaluator", {}, 0) IN GoodLedger(L) /\ L.awaiting = {}
<1> DEFINE new == NewCheckpoint(Governed, "Evaluator", {}, 0)
           L == AddCheckpoint(Governed, "Evaluator", {}, 0)
<1>1. Governed \in Ledgers /\ Governed.verified = <<>> /\ Governed.awaiting = {}
      /\ Governed.goal_generation = 1
    BY GovernedIsGood DEF GoodLedger
<1>2. VerifiedIds(Governed) = {}
    BY <1>1 DEF VerifiedIds
<1>3. NextSequentialId({}) \in Nat
  <2>1. (CHOOSE m \in {} \cup {0} : \A k \in {} \cup {0} : k <= m) = 0
      OBVIOUS
  <2> QED
      BY <2>1 DEF NextSequentialId
<1>4. new \in Checkpoints
    BY <1>1, <1>2, <1>3, SeamsAssumption DEF NewCheckpoint, Checkpoints
<1>5. MarkSuperseded(Governed.verified, 0, new.id) = <<>>
    BY <1>1 DEF MarkSuperseded
<1>6. L = [Governed EXCEPT !.verified = Append(<<>>, new)]
    BY <1>5 DEF AddCheckpoint
<1>7. Append(<<>>, new) \in Seq(Checkpoints)
    BY <1>4
<1>8. L \in Ledgers /\ L.awaiting = {}
    BY <1>1, <1>6, <1>7 DEF Ledgers
<1> QED
    BY <1>8 DEF GoodLedger, WaitsForUser

\* Every ledger a session may start with is good and awaits nothing.
LEMMA StartLedger ==
    ASSUME NEW n \in Ledgers0
    PROVE  GoodLedger(LedgerNamed[n]) /\ LedgerNamed[n].awaiting = {}
<1>1. n \in {"none", "goal", "evidenced"}
    BY RequestsAssumption
<1>2. CASE n = "none"
    BY <1>2, GovernedIsGood DEF LedgerNamed
<1>3. CASE n = "goal"
    BY <1>3, GovernedIsGood DEF LedgerNamed
<1>4. CASE n = "evidenced"
    BY <1>4, EvidencedIsGood DEF LedgerNamed
<1> QED
    BY <1>1, <1>2, <1>3, <1>4

\* Nothing is asked yet, and the ledger waits for nothing.
LEMMA InitInd == Init => IndInv
<1> SUFFICES ASSUME Init PROVE IndInv
    OBVIOUS
<1>1. GoodLedger(ledger) /\ ledger.awaiting = {}
    BY StartLedger DEF Init
<1>2. TypeOK
  <2>1. 0 \in 0..MaxRuns
      BY RequestsAssumption
  <2>2. [step |-> "none", answer |-> None, accepted |-> 0, turn |-> 0] \in
            [step : {"none", "accepted", "sent", "retired", "done"},
             answer : Replies \cup {None}, accepted : Nat, turn : 0..MaxRuns]
      BY <2>1
  <2> QED
      BY <1>1, <2>1, <2>2 DEF Init, TypeOK, GoodLedger, Steps
<1>3. \A r \in Requests : Untouched(r) /\ Answered(r) /\ Placed(r)
    BY RequestsAssumption DEF Init, Untouched, Answered, Placed, Reachable
<1>4. AbortAtHand /\ RunSettled /\ GrantsWereAnswered
    BY <1>1 DEF Init, AbortAtHand, RunSettled, GrantsWereAnswered, Requests
<1> QED
    BY <1>1, <1>2, <1>3, <1>4 DEF IndInv, GoodLedger

-----------------------------------------------------------------------------
(* The steps *)

\* What a seam makes of a good ledger is one, and awaits nothing new but x.
LEMMA SeamsKeep ==
    ASSUME GoodLedger(ledger), NEW x \in Requests
    PROVE  /\ LET L == Unrevised(InteractionAwaiting(ledger, x)) IN
                 GoodLedger(L) /\ L.awaiting \subseteq ledger.awaiting \cup {x}
           /\ LET L == Unrevised(InteractionResolved(ledger, x)) IN
                 GoodLedger(L) /\ L.awaiting = ledger.awaiting \ {x}
<1>1. x \in Interactions
    BY RequestsAssumption
<1>2. GoodLedger(InteractionAwaiting(ledger, x)) /\ GoodLedger(InteractionResolved(ledger, x))
      /\ InteractionAwaiting(ledger, x).awaiting \subseteq ledger.awaiting \cup {x}
      /\ InteractionResolved(ledger, x).awaiting = ledger.awaiting \ {x}
    BY <1>1, AwaitingAdds, ResolvedRemoves
<1> QED
    BY <1>2, RevisionIsApart

\* The beginning and the end of a run leave what is awaited; an abort ends it.
LEMMA RunSeamsKeep ==
    ASSUME GoodLedger(ledger)
    PROVE  /\ LET L == Unrevised(RunStarted(ledger)) IN
                 GoodLedger(L) /\ L.awaiting = ledger.awaiting
           /\ LET L == Unrevised(FinalResponseCommitted(ledger)) IN
                 GoodLedger(L) /\ L.awaiting = ledger.awaiting
           /\ LET L == Unrevised(RecoveryInterrupted(ledger)) IN GoodLedger(L) /\ L.awaiting = {}
BY RunStartedKeeps, FinalResponseKeeps, InterruptedAwaitsNothing, RevisionIsApart

-----------------------------------------------------------------------------
(* A step of a request, a reply, the abort, the run *)

\* The future of a request and its clean-up task keep the invariant.
LEMMA RequestInd ==
    ASSUME IndInv, NEW r \in Requests, RequestStep(r) \/ DropFuture(r)
    PROVE  IndInv'
<1> USE RequestsAssumption DEF IndInv, Goto, engineVars, runVars
<1>1. GoodLedger(ledger)
    BY DEF TypeOK, GoodLedger
<1>2. CASE Evaluate(r)
  <2>1. TypeOK' /\ WaitsForUser(ledger')
      BY <1>1, <1>2 DEF Evaluate, TypeOK, GoodLedger, Steps, Unguarded, Over
  <2>2. \A q \in Requests : Untouched(q)' /\ Answered(q)' /\ Placed(q)'
      BY <1>1, <1>2 DEF Evaluate, TypeOK, Untouched, Answered, Placed, Before, Reachable
  <2>3. AbortAtHand' /\ RunSettled' /\ GrantsWereAnswered'
      BY <1>1, <1>2 DEF Evaluate, TypeOK, AbortAtHand, RunSettled, GrantsWereAnswered, Requests
  <2> QED
      BY <2>1, <2>2, <2>3
<1>3. CASE CommitAsk(r)
  <2>1. TypeOK' /\ WaitsForUser(ledger')
      BY <1>1, <1>3 DEF CommitAsk, TypeOK, Steps, Unguarded, Over
  <2>2. \A q \in Requests : Untouched(q)' /\ Answered(q)' /\ Placed(q)'
      BY <1>1, <1>3 DEF CommitAsk, TypeOK, Untouched, Answered, Placed, Before, Reachable
  <2>3. AbortAtHand' /\ RunSettled' /\ GrantsWereAnswered'
      BY <1>1, <1>3
         DEF CommitAsk, TypeOK, AbortAtHand, RunSettled, GrantsWereAnswered, Requests, Unwinding,
             Over
  <2> QED
      BY <2>1, <2>2, <2>3
<1>4. CASE Register(r)
  <2>1. TypeOK' /\ WaitsForUser(ledger')
      BY <1>1, <1>4 DEF Register, TypeOK, Steps, Unguarded
  <2>2. \A q \in Requests : Untouched(q)' /\ Answered(q)' /\ Placed(q)'
      BY <1>1, <1>4 DEF Register, Untouched, Answered, Placed, Before
  <2>3. AbortAtHand' /\ RunSettled' /\ GrantsWereAnswered'
      BY <1>1, <1>4 DEF Register, AbortAtHand, RunSettled, GrantsWereAnswered, Unwinding, Over
  <2> QED
      BY <2>1, <2>2, <2>3
<1>5. CASE Show(r)
  <2>1. TypeOK' /\ WaitsForUser(ledger')
      BY <1>1, <1>5 DEF Show, TypeOK, Steps, Unguarded
  <2>2. \A q \in Requests : Untouched(q)' /\ Answered(q)' /\ Placed(q)'
      BY <1>1, <1>5 DEF Show, Untouched, Answered, Placed, Before, Reachable
  <2>3. AbortAtHand' /\ RunSettled' /\ GrantsWereAnswered'
      BY <1>1, <1>5 DEF Show, AbortAtHand, RunSettled, GrantsWereAnswered, Unwinding, Over
  <2> QED
      BY <2>1, <2>2, <2>3
<1>6. CASE Announce(r)
  <2>1. TypeOK' /\ WaitsForUser(ledger')
      BY <1>1, <1>6, SeamsKeep DEF Announce, TypeOK, GoodLedger, Steps, Unguarded
  <2>2. \A q \in Requests : Untouched(q)' /\ Answered(q)' /\ Placed(q)'
      BY <1>1, <1>6, SeamsKeep DEF Announce, Untouched, Answered, Placed, Before, Reachable
  <2>3. AbortAtHand' /\ RunSettled' /\ GrantsWereAnswered'
      BY <1>1, <1>6, SeamsKeep
         DEF Announce, AbortAtHand, RunSettled, GrantsWereAnswered, Unwinding, Over
  <2> QED
      BY <2>1, <2>2, <2>3
<1>7. CASE Arm(r)
  <2>1. TypeOK' /\ WaitsForUser(ledger')
      BY <1>1, <1>7 DEF Arm, TypeOK, Steps, Guarded
  <2>2. \A q \in Requests : Untouched(q)' /\ Answered(q)' /\ Placed(q)'
      BY <1>1, <1>7 DEF Arm, Untouched, Answered, Placed, Before, Reachable
  <2>3. AbortAtHand' /\ RunSettled' /\ GrantsWereAnswered'
      BY <1>1, <1>7 DEF Arm, AbortAtHand, RunSettled, GrantsWereAnswered, Unwinding, Over
  <2> QED
      BY <2>1, <2>2, <2>3
<1>8. CASE Receive(r)
  <2>1. TypeOK' /\ WaitsForUser(ledger')
      BY <1>1, <1>8 DEF Receive, TypeOK, Steps, Guarded
  <2>2. \A q \in Requests : Untouched(q)' /\ Answered(q)' /\ Placed(q)'
      BY <1>1, <1>8 DEF Receive, Untouched, Answered, Placed, Before
  <2>3. AbortAtHand' /\ RunSettled' /\ GrantsWereAnswered'
      BY <1>1, <1>8 DEF Receive, AbortAtHand, RunSettled, GrantsWereAnswered, Unwinding, Over
  <2> QED
      BY <2>1, <2>2, <2>3
<1>9. CASE Conclude(r)
  <2>1. TypeOK' /\ WaitsForUser(ledger')
      BY <1>1, <1>9 DEF Conclude, TypeOK, Steps, Over
  <2>2. \A q \in Requests : Untouched(q)' /\ Answered(q)' /\ Placed(q)'
      BY <1>1, <1>9 DEF Conclude, Untouched, Answered, Placed, Before, Reachable
  <2>3. AbortAtHand' /\ RunSettled' /\ GrantsWereAnswered'
      BY <1>1, <1>9 DEF Conclude, AbortAtHand, RunSettled, GrantsWereAnswered, Over
  <2> QED
      BY <2>1, <2>2, <2>3
<1>10. CASE CancelWait(r)
  <2>1. TypeOK' /\ WaitsForUser(ledger')
      BY <1>1, <1>10 DEF CancelWait, TypeOK, Steps, Unwinding
  <2>2. \A q \in Requests : Untouched(q)' /\ Answered(q)' /\ Placed(q)'
      BY <1>1, <1>10 DEF CancelWait, Untouched, Answered, Placed, Before, Reachable
  <2>3. AbortAtHand' /\ RunSettled' /\ GrantsWereAnswered'
      BY <1>1, <1>10 DEF CancelWait, AbortAtHand, RunSettled, GrantsWereAnswered, Unwinding
  <2> QED
      BY <2>1, <2>2, <2>3
<1>11. CASE UnwindWaiter(r)
  <2>1. TypeOK' /\ WaitsForUser(ledger')
      BY <1>1, <1>11 DEF UnwindWaiter, TypeOK, Steps, Unwinding
  <2>2. \A q \in Requests : Untouched(q)' /\ Answered(q)' /\ Placed(q)'
      BY <1>1, <1>11 DEF UnwindWaiter, Untouched, Answered, Placed, Before, Reachable
  <2>3. AbortAtHand' /\ RunSettled' /\ GrantsWereAnswered'
      BY <1>1, <1>11 DEF UnwindWaiter, AbortAtHand, RunSettled, GrantsWereAnswered, Unwinding
  <2> QED
      BY <2>1, <2>2, <2>3
<1>12. CASE UnwindPending(r)
  <2>1. TypeOK' /\ WaitsForUser(ledger')
      BY <1>1, <1>12 DEF UnwindPending, RemovePending, TypeOK, Steps, Unwinding
  <2>2. \A q \in Requests : Untouched(q)' /\ Answered(q)' /\ Placed(q)'
      BY <1>1, <1>12
         DEF UnwindPending, RemovePending, Untouched, Answered, Placed, Before, Reachable
  <2>3. AbortAtHand' /\ RunSettled' /\ GrantsWereAnswered'
      BY <1>1, <1>12 DEF UnwindPending, AbortAtHand, RunSettled, GrantsWereAnswered, Unwinding
  <2> QED
      BY <2>1, <2>2, <2>3
<1>13. CASE UnwindShown(r)
  <2>1. TypeOK' /\ WaitsForUser(ledger')
      BY <1>1, <1>13 DEF UnwindShown, TypeOK, Steps, Unwinding
  <2>2. \A q \in Requests : Untouched(q)' /\ Answered(q)' /\ Placed(q)'
      BY <1>1, <1>13 DEF UnwindShown, Untouched, Answered, Placed, Before, Reachable
  <2>3. AbortAtHand' /\ RunSettled' /\ GrantsWereAnswered'
      BY <1>1, <1>13 DEF UnwindShown, AbortAtHand, RunSettled, GrantsWereAnswered, Unwinding
  <2> QED
      BY <2>1, <2>2, <2>3
<1>14. CASE UnwindLedger(r)
  <2>1. TypeOK' /\ WaitsForUser(ledger')
      BY <1>1, <1>14, SeamsKeep DEF UnwindLedger, TypeOK, GoodLedger, Steps, Over
  <2>2. \A q \in Requests : Untouched(q)' /\ Answered(q)' /\ Placed(q)'
      BY <1>1, <1>14, SeamsKeep DEF UnwindLedger, Untouched, Answered, Placed, Before, Reachable
  <2>3. AbortAtHand' /\ RunSettled' /\ GrantsWereAnswered'
      BY <1>1, <1>14, SeamsKeep
         DEF UnwindLedger, AbortAtHand, RunSettled, GrantsWereAnswered, Over
  <2> QED
      BY <2>1, <2>2, <2>3
<1>15. CASE DropFuture(r)
  <2>1. TypeOK' /\ WaitsForUser(ledger')
      BY <1>1, <1>15 DEF DropFuture, TypeOK, Steps, Unwinding, Over
  <2>2. \A q \in Requests : Untouched(q)' /\ Answered(q)' /\ Placed(q)'
      BY <1>1, <1>15 DEF DropFuture, TypeOK, Untouched, Answered, Placed, Before, Reachable
  <2>3. AbortAtHand' /\ RunSettled' /\ GrantsWereAnswered'
      BY <1>1, <1>15
         DEF DropFuture, TypeOK, AbortAtHand, RunSettled, GrantsWereAnswered, Requests, Unwinding,
             Over
  <2> QED
      BY <2>1, <2>2, <2>3
<1> QED
    BY <1>2, <1>3, <1>4, <1>5, <1>6, <1>7, <1>8, <1>9, <1>10, <1>11, <1>12, <1>13, <1>14, <1>15
       DEF RequestStep

\* reply_permission keeps the invariant.
LEMMA ReplyInd ==
    ASSUME IndInv, NEW r \in Requests, ReplyStep(r) \/ \E a \in Answers : Accept(r, a)
    PROVE  IndInv'
<1> USE RequestsAssumption DEF IndInv, Goto, engineVars, runVars
<1>1. GoodLedger(ledger)
    BY DEF TypeOK, GoodLedger
<1>2. CASE Send(r)
  <2>1. TypeOK' /\ WaitsForUser(ledger')
      BY <1>1, <1>2 DEF Send, TypeOK, Requests
  <2>2. \A q \in Requests : Untouched(q)' /\ Answered(q)' /\ Placed(q)'
      BY <1>1, <1>2 DEF Send, TypeOK, Untouched, Answered, Placed, Replies, Grants
  <2>3. AbortAtHand' /\ RunSettled' /\ GrantsWereAnswered'
      BY <1>1, <1>2 DEF Send, AbortAtHand, RunSettled, GrantsWereAnswered
  <2> QED
      BY <2>1, <2>2, <2>3
<1>3. CASE Retire(r)
  <2>1. TypeOK' /\ WaitsForUser(ledger')
      BY <1>1, <1>3 DEF Retire, TypeOK, Requests
  <2>2. \A q \in Requests : Untouched(q)' /\ Answered(q)' /\ Placed(q)'
      BY <1>1, <1>3 DEF Retire, Untouched, Answered, Placed
  <2>3. AbortAtHand' /\ RunSettled' /\ GrantsWereAnswered'
      BY <1>1, <1>3 DEF Retire, AbortAtHand, RunSettled, GrantsWereAnswered
  <2> QED
      BY <2>1, <2>2, <2>3
<1>4. CASE Resume(r)
  <2>1. TypeOK' /\ WaitsForUser(ledger')
      BY <1>1, <1>4, SeamsKeep DEF Resume, TypeOK, GoodLedger
  <2>2. \A q \in Requests : Untouched(q)' /\ Answered(q)' /\ Placed(q)'
      BY <1>1, <1>4, SeamsKeep DEF Resume, Untouched, Answered, Placed
  <2>3. AbortAtHand' /\ RunSettled' /\ GrantsWereAnswered'
      BY <1>1, <1>4, SeamsKeep DEF Resume, AbortAtHand, RunSettled, GrantsWereAnswered
  <2> QED
      BY <2>1, <2>2, <2>3
<1>5. CASE \E a \in Answers : Accept(r, a)
  <2>1. TypeOK' /\ WaitsForUser(ledger')
      BY <1>1, <1>5 DEF Accept, Respond, TypeOK, Replies, Grants
  <2>2. \A q \in Requests : Untouched(q)' /\ Answered(q)' /\ Placed(q)'
      BY <1>1, <1>5 DEF Accept, Respond, Untouched, Answered, Placed, Replies, Grants
  <2>3. AbortAtHand' /\ RunSettled' /\ GrantsWereAnswered'
      BY <1>1, <1>5
         DEF Accept, Respond, TypeOK, AbortAtHand, RunSettled, GrantsWereAnswered, Answered
  <2> QED
      BY <2>1, <2>2, <2>3
<1> QED
    BY <1>2, <1>3, <1>4, <1>5 DEF ReplyStep

\* abort_session_execution keeps the invariant.
LEMMA AbortInd ==
    ASSUME IndInv, AbortBegin \/ AbortStep
    PROVE  IndInv'
<1> USE RequestsAssumption DEF IndInv, Goto, engineVars, runVars
<1>1. GoodLedger(ledger)
    BY DEF TypeOK, GoodLedger
<1>2. CASE AbortBegin
  <2>1. TypeOK' /\ WaitsForUser(ledger')
      BY <1>1, <1>2 DEF AbortBegin, ClearTurn, TypeOK
  <2>2. \A q \in Requests : Untouched(q)' /\ Answered(q)' /\ Placed(q)'
      BY <1>1, <1>2 DEF AbortBegin, Untouched, Answered, Placed
  <2>3. AbortAtHand' /\ RunSettled' /\ GrantsWereAnswered'
      BY <1>1, <1>2 DEF AbortBegin, ClearTurn, AbortAtHand, RunSettled, GrantsWereAnswered
  <2> QED
      BY <2>1, <2>2, <2>3
<1>3. CASE AbortList
  <2>1. TypeOK' /\ WaitsForUser(ledger')
      BY <1>1, <1>3 DEF AbortList, TypeOK
  <2>2. \A q \in Requests : Untouched(q)' /\ Answered(q)' /\ Placed(q)'
      BY <1>1, <1>3 DEF AbortList, Untouched, Answered, Placed
  <2>3. AbortAtHand' /\ RunSettled' /\ GrantsWereAnswered'
      BY <1>1, <1>3 DEF AbortList, AbortAtHand, RunSettled, GrantsWereAnswered
  <2> QED
      BY <2>1, <2>2, <2>3
<1>4. CASE AbortSend
  <2>1. TypeOK' /\ WaitsForUser(ledger')
    <3>1. channel' \in [Requests -> Replies \cup {None}] /\ waiters' \subseteq Requests
        BY <1>4 DEF AbortSend, TypeOK, Replies
    <3>2. abort' \in [step : {"idle", "list", "each", "remove", "retire", "resolve", "interrupt"},
                      ids : SUBSET Requests, id : Requests \cup {None}, hit : BOOLEAN]
        BY <1>4 DEF AbortSend, TypeOK
    <3> QED
        BY <1>1, <1>4, <3>1, <3>2 DEF AbortSend, TypeOK
  <2>2. \A q \in Requests : Untouched(q)' /\ Answered(q)' /\ Placed(q)'
      BY <1>1, <1>4 DEF AbortSend, TypeOK, Untouched, Answered, Placed, Grants
  <2>3. AbortAtHand' /\ RunSettled' /\ GrantsWereAnswered'
      BY <1>1, <1>4 DEF AbortSend, TypeOK, AbortAtHand, RunSettled, GrantsWereAnswered
  <2> QED
      BY <2>1, <2>2, <2>3
<1>5. CASE AbortRemove
  <2>1. TypeOK' /\ WaitsForUser(ledger')
      BY <1>1, <1>5 DEF AbortRemove, RemovePending, TypeOK
  <2>2. \A q \in Requests : Untouched(q)' /\ Answered(q)' /\ Placed(q)'
      BY <1>1, <1>5 DEF AbortRemove, RemovePending, Untouched, Answered, Placed
  <2>3. AbortAtHand' /\ RunSettled' /\ GrantsWereAnswered'
      BY <1>1, <1>5 DEF AbortRemove, AbortAtHand, RunSettled, GrantsWereAnswered
  <2> QED
      BY <2>1, <2>2, <2>3
<1>6. CASE AbortRetire
  <2>1. TypeOK' /\ WaitsForUser(ledger')
      BY <1>1, <1>6 DEF AbortRetire, TypeOK
  <2>2. \A q \in Requests : Untouched(q)' /\ Answered(q)' /\ Placed(q)'
      BY <1>1, <1>6 DEF AbortRetire, Untouched, Answered, Placed
  <2>3. AbortAtHand' /\ RunSettled' /\ GrantsWereAnswered'
      BY <1>1, <1>6 DEF AbortRetire, AbortAtHand, RunSettled, GrantsWereAnswered
  <2> QED
      BY <2>1, <2>2, <2>3
<1>7. CASE AbortResolve
  <2>4. abort.id \in Requests
      BY <1>7 DEF AbortResolve, AbortAtHand
  <2>5. GoodLedger(ledger') /\ ledger'.awaiting \subseteq ledger.awaiting
      BY <1>1, <1>7, <2>4, SeamsKeep DEF AbortResolve
  <2>1. TypeOK' /\ WaitsForUser(ledger')
      BY <1>7, <2>4, <2>5 DEF AbortResolve, TypeOK, GoodLedger
  <2>2. \A q \in Requests : Untouched(q)' /\ Answered(q)' /\ Placed(q)'
      BY <1>7, <2>4, <2>5 DEF AbortResolve, Untouched, Answered, Placed
  <2>3. AbortAtHand' /\ RunSettled' /\ GrantsWereAnswered'
      BY <1>7, <2>4, <2>5 DEF AbortResolve, AbortAtHand, RunSettled, GrantsWereAnswered
  <2> QED
      BY <2>1, <2>2, <2>3
<1>8. CASE AbortToken
  <2>1. TypeOK' /\ WaitsForUser(ledger')
      BY <1>1, <1>8 DEF AbortToken, TypeOK
  <2>2. \A q \in Requests : Untouched(q)' /\ Answered(q)' /\ Placed(q)'
      BY <1>1, <1>8 DEF AbortToken, Untouched, Answered, Placed
  <2>3. AbortAtHand' /\ GrantsWereAnswered'
      BY <1>8 DEF AbortToken, AbortAtHand, GrantsWereAnswered
  <2>4. abort'.step # "interrupt" => run = "idle" /\ abort.step # "interrupt" /\ cancelled' = cancelled
      BY <1>8 DEF AbortToken, TypeOK
  <2>5. RunSettled'
      BY <1>8, <2>4 DEF AbortToken, RunSettled
  <2> QED
      BY <2>1, <2>2, <2>3, <2>5
<1>9. CASE AbortInterrupt
  <2>1. TypeOK' /\ WaitsForUser(ledger')
      BY <1>1, <1>9, RunSeamsKeep DEF AbortInterrupt, TypeOK, GoodLedger
  <2>2. \A q \in Requests : Untouched(q)' /\ Answered(q)' /\ Placed(q)'
      BY <1>1, <1>9, RunSeamsKeep DEF AbortInterrupt, Untouched, Answered, Placed
  <2>3. AbortAtHand' /\ RunSettled' /\ GrantsWereAnswered'
      BY <1>1, <1>9, RunSeamsKeep DEF AbortInterrupt, AbortAtHand, RunSettled, GrantsWereAnswered
  <2> QED
      BY <2>1, <2>2, <2>3
<1> QED
    BY <1>2, <1>3, <1>4, <1>5, <1>6, <1>7, <1>8, <1>9 DEF AbortStep

\* The run keeps the invariant.
LEMMA RunInd ==
    ASSUME IndInv, BeginRun \/ RunStep
    PROVE  IndInv'
<1> USE RequestsAssumption DEF IndInv, Goto, engineVars, runVars
<1>1. GoodLedger(ledger)
    BY DEF TypeOK, GoodLedger
<1>2. CASE BeginRun
  <2>1. TypeOK' /\ WaitsForUser(ledger')
    <3>1. runs' \in 0..MaxRuns
        BY <1>2 DEF BeginRun, TypeOK
    <3> QED
        BY <1>1, <1>2, <3>1 DEF BeginRun, ClearTurn, TypeOK
  <2>2. \A q \in Requests : Untouched(q)' /\ Answered(q)' /\ Placed(q)'
      BY <1>1, <1>2 DEF BeginRun, Untouched, Answered, Placed
  <2>3. AbortAtHand' /\ RunSettled' /\ GrantsWereAnswered'
      BY <1>1, <1>2 DEF BeginRun, ClearTurn, AbortAtHand, RunSettled, GrantsWereAnswered
  <2> QED
      BY <2>1, <2>2, <2>3
<1>3. CASE StartLedgerRun
  <2>1. TypeOK' /\ WaitsForUser(ledger')
      BY <1>1, <1>3, RunSeamsKeep DEF StartLedgerRun, TypeOK, GoodLedger
  <2>2. \A q \in Requests : Untouched(q)' /\ Answered(q)' /\ Placed(q)'
      BY <1>1, <1>3, RunSeamsKeep DEF StartLedgerRun, Untouched, Answered, Placed
  <2>3. AbortAtHand' /\ RunSettled' /\ GrantsWereAnswered'
      BY <1>1, <1>3, RunSeamsKeep DEF StartLedgerRun, AbortAtHand, RunSettled, GrantsWereAnswered
  <2> QED
      BY <2>1, <2>2, <2>3
<1>4. CASE FinishLoop
  <2>1. TypeOK' /\ WaitsForUser(ledger')
      BY <1>1, <1>4 DEF FinishLoop, TypeOK
  <2>2. \A q \in Requests : Untouched(q)' /\ Answered(q)' /\ Placed(q)'
      BY <1>1, <1>4 DEF FinishLoop, Untouched, Answered, Placed
  <2>3. AbortAtHand' /\ RunSettled' /\ GrantsWereAnswered'
      BY <1>1, <1>4 DEF FinishLoop, AbortAtHand, RunSettled, GrantsWereAnswered
  <2> QED
      BY <2>1, <2>2, <2>3
<1>5. CASE CommitFinal
  <2>1. TypeOK' /\ WaitsForUser(ledger')
      BY <1>1, <1>5, RunSeamsKeep DEF CommitFinal, TypeOK, GoodLedger
  <2>2. \A q \in Requests : Untouched(q)' /\ Answered(q)' /\ Placed(q)'
      BY <1>1, <1>5, RunSeamsKeep DEF CommitFinal, Untouched, Answered, Placed
  <2>3. AbortAtHand' /\ RunSettled' /\ GrantsWereAnswered'
      BY <1>1, <1>5, RunSeamsKeep DEF CommitFinal, AbortAtHand, RunSettled, GrantsWereAnswered
  <2> QED
      BY <2>1, <2>2, <2>3
<1>6. CASE RunTail
  <2>1. TypeOK' /\ WaitsForUser(ledger')
      BY <1>1, <1>6, RunSeamsKeep DEF RunTail, TypeOK, GoodLedger
  <2>2. \A q \in Requests : Untouched(q)' /\ Answered(q)' /\ Placed(q)'
      BY <1>1, <1>6, RunSeamsKeep DEF RunTail, Untouched, Answered, Placed
  <2>3. AbortAtHand' /\ RunSettled' /\ GrantsWereAnswered'
      BY <1>1, <1>6, RunSeamsKeep DEF RunTail, AbortAtHand, RunSettled, GrantsWereAnswered
  <2> QED
      BY <2>1, <2>2, <2>3
<1>7. CASE CloseRun
  <2>1. TypeOK' /\ WaitsForUser(ledger')
      BY <1>1, <1>7 DEF CloseRun, TypeOK
  <2>2. \A q \in Requests : Untouched(q)' /\ Answered(q)' /\ Placed(q)'
      BY <1>1, <1>7 DEF CloseRun, Untouched, Answered, Placed
  <2>3. AbortAtHand' /\ RunSettled' /\ GrantsWereAnswered'
      BY <1>1, <1>7 DEF CloseRun, AbortAtHand, RunSettled, GrantsWereAnswered
  <2> QED
      BY <2>1, <2>2, <2>3
<1> QED
    BY <1>2, <1>3, <1>4, <1>5, <1>6, <1>7 DEF RunStep

\* Every step keeps the invariant.
LEMMA NextInd == IndInv /\ [Next]_vars => IndInv'
<1> SUFFICES ASSUME IndInv, [Next]_vars PROVE IndInv'
    OBVIOUS
<1>1. CASE UNCHANGED vars
  <2>1. TypeOK' /\ WaitsForUser(ledger)'
      BY <1>1 DEF IndInv, vars, TypeOK
  <2>2. \A r \in Requests : Untouched(r)' /\ Answered(r)' /\ Placed(r)'
      BY <1>1 DEF IndInv, vars, Untouched, Answered, Placed
  <2>3. AbortAtHand' /\ RunSettled' /\ GrantsWereAnswered'
      BY <1>1 DEF IndInv, vars, AbortAtHand, RunSettled, GrantsWereAnswered
  <2> QED
      BY <2>1, <2>2, <2>3 DEF IndInv
<1>2. CASE Next
    BY <1>2, RequestInd, ReplyInd, AbortInd, RunInd DEF Next
<1> QED
    BY <1>1, <1>2

\* The inductive invariant holds in every reachable state.
LEMMA Inductive == Spec => []IndInv
BY InitInd, NextInd, PTL DEF Spec

-----------------------------------------------------------------------------
(* The runs' invariants *)

\* A request is answered at most once, a tool that had to ask runs only on that
\* answer, and a grant is in force only in the session or the very turn in which
\* it was given (reply_permission, PermissionEngine).
THEOREM PermissionSoundHolds == Spec => []PermissionSound
<1>1. IndInv => PermissionSound
    BY DEF IndInv, PermissionSound, AnsweredOnce, Answered
<1> QED
    BY <1>1, Inductive, PTL

\* A waiting future has its sender in the table or its answer in the channel, so
\* its receiver never fails (PERMISSION_WAITERS).
THEOREM WaitHasSenderHolds == Spec => []WaitHasSender
<1>1. IndInv => WaitHasSender
    BY DEF IndInv, WaitHasSender, Placed, Reachable
<1> QED
    BY <1>1, Inductive, PTL

\* A cancelled wait is gone from every table, and the ledger awaits no request of
\* a cancelled run that has ended (PendingPermissionGuard, RecoveryInterrupted).
THEOREM NothingIsLeftHolds == Spec => []NothingIsLeft
<1>1. IndInv => CancelledLeavesNothing
    BY DEF IndInv, CancelledLeavesNothing, Placed
<1>2. IndInv => StoppedRunAwaitsNothing
    BY DEF IndInv, StoppedRunAwaitsNothing, RunSettled
<1> QED
    BY <1>1, <1>2, Inductive, PTL DEF NothingIsLeft
=============================================================================
