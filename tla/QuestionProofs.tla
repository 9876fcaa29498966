--------------------------- MODULE QuestionProofs ---------------------------
(***************************************************************************)
(* Theorems about QuestionRendezvous, for all sets of questions and        *)
(* handlers.  The argument is one of ownership: a question's record is the *)
(* right to reply to it.  While the record is there nobody holds that      *)
(* right; whoever takes the record is the only one who holds it, and holds *)
(* it until the sender has been used.                                      *)
(***************************************************************************)
EXTENDS QuestionRendezvous, TLAPS

(* What the seams of the reducer do to the interactions a ledger awaits.    *)
(* One fact about every ledger of the protocol carries it: a ledger that    *)
(* awaits something says so, and could go on.  Without it the reducer's     *)
(* validation may refuse a seam and leave the wait in place.                *)

WaitsForUser(L) ==
    L.awaiting # {} => L.status = "AwaitingUser" /\ L.next # None /\ L.goal # None

\* A ledger of the right type that keeps WaitsForUser.
GoodLedger(L) == L \in Ledgers /\ WaitsForUser(L)

\* The revision says nothing about what is awaited.
LEMMA RevisionIsApart ==
    ASSUME NEW L, GoodLedger(L)
    PROVE  /\ GoodLedger(Bump(L)) /\ Bump(L).awaiting = L.awaiting
           /\ GoodLedger(Unrevised(L)) /\ Unrevised(L).awaiting = L.awaiting
<1>1. \A n \in Nat : GoodLedger([L EXCEPT !.revision = n]) /\ [L EXCEPT !.revision = n].awaiting = L.awaiting
    BY DEF GoodLedger, WaitsForUser, Ledgers
<1>2. L.revision + 1 \in Nat /\ Bump(L) = [L EXCEPT !.revision = L.revision + 1]
    BY DEF GoodLedger, Ledgers, Bump
<1> QED
    BY <1>1, <1>2 DEF Unrevised

\* An interrupt keeps the next action, marked.
LEMMA MarkPreInterruptTyped ==
    ASSUME NEW n \in NextActions \cup {None}
    PROVE  MarkPreInterrupt(n) \in NextActions \cup {None}
BY DEF MarkPreInterrupt, NextActions

\* The ledgers a session may have when a run begins.
LEMMA GovernedIsGood ==
    /\ GoodLedger(EmptyLedger)
    /\ GoodLedger(Governed) /\ Governed.verified = <<>> /\ Governed.goal_generation = 1
    /\ Governed.awaiting = {} /\ EmptyLedger.awaiting = {}
<1> DEFINE s0 == CHOOSE s \in Statements : TRUE
           g0 == [criteria |-> {}, checks |-> {}]
<1>1. s0 \in Statements
    BY SeamsAssumption
<1> HIDE DEF s0
<1>2. g0 \in Goals /\ NextFromStatement(s0) \in NextActions
    BY <1>1 DEF Goals, NextFromStatement, NextActions
<1>3. /\ EmptyLedger \in Ledgers /\ EmptyLedger.awaiting = {} /\ EmptyLedger.verified = <<>>
    BY DEF EmptyLedger, Ledgers, Statuses
<1>4. /\ Governed \in Ledgers
      /\ Governed.awaiting = {} /\ Governed.verified = <<>> /\ Governed.goal_generation = 1
  <2>1. Governed = Create(EmptyLedger, g0, s0)
      BY DEF Governed, s0
  <2> QED
      BY <1>2, <1>3, <2>1 DEF Create, Ledgers, Statuses
<1> QED
    BY <1>3, <1>4 DEF GoodLedger, WaitsForUser

\* A new wait adds itself at most.
LEMMA AwaitingAdds ==
    ASSUME NEW L, GoodLedger(L), NEW x \in Interactions
    PROVE  /\ GoodLedger(InteractionAwaiting(L, x))
           /\ InteractionAwaiting(L, x).awaiting \subseteq L.awaiting \cup {x}
<1> DEFINE M == SetAwaiting(L, x)
<1>1. CASE InteractionAwaiting(L, x) = L
    BY <1>1
<1>2. CASE SetAwaitingOk(L) /\ InteractionAwaiting(L, x) = Bump(M)
  <2>1. L.goal # None /\ L.next # None
      BY <1>2 DEF SetAwaitingOk, EnsureCreated, RequireNextForStatus
  <2>2. GoodLedger(M) /\ M.awaiting = L.awaiting \cup {x}
      BY <2>1 DEF GoodLedger, WaitsForUser, Ledgers, SetAwaiting, SetStatus, Statuses
  <2> QED
      BY <1>2, <2>2, RevisionIsApart
<1> QED
    BY <1>1, <1>2 DEF InteractionAwaiting, Dispatch

\* What is resolved is awaited no more: the reducer never refuses it, because
\* the ledger either keeps waiting for something else or has a next action.
LEMMA ResolvedRemoves ==
    ASSUME NEW L, GoodLedger(L), NEW x
    PROVE  /\ GoodLedger(InteractionResolved(L, x))
           /\ InteractionResolved(L, x).awaiting = L.awaiting \ {x}
<1> DEFINE M == ResolveInteraction(L, x)
<1>1. CASE x \notin L.awaiting
    BY <1>1 DEF InteractionResolved, Dispatch, ResolveInteractionOk
<1>2. CASE x \in L.awaiting
  <2>1. L.status = "AwaitingUser" /\ L.next # None /\ L.goal # None
      BY <1>2 DEF GoodLedger, WaitsForUser
  <2>2. GoodLedger(M) /\ M.awaiting = L.awaiting \ {x}
      BY <1>2, <2>1 DEF GoodLedger, WaitsForUser, Ledgers, ResolveInteraction, Statuses
  <2>3. /\ M.next = L.next
        /\ M.status = IF L.awaiting = {x} THEN "Active" ELSE "AwaitingUser"
        /\ M.awaiting = {} <=> L.awaiting = {x}
      BY <1>2, <2>1 DEF GoodLedger, Ledgers, ResolveInteraction
  <2>4. ValidateSnapshot(M)
      BY <2>1, <2>3 DEF ValidateSnapshot, RequireNextForStatus
  <2>5. InteractionResolved(L, x) = Bump(M)
      BY <1>2, <2>1, <2>4 DEF InteractionResolved, Dispatch, ResolveInteractionOk, EnsureCreated
  <2> QED
      BY <2>2, <2>5, RevisionIsApart
<1> QED
    BY <1>1, <1>2

\* An interrupted session awaits nothing.
LEMMA InterruptedAwaitsNothing ==
    ASSUME NEW L, GoodLedger(L)
    PROVE  GoodLedger(RecoveryInterrupted(L)) /\ RecoveryInterrupted(L).awaiting = {}
<1> DEFINE M == Interrupt(L)
<1>1. M \in Ledgers /\ M.awaiting = {} /\ M.status = "Interrupted"
    BY MarkPreInterruptTyped DEF GoodLedger, Ledgers, Interrupt, Statuses
<1>2. GoodLedger(M)
    BY <1>1 DEF GoodLedger, WaitsForUser
<1>3. CASE L.goal # None /\ L.status # "Interrupted"
  <2>1. ValidateSnapshot(M)
      BY <1>1 DEF ValidateSnapshot, RequireNextForStatus
  <2>2. RecoveryInterrupted(L) = Bump(M)
      BY <1>3, <2>1 DEF RecoveryInterrupted, Dispatch, InterruptOk, EnsureCreated
  <2> QED
      BY <1>1, <1>2, <2>2, RevisionIsApart
<1>4. CASE ~ (L.goal # None /\ L.status # "Interrupted")
  <2>1. L.awaiting = {}
      BY <1>4 DEF GoodLedger, WaitsForUser
  <2>2. RecoveryInterrupted(L) = L
      BY <1>4 DEF RecoveryInterrupted, Dispatch
  <2> QED
      BY <2>1, <2>2
<1> QED
    BY <1>3, <1>4

-----------------------------------------------------------------------------
(* The inductive invariant *)

HandlerHolds(h, q) == reply[h].step = "taken" /\ reply[h].id = q

AbortHolds(q) == abort.step = "taken" /\ abort.id = q

Held(q) == (\E h \in Handlers : HandlerHolds(h, q)) \/ AbortHolds(q) \/ pc[q] = "cancelling"

\* Nobody shares the right to reply.
OneHolder(q) ==
    /\ \A h, g \in Handlers : HandlerHolds(h, q) /\ HandlerHolds(g, q) => h = g
    /\ \A h \in Handlers : HandlerHolds(h, q) => ~ AbortHolds(q) /\ pc[q] # "cancelling"
    /\ AbortHolds(q) => pc[q] # "cancelling"

\* The record or its holder comes with an unused sender; before the question is
\* published there is neither.
Owned(q) ==
    /\ q \in waiters => channel[q] = None
    /\ records[q] # None => q \in waiters /\ ~ Held(q)
    /\ Held(q) => q \in waiters /\ records[q] = None
    /\ pc[q] = "new" => q \notin waiters /\ channel[q] = None
    /\ pc[q] = "registered" => q \in waiters
    /\ pc[q] \in {"new", "registered"} => records[q] = None /\ ~ Held(q)

\* A tool that waits has a sender and somebody who may use it, or a reply.
Answerable(q) ==
    /\ pc[q] \in {"published", "shown", "waiting", "draining"} /\ channel[q] = None =>
          q \in waiters /\ (records[q] # None \/ Held(q))
    /\ pc[q] = "cancelled" => channel[q] # None

Settled(q) == pc[q] = "done" => q \notin ledger.awaiting

HandlerInv(h) ==
    /\ reply[h].step # "idle" => reply[h].id \in Asked /\ reply[h].kind \in Kinds
    /\ reply[h].step \in {"sent", "done"} => channel[reply[h].id] = reply[h].kind

\* What the end of the run has done so far.
EndInv ==
    /\ abort.step = "taken" => abort.id \in Asked
    /\ run # "running" => \A q \in Asked : pc[q] \in Over \cup {"new"}
    /\ run = "retired" => \A q \in Asked : records[q] \in {"Done", None}
    /\ run \in {"cleaned", "ended"} => \A q \in Asked : records[q] = None
    /\ run = "ended" => shown = None

IndInv ==
    /\ TypeOK
    /\ WaitsForUser(ledger)
    /\ \A q \in Asked : OneHolder(q) /\ Owned(q) /\ Answerable(q) /\ Settled(q)
    /\ \A h \in Handlers : HandlerInv(h)
    /\ EndInv

-----------------------------------------------------------------------------
(* The initial state *)

\* Nothing has been asked when the run begins.
LEMMA InitInd == Init => IndInv
<1> SUFFICES ASSUME Init PROVE IndInv
    OBVIOUS
<1>1. GoodLedger(ledger) /\ ledger.awaiting = {}
    BY GovernedIsGood DEF Init
<1>2. TypeOK
    BY <1>1 DEF Init, TypeOK, GoodLedger, Steps
<1>3. \A q \in Asked : OneHolder(q) /\ Owned(q) /\ Answerable(q) /\ Settled(q)
    BY DEF Init, OneHolder, Owned, Answerable, Settled, Held, HandlerHolds, AbortHolds
<1>4. (\A h \in Handlers : HandlerInv(h)) /\ EndInv
    BY DEF Init, HandlerInv, EndInv
<1> QED
    BY <1>1, <1>2, <1>3, <1>4 DEF IndInv, GoodLedger

-----------------------------------------------------------------------------
(* A step of a tool, a handler, the abort, the end of the run *)

\* What the seams make of the ledger is a good ledger, and awaits nothing new
\* but the question announced.
LEMMA SeamsKeep ==
    ASSUME GoodLedger(ledger), NEW x \in Asked
    PROVE  /\ LET L == Unrevised(InteractionAwaiting(ledger, x)) IN
                 GoodLedger(L) /\ L.awaiting \subseteq ledger.awaiting \cup {x}
           /\ LET L == Unrevised(InteractionResolved(ledger, x)) IN
                 GoodLedger(L) /\ L.awaiting = ledger.awaiting \ {x}
<1>1. x \in Interactions
    BY AskedAssumption
<1>2. GoodLedger(InteractionAwaiting(ledger, x)) /\ GoodLedger(InteractionResolved(ledger, x))
      /\ InteractionAwaiting(ledger, x).awaiting \subseteq ledger.awaiting \cup {x}
      /\ InteractionResolved(ledger, x).awaiting = ledger.awaiting \ {x}
    BY <1>1, AwaitingAdds, ResolvedRemoves
<1> QED
    BY <1>2, RevisionIsApart

\* An interrupt leaves a good ledger that awaits nothing.
LEMMA InterruptKeeps ==
    ASSUME GoodLedger(ledger)
    PROVE  LET L == Unrevised(RecoveryInterrupted(ledger)) IN GoodLedger(L) /\ L.awaiting = {}
BY InterruptedAwaitsNothing, RevisionIsApart

\* The tool that asks keeps the invariant.
LEMMA WaitInd ==
    ASSUME IndInv, NEW q \in Asked, Wait(q) \/ Drop(q)
    PROVE  IndInv'
<1> USE AskedAssumption DEF IndInv, Goto, registryVars, runVars
<1>1. GoodLedger(ledger)
    BY DEF TypeOK, GoodLedger
<1>2. CASE Register(q)
  <2>1. TypeOK' /\ WaitsForUser(ledger')
      BY <1>1, <1>2 DEF Register, InsertWaiter, TypeOK, Steps
  <2>2. \A p \in Asked : OneHolder(p)' /\ Owned(p)' /\ Answerable(p)' /\ Settled(p)'
      BY <1>1, <1>2
         DEF Register, InsertWaiter, TypeOK, OneHolder, Owned, Answerable, Settled, Held,
             HandlerHolds, AbortHolds
  <2>3. (\A g \in Handlers : HandlerInv(g)') /\ EndInv'
      BY <1>1, <1>2 DEF Register, InsertWaiter, HandlerInv, EndInv
  <2> QED
      BY <2>1, <2>2, <2>3
<1>3. CASE Publish(q)
  <2>1. TypeOK' /\ WaitsForUser(ledger')
      BY <1>1, <1>3 DEF Publish, UpsertRecord, TypeOK, Steps
  <2>2. \A p \in Asked : OneHolder(p)' /\ Owned(p)' /\ Answerable(p)' /\ Settled(p)'
      BY <1>1, <1>3
         DEF Publish, UpsertRecord, TypeOK, OneHolder, Owned, Answerable, Settled, Held,
             HandlerHolds, AbortHolds
  <2>3. (\A g \in Handlers : HandlerInv(g)') /\ EndInv'
      BY <1>1, <1>3 DEF Publish, UpsertRecord, HandlerInv, EndInv, Over
  <2> QED
      BY <2>1, <2>2, <2>3
<1>4. CASE QuestionCreated(q)
  <2>1. TypeOK' /\ WaitsForUser(ledger')
      BY <1>1, <1>4 DEF QuestionCreated, TypeOK, Steps
  <2>2. \A p \in Asked : OneHolder(p)' /\ Owned(p)' /\ Answerable(p)' /\ Settled(p)'
      BY <1>1, <1>4
         DEF QuestionCreated, OneHolder, Owned, Answerable, Settled, Held, HandlerHolds,
             AbortHolds
  <2>3. (\A g \in Handlers : HandlerInv(g)') /\ EndInv'
      BY <1>1, <1>4 DEF QuestionCreated, HandlerInv, EndInv, Over
  <2> QED
      BY <2>1, <2>2, <2>3
<1>5. CASE Announce(q)
  <2>1. TypeOK' /\ WaitsForUser(ledger')
      BY <1>1, <1>5, SeamsKeep DEF Announce, TypeOK, GoodLedger, Steps
  <2>2. \A p \in Asked : OneHolder(p)' /\ Owned(p)' /\ Answerable(p)' /\ Settled(p)'
      BY <1>1, <1>5, SeamsKeep
         DEF Announce, OneHolder, Owned, Answerable, Settled, Held, HandlerHolds, AbortHolds
  <2>3. (\A g \in Handlers : HandlerInv(g)') /\ EndInv'
      BY <1>1, <1>5, SeamsKeep DEF Announce, HandlerInv, EndInv, Over
  <2> QED
      BY <2>1, <2>2, <2>3
<1>6. CASE Receive(q)
  <2>1. TypeOK' /\ WaitsForUser(ledger')
      BY <1>1, <1>6 DEF Receive, TypeOK, Steps
  <2>2. \A p \in Asked : OneHolder(p)' /\ Owned(p)' /\ Answerable(p)' /\ Settled(p)'
      BY <1>1, <1>6
         DEF Receive, OneHolder, Owned, Answerable, Settled, Held, HandlerHolds, AbortHolds
  <2>3. (\A g \in Handlers : HandlerInv(g)') /\ EndInv'
      BY <1>1, <1>6 DEF Receive, HandlerInv, EndInv, Over
  <2> QED
      BY <2>1, <2>2, <2>3
<1>7. CASE SeeAbort(q)
  <2>1. TypeOK' /\ WaitsForUser(ledger')
      BY <1>1, <1>7 DEF SeeAbort, Take, TypeOK, Steps
  <2>2. \A p \in Asked : OneHolder(p)' /\ Owned(p)' /\ Answerable(p)' /\ Settled(p)'
      BY <1>1, <1>7
         DEF SeeAbort, Take, TypeOK, OneHolder, Owned, Answerable, Settled, Held, HandlerHolds,
             AbortHolds
  <2>3. (\A g \in Handlers : HandlerInv(g)') /\ EndInv'
      BY <1>1, <1>7 DEF SeeAbort, Take, HandlerInv, EndInv, Over
  <2> QED
      BY <2>1, <2>2, <2>3
<1>8. CASE CancelOwn(q)
  <2>1. TypeOK' /\ WaitsForUser(ledger')
      BY <1>1, <1>8 DEF CancelOwn, Send, Kinds, TypeOK, Steps
  <2>2. \A p \in Asked : OneHolder(p)' /\ Owned(p)' /\ Answerable(p)' /\ Settled(p)'
      BY <1>1, <1>8
         DEF CancelOwn, Send, Kinds, TypeOK, OneHolder, Owned, Answerable, Settled, Held,
             HandlerHolds, AbortHolds
  <2>3. (\A g \in Handlers : HandlerInv(g)') /\ EndInv'
      BY <1>1, <1>8 DEF CancelOwn, Send, HandlerInv, EndInv, Owned, Over
  <2> QED
      BY <2>1, <2>2, <2>3
<1>9. CASE ResolveOwn(q)
  <2>1. TypeOK' /\ WaitsForUser(ledger')
      BY <1>1, <1>9 DEF ResolveOwn, TypeOK, Steps
  <2>2. \A p \in Asked : OneHolder(p)' /\ Owned(p)' /\ Answerable(p)' /\ Settled(p)'
      BY <1>1, <1>9
         DEF ResolveOwn, OneHolder, Owned, Answerable, Settled, Held, HandlerHolds, AbortHolds
  <2>3. (\A g \in Handlers : HandlerInv(g)') /\ EndInv'
      BY <1>1, <1>9 DEF ResolveOwn, HandlerInv, EndInv, Over
  <2> QED
      BY <2>1, <2>2, <2>3
<1>10. CASE Finish(q)
  <2>1. TypeOK' /\ WaitsForUser(ledger')
      BY <1>1, <1>10, SeamsKeep DEF Finish, TypeOK, GoodLedger, Steps, Over
  <2>2. \A p \in Asked : OneHolder(p)' /\ Owned(p)' /\ Answerable(p)' /\ Settled(p)'
      BY <1>1, <1>10, SeamsKeep
         DEF Finish, OneHolder, Owned, Answerable, Settled, Held, HandlerHolds, AbortHolds
  <2>3. (\A g \in Handlers : HandlerInv(g)') /\ EndInv'
      BY <1>1, <1>10, SeamsKeep DEF Finish, HandlerInv, EndInv, Over
  <2> QED
      BY <2>1, <2>2, <2>3
<1>11. CASE Drop(q)
  <2>1. TypeOK' /\ WaitsForUser(ledger')
      BY <1>1, <1>11 DEF Drop, TypeOK, Steps, Over
  <2>2. \A p \in Asked : OneHolder(p)' /\ Owned(p)' /\ Answerable(p)' /\ Settled(p)'
      BY <1>1, <1>11
         DEF Drop, OneHolder, Owned, Answerable, Settled, Held, HandlerHolds, AbortHolds
  <2>3. (\A g \in Handlers : HandlerInv(g)') /\ EndInv'
      BY <1>1, <1>11 DEF Drop, HandlerInv, EndInv
  <2> QED
      BY <2>1, <2>2, <2>3
<1> QED
    BY <1>2, <1>3, <1>4, <1>5, <1>6, <1>7, <1>8, <1>9, <1>10, <1>11 DEF Wait

\* A handler keeps the invariant: it holds what it has taken.
LEMMA ReplyInd ==
    ASSUME IndInv, NEW h \in Handlers, Reply(h) \/ \E q \in Asked, kind \in Kinds : TakeReply(h, q, kind)
    PROVE  IndInv'
<1> USE AskedAssumption DEF IndInv, Goto, registryVars, runVars
<1>1. GoodLedger(ledger)
    BY DEF TypeOK, GoodLedger
<1>2. CASE SendReply(h)
  <2>1. TypeOK' /\ WaitsForUser(ledger')
      BY <1>1, <1>2 DEF SendReply, Send, TypeOK, GoodLedger, Steps, Over
  <2>2. \A p \in Asked : OneHolder(p)' /\ Owned(p)' /\ Answerable(p)' /\ Settled(p)'
      BY <1>1, <1>2
         DEF SendReply, Send, TypeOK, OneHolder, Owned, Answerable, Settled, Held, HandlerHolds,
             AbortHolds, HandlerInv
  <2>3. (\A g \in Handlers : HandlerInv(g)') /\ EndInv'
      BY <1>1, <1>2 DEF SendReply, Send, TypeOK, HandlerInv, EndInv, Owned, Held, HandlerHolds
  <2> QED
      BY <2>1, <2>2, <2>3
<1>3. CASE Resolve(h)
  <2>1. TypeOK' /\ WaitsForUser(ledger')
      BY <1>1, <1>3 DEF Resolve, TypeOK
  <2>2. \A p \in Asked : OneHolder(p)' /\ Owned(p)' /\ Answerable(p)' /\ Settled(p)'
      BY <1>1, <1>3
         DEF Resolve, OneHolder, Owned, Answerable, Settled, Held, HandlerHolds, AbortHolds
  <2>3. (\A g \in Handlers : HandlerInv(g)') /\ EndInv'
      BY <1>1, <1>3 DEF Resolve, HandlerInv, EndInv
  <2> QED
      BY <2>1, <2>2, <2>3
<1>4. CASE \E q \in Asked, kind \in Kinds : TakeReply(h, q, kind)
  <2>1. TypeOK' /\ WaitsForUser(ledger')
      BY <1>1, <1>4 DEF TakeReply, Take, TypeOK
  <2>2. \A p \in Asked : OneHolder(p)' /\ Owned(p)' /\ Answerable(p)' /\ Settled(p)'
      BY <1>1, <1>4
         DEF TakeReply, Take, TypeOK, OneHolder, Owned, Answerable, Settled, Held, HandlerHolds,
             AbortHolds
  <2>3. (\A g \in Handlers : HandlerInv(g)') /\ EndInv'
      BY <1>1, <1>4 DEF TakeReply, Take, HandlerInv, EndInv
  <2> QED
      BY <2>1, <2>2, <2>3
<1> QED
    BY <1>2, <1>3, <1>4 DEF Reply

\* abort_session_execution keeps the invariant.
LEMMA AbortInd ==
    ASSUME IndInv, AbortLists \/ Abort
    PROVE  IndInv'
<1> USE AskedAssumption DEF IndInv, Goto, registryVars, runVars
<1>1. GoodLedger(ledger)
    BY DEF TypeOK, GoodLedger
<1>2. CASE AbortLists
  <2>1. TypeOK' /\ WaitsForUser(ledger')
      BY <1>1, <1>2 DEF AbortLists, TypeOK
  <2>2. \A p \in Asked : OneHolder(p)' /\ Owned(p)' /\ Answerable(p)' /\ Settled(p)'
      BY <1>1, <1>2
         DEF AbortLists, OneHolder, Owned, Answerable, Settled, Held, HandlerHolds, AbortHolds
  <2>3. (\A g \in Handlers : HandlerInv(g)') /\ EndInv'
      BY <1>1, <1>2 DEF AbortLists, HandlerInv, EndInv
  <2> QED
      BY <2>1, <2>2, <2>3
<1>3. CASE \E q \in Asked : AbortTakes(q)
  <2> PICK q \in Asked : AbortTakes(q)
      BY <1>3
  <2>1. CASE Take(q) /\ abort' = [abort EXCEPT !.step = "taken", !.ids = @ \ {q}, !.id = q]
    <3>1. TypeOK' /\ WaitsForUser(ledger')
        BY <1>1, <2>1 DEF AbortTakes, Take, TypeOK
    <3>2. \A p \in Asked : OneHolder(p)' /\ Owned(p)' /\ Answerable(p)' /\ Settled(p)'
        BY <2>1
           DEF AbortTakes, Take, TypeOK, OneHolder, Owned, Answerable, Settled, Held,
               HandlerHolds, AbortHolds
    <3>3. (\A g \in Handlers : HandlerInv(g)') /\ EndInv'
        BY <2>1 DEF AbortTakes, Take, HandlerInv, EndInv
    <3> QED
        BY <3>1, <3>2, <3>3
  <2>2. CASE records[q] = None /\ abort' = [abort EXCEPT !.ids = @ \ {q}] /\ UNCHANGED registryVars
    <3>1. TypeOK' /\ WaitsForUser(ledger')
        BY <1>1, <2>2 DEF AbortTakes, TypeOK
    <3>2. \A p \in Asked : OneHolder(p)' /\ Owned(p)' /\ Answerable(p)' /\ Settled(p)'
        BY <2>2
           DEF AbortTakes, OneHolder, Owned, Answerable, Settled, Held, HandlerHolds, AbortHolds
    <3>3. (\A g \in Handlers : HandlerInv(g)') /\ EndInv'
        BY <2>2 DEF AbortTakes, HandlerInv, EndInv
    <3> QED
        BY <3>1, <3>2, <3>3
  <2> QED
      BY <2>1, <2>2 DEF AbortTakes
<1>4. CASE AbortSends
  <2>1. TypeOK' /\ WaitsForUser(ledger')
      BY <1>1, <1>4 DEF AbortSends, Send, Kinds, TypeOK
  <2>2. \A p \in Asked : OneHolder(p)' /\ Owned(p)' /\ Answerable(p)' /\ Settled(p)'
      BY <1>1, <1>4
         DEF AbortSends, Send, Kinds, TypeOK, OneHolder, Owned, Answerable, Settled, Held,
             HandlerHolds, AbortHolds
  <2>3. (\A g \in Handlers : HandlerInv(g)') /\ EndInv'
      BY <1>1, <1>4 DEF AbortSends, Send, HandlerInv, EndInv, Owned
  <2> QED
      BY <2>1, <2>2, <2>3
<1>5. CASE AbortResolves
  <2>1. TypeOK' /\ WaitsForUser(ledger')
      BY <1>1, <1>5 DEF AbortResolves, TypeOK
  <2>2. \A p \in Asked : OneHolder(p)' /\ Owned(p)' /\ Answerable(p)' /\ Settled(p)'
      BY <1>1, <1>5
         DEF AbortResolves, OneHolder, Owned, Answerable, Settled, Held, HandlerHolds, AbortHolds
  <2>3. (\A g \in Handlers : HandlerInv(g)') /\ EndInv'
      BY <1>1, <1>5 DEF AbortResolves, HandlerInv, EndInv
  <2> QED
      BY <2>1, <2>2, <2>3
<1>6. CASE AbortCancels
  <2>1. TypeOK' /\ WaitsForUser(ledger')
      BY <1>1, <1>6 DEF AbortCancels, TypeOK
  <2>2. \A p \in Asked : OneHolder(p)' /\ Owned(p)' /\ Answerable(p)' /\ Settled(p)'
      BY <1>1, <1>6
         DEF AbortCancels, OneHolder, Owned, Answerable, Settled, Held, HandlerHolds, AbortHolds
  <2>3. (\A g \in Handlers : HandlerInv(g)') /\ EndInv'
      BY <1>1, <1>6 DEF AbortCancels, HandlerInv, EndInv
  <2> QED
      BY <2>1, <2>2, <2>3
<1>7. CASE AbortInterrupts
  <2>1. TypeOK' /\ WaitsForUser(ledger')
      BY <1>1, <1>7, InterruptKeeps DEF AbortInterrupts, TypeOK, GoodLedger
  <2>2. \A p \in Asked : OneHolder(p)' /\ Owned(p)' /\ Answerable(p)' /\ Settled(p)'
      BY <1>1, <1>7, InterruptKeeps
         DEF AbortInterrupts, OneHolder, Owned, Answerable, Settled, Held, HandlerHolds,
             AbortHolds
  <2>3. (\A g \in Handlers : HandlerInv(g)') /\ EndInv'
      BY <1>1, <1>7, InterruptKeeps DEF AbortInterrupts, HandlerInv, EndInv
  <2> QED
      BY <2>1, <2>2, <2>3
<1> QED
    BY <1>2, <1>3, <1>4, <1>5, <1>6, <1>7 DEF Abort

\* The end of the run keeps the invariant.
LEMMA EndInd ==
    ASSUME IndInv, EndRun
    PROVE  IndInv'
<1> USE AskedAssumption DEF IndInv, Goto, registryVars, runVars
<1>1. GoodLedger(ledger)
    BY DEF TypeOK, GoodLedger
<1>2. CASE Retire
  <2>1. TypeOK' /\ WaitsForUser(ledger')
      BY <1>1, <1>2 DEF Retire, TypeOK
  <2>2. \A p \in Asked : OneHolder(p)' /\ Owned(p)' /\ Answerable(p)' /\ Settled(p)'
      BY <1>1, <1>2
         DEF Retire, OneHolder, Owned, Answerable, Settled, Held, HandlerHolds, AbortHolds
  <2>3. (\A g \in Handlers : HandlerInv(g)') /\ EndInv'
      BY <1>1, <1>2 DEF Retire, HandlerInv, EndInv
  <2> QED
      BY <2>1, <2>2, <2>3
<1>3. CASE Cleanup
  <2>1. TypeOK' /\ WaitsForUser(ledger')
      BY <1>1, <1>3 DEF Cleanup, TypeOK
  <2>2. \A p \in Asked : OneHolder(p)' /\ Owned(p)' /\ Answerable(p)' /\ Settled(p)'
      BY <1>1, <1>3
         DEF Cleanup, OneHolder, Owned, Answerable, Settled, Held, HandlerHolds, AbortHolds,
             EndInv, Over
  <2>3. (\A g \in Handlers : HandlerInv(g)') /\ EndInv'
      BY <1>1, <1>3 DEF Cleanup, HandlerInv, EndInv
  <2> QED
      BY <2>1, <2>2, <2>3
<1>4. CASE MarkIdle
  <2>1. TypeOK' /\ WaitsForUser(ledger')
      BY <1>1, <1>4 DEF MarkIdle, TypeOK
  <2>2. \A p \in Asked : OneHolder(p)' /\ Owned(p)' /\ Answerable(p)' /\ Settled(p)'
      BY <1>1, <1>4
         DEF MarkIdle, OneHolder, Owned, Answerable, Settled, Held, HandlerHolds, AbortHolds
  <2>3. (\A g \in Handlers : HandlerInv(g)') /\ EndInv'
      BY <1>1, <1>4 DEF MarkIdle, HandlerInv, EndInv
  <2> QED
      BY <2>1, <2>2, <2>3
<1> QED
    BY <1>2, <1>3, <1>4 DEF EndRun

\* Every step keeps the invariant.
LEMMA NextInd == IndInv /\ [Next]_vars => IndInv'
<1> SUFFICES ASSUME IndInv, [Next]_vars PROVE IndInv'
    OBVIOUS
<1>1. CASE UNCHANGED vars
  <2>1. TypeOK' /\ WaitsForUser(ledger)'
      BY <1>1 DEF IndInv, vars, TypeOK
  <2>2. \A q \in Asked : OneHolder(q)' /\ Owned(q)' /\ Answerable(q)' /\ Settled(q)'
      BY <1>1
         DEF IndInv, vars, OneHolder, Owned, Answerable, Settled, Held, HandlerHolds, AbortHolds
  <2>3. (\A h \in Handlers : HandlerInv(h)') /\ EndInv'
      BY <1>1 DEF IndInv, vars, HandlerInv, EndInv
  <2> QED
      BY <2>1, <2>2, <2>3 DEF IndInv
<1>2. CASE Next
    BY <1>2, WaitInd, ReplyInd, AbortInd, EndInd DEF Next
<1> QED
    BY <1>1, <1>2

\* The inductive invariant holds in every reachable state.
LEMMA Inductive == Spec => []IndInv
BY InitInd, NextInd, PTL DEF Spec

-----------------------------------------------------------------------------
(* The runs' invariants *)

\* A tool that waits can be replied to, and what a handler reports as accepted is
\* what the tool is sent, whoever else replies, cancels or aborts
\* (register_question, take_question, answer_question).
THEOREM QuestionSoundHolds == Spec => []QuestionSound
<1>1. IndInv => QuestionIsAnswerable
  <2> SUFFICES ASSUME IndInv, NEW q \in Asked, pc[q] \in {"waiting", "draining"}, channel[q] = None
               PROVE  q \in waiters /\ (records[q] # None \/ Repliers(q) # {})
      BY DEF QuestionIsAnswerable
  <2>1. q \in waiters /\ (records[q] # None \/ Held(q))
      BY DEF IndInv, Answerable
  <2>2. Held(q) => Repliers(q) # {}
      BY DEF Held, HandlerHolds, AbortHolds, Repliers
  <2> QED
      BY <2>1, <2>2
<1>2. IndInv => AcceptedReplyIsSent
    BY DEF IndInv, AcceptedReplyIsSent, HandlerInv
<1> QED
    BY <1>1, <1>2, Inductive, PTL DEF IndInv, QuestionSound

\* A run that has ended leaves no question in the registry or on the screen, and
\* the ledger awaits no question whose tool has its result (finish_scheduler_run,
\* the interaction seams).
THEOREM NothingIsAskedHolds == Spec => []NothingIsAsked
<1>1. IndInv => EndedRunAsksNothing /\ AnsweredIsNotAwaited
    BY DEF IndInv, EndInv, Settled, EndedRunAsksNothing, AnsweredIsNotAwaited
<1> QED
    BY <1>1, Inductive, PTL DEF NothingIsAsked
=============================================================================
