---------------------------- MODULE PluginProofs ----------------------------
(***************************************************************************)
(* Theorems about PluginHost, for any finite set of callers and any        *)
(* threshold and bounds.  Three arguments: rpc_lock has one owner, and the *)
(* owner's request id is its own, so every frame with that id is for it;   *)
(* reconnect ends a host before it starts the next; and the failures in    *)
(* the breaker's window plus the hooks that have passed it never exceed    *)
(* what an untripped breaker allows.                                       *)
(***************************************************************************)
EXTENDS PluginHost, Integers, FiniteSetTheorems, SequenceTheorems, TLAPS

Pcs == {"idle", "lock", "write", "again", "read", "after", "heal", "init", "start"}

FrameKinds == Kinds \cup {"initialize", "cancel", "ok", "error", "end", "progress", "body"}

Frames == [id : Nat, kind : FrameKinds, to : Callers]

\* The frames that may be in a pipe: a cancel, or one whose id has been issued
\* and, if it is the id of the call that owns rpc_lock, that is for its caller.
Addressed(m) ==
  m.kind # "cancel" =>
    m.id < nextId /\ (rpc # None /\ m.id = call[rpc].id => m.to = rpc)

InPipe == {m \in Frames : Addressed(m)}

Work == {m \in InPipe : m.kind # "cancel"}

Calls == [pc : Pcs, kind : Kinds \cup {None}, id : Nat, result : Results,
          got : Callers \cup {None}]

Hosts == [gen : Nat \ {0}, inbox : Seq(InPipe), running : Work \cup {None},
          active : SUBSET Nat, out : Seq(InPipe), ready : BOOLEAN, hung : BOOLEAN,
          torn : BOOLEAN]

\* What the client keeps has its type.
ClientTyped ==
  /\ call \in [Callers -> Calls]
  /\ rpc \in Callers \cup {None} /\ stream \in {None, rpc} /\ nextId \in Nat \ {0}
  /\ failures \in Seq(BOOLEAN)
  /\ tracked \in [Callers -> Nat] /\ cancel \in [Callers -> Nat]

\* The pipes of the host hold such frames; no process but the current host's lives.
HostTyped ==
  /\ host \in Hosts
  /\ procs \subseteq {host.gen}
  /\ reg \subseteq 1 .. host.gen

Owning == {"write", "again", "read", "heal", "init"}

\* rpc_lock is with the call that writes, reads or heals, or with a stream's
\* task, which goes on with the id of its call.
Locked(c) ==
  /\ call[c].pc \in Owning => rpc = c /\ stream = None
  /\ call[c].pc = "start" => stream = c
  /\ rpc = c => (call[c].pc \in Owning \/ stream = c) /\ call[c].id # 0
  /\ call[c].pc # "idle" => call[c].kind \in Kinds
  /\ call[c].id < nextId
  /\ call[c].result \in {"ok", "error"} => call[c].got = c

HooksUnderWay == {c \in Callers : call[c].kind = "hook"}

\* A window as long as the threshold was filled by a failure that tripped the
\* breaker; who passed it before that can still add one failure each.
Breaker ==
  /\ Len(failures) >= Threshold => failures[Len(failures)]
  /\ Len(failures) + Cardinality(HooksUnderWay) <= Threshold - 1 + Cardinality(Callers)

IndInv == ClientTyped /\ HostTyped /\ (\A c \in Callers : Locked(c)) /\ Breaker

-----------------------------------------------------------------------------
(* Calls, pipes and the breaker *)

\* What c's call is after a step, the other calls being as they were.
Becomes(c, pc, kind, id, result, got) ==
  /\ call' \in [Callers -> Calls]
  /\ call'[c] = [pc |-> pc, kind |-> kind, id |-> id, result |-> result, got |-> got]
  /\ \A d \in Callers \ {c} : call'[d] = call[d]

\* The two ways in which most steps change a call.
LEMMA CallBecomes ==
  ASSUME call \in [Callers -> Calls], NEW c \in Callers
  PROVE  /\ \A p \in Pcs : Goto(c, p) =>
                Becomes(c, p, call[c].kind, call[c].id, call[c].result, call[c].got)
         /\ \A r \in Results, to \in Callers \cup {None} :
                call' = [call EXCEPT ![c].pc = "after", ![c].result = r, ![c].got = to] =>
                Becomes(c, "after", call[c].kind, call[c].id, r, to)
<1>1. ASSUME NEW p \in Pcs, Goto(c, p)
      PROVE  Becomes(c, p, call[c].kind, call[c].id, call[c].result, call[c].got)
    BY <1>1 DEF Goto, Becomes, Calls
<1>2. ASSUME NEW r \in Results, NEW to \in Callers \cup {None},
             call' = [call EXCEPT ![c].pc = "after", ![c].result = r, ![c].got = to]
      PROVE  Becomes(c, "after", call[c].kind, call[c].id, r, to)
    BY <1>2 DEF Becomes, Calls, Pcs
<1> QED
    BY <1>1, <1>2

\* No more is asked of a frame when ids and lock stay, or the lock is released.
LEMMA SameFrames ==
  ASSUME nextId' = nextId, rpc' \in {rpc, None},
         rpc' # None => call'[rpc].id = call[rpc].id
  PROVE  InPipe \subseteq InPipe'
BY DEF InPipe, Addressed

\* A host whose pipes hold frames of before a step is well typed after it.
LEMMA HostKeeps ==
  ASSUME InPipe \subseteq InPipe', host' \in Hosts, procs' \subseteq {host'.gen},
         reg' \subseteq 1 .. host'.gen
  PROVE  HostTyped'
<1>1. Work \subseteq Work'
    BY DEF Work
<1>2. ASSUME NEW q \in Seq(InPipe) PROVE q \in Seq(InPipe')
    BY SeqMonotonic
<1>3. host' \in Hosts'
    BY <1>1, <1>2 DEF Hosts
<1> QED
    BY <1>3 DEF HostTyped

\* A frame is taken off the pipe.
LEMMA HostRead ==
  ASSUME host \in Hosts, host.out # <<>>
  PROVE  /\ Head(host.out) \in InPipe
         /\ [host EXCEPT !.out = Tail(@)] \in Hosts
         /\ [host EXCEPT !.out = Tail(@)].gen = host.gen
         /\ [host EXCEPT !.torn = TRUE, !.out = Tail(@)] \in Hosts
         /\ [host EXCEPT !.torn = TRUE, !.out = Tail(@)].gen = host.gen
<1>1. Head(host.out) \in InPipe /\ Tail(host.out) \in Seq(InPipe)
    BY HeadTailProperties DEF Hosts
<1> QED
    BY <1>1 DEF Hosts

\* A process that ends, and one whose output is thrown away.
LEMMA HostEnds ==
  ASSUME NEW h \in Hosts
  PROVE  /\ [h EXCEPT !.inbox = <<>>, !.running = None, !.active = {}, !.hung = FALSE] \in Hosts
         /\ [h EXCEPT !.inbox = <<>>, !.running = None, !.active = {}, !.hung = FALSE].gen = h.gen
         /\ [h EXCEPT !.out = <<>>] \in Hosts /\ [h EXCEPT !.out = <<>>].gen = h.gen
<1>1. <<>> \in Seq(InPipe)
    OBVIOUS
<1> QED
    BY <1>1 DEF Hosts

\* The hooks under way are finitely many.
LEMMA HooksFinite ==
  ASSUME NEW S \in SUBSET Callers
  PROVE  IsFiniteSet(S) /\ Cardinality(S) \in Nat /\ Cardinality(S) <= Cardinality(Callers)
         /\ Cardinality(Callers) \in Nat
BY PluginAssumption, FS_Subset, FS_CardinalityType

\* The bound holds as long as neither failures nor hooks are added.
LEMMA BreakerStays ==
  ASSUME ClientTyped, Breaker, failures' = failures, HooksUnderWay' \subseteq HooksUnderWay
  PROVE  Breaker'
<1>1. HooksUnderWay \in SUBSET Callers /\ HooksUnderWay' \in SUBSET HooksUnderWay
    BY DEF HooksUnderWay
<1>2. Cardinality(HooksUnderWay') <= Cardinality(HooksUnderWay)
    BY <1>1, HooksFinite, FS_Subset
<1>3. Cardinality(HooksUnderWay) \in Nat /\ Cardinality(HooksUnderWay') \in Nat
      /\ Cardinality(Callers) \in Nat /\ Len(failures) \in Nat /\ Threshold \in Nat
    BY <1>1, HooksFinite, PluginAssumption, LenProperties DEF ClientTyped
<1> QED
    BY <1>2, <1>3 DEF Breaker

\* Steps that change nothing but c's call, the lock and the stream's owner.
LEMMA CallMoves ==
  ASSUME IndInv, NEW c \in Callers, NEW pc, NEW kind, NEW id, NEW result, NEW got,
         Becomes(c, pc, kind, id, result, got), kind \in {call[c].kind, None},
         failures' = failures
  PROVE  Breaker'
<1>1. HooksUnderWay' \subseteq HooksUnderWay
    BY PluginAssumption DEF Becomes, HooksUnderWay, Kinds
<1> QED
    BY <1>1, BreakerStays DEF IndInv

-----------------------------------------------------------------------------
(* A step of a caller, a cancel, the host, the breaker's window, the reaper *)

\* Steps that move a call along, or end it without an answer.
LEMMA MoveInd ==
  ASSUME IndInv, NEW c \in Callers,
         \/ WriteFails(c) \/ WriteExpires(c) \/ ReadMessage(c) \/ GotGarbage(c) \/ GotEof(c)
         \/ Expire(c) \/ LaunchFails(c) \/ Initialized(c) \/ InitializeFails(c) \/ StartExpires(c)
  PROVE  IndInv'
<1> USE PluginAssumption DEF IndInv, At, Is
<1>0. call \in [Callers -> Calls] /\ Locked(c) /\ host \in Hosts
    BY DEF ClientTyped, HostTyped
<1>1. CASE WriteFails(c)
  <2>1. Becomes(c, "after", call[c].kind, call[c].id, "dead", None)
      BY <1>0, <1>1, CallBecomes DEF WriteFails, Return, Pcs, Results
  <2>2. ClientTyped'
      BY <1>0, <1>1, <2>1 DEF WriteFails, Return, Becomes, ClientTyped, Locked, Owning
  <2>3. InPipe \subseteq InPipe'
      BY <1>0, <1>1, <2>1, SameFrames DEF WriteFails, Return, Becomes, ClientTyped, Locked, Owning
  <2>4. host' \in Hosts /\ procs' \subseteq {host'.gen} /\ reg' \subseteq 1 .. host'.gen
      BY <1>0, <1>1 DEF WriteFails, Return, HostTyped, Hosts
  <2>5. \A d \in Callers : Locked(d)'
      BY <1>0, <1>1, <2>1 DEF WriteFails, Return, Becomes, ClientTyped, Locked, Owning
  <2>6. Breaker'
      BY <1>1, <2>1, CallMoves DEF WriteFails, Return
  <2> QED
      BY <2>2, <2>3, <2>4, <2>5, <2>6, HostKeeps
<1>2. CASE WriteExpires(c)
  <2>1. Becomes(c, "after", call[c].kind, call[c].id, "timeout", None)
      BY <1>0, <1>2, CallBecomes DEF WriteExpires, Return, Pcs, Results
  <2>2. ClientTyped'
      BY <1>0, <1>2, <2>1 DEF WriteExpires, Return, Becomes, ClientTyped, Locked, Owning
  <2>3. InPipe \subseteq InPipe'
      BY <1>0, <1>2, <2>1, SameFrames DEF WriteExpires, Return, Becomes, ClientTyped, Locked, Owning
  <2>4. host' \in Hosts /\ procs' \subseteq {host'.gen} /\ reg' \subseteq 1 .. host'.gen
      BY <1>0, <1>2 DEF WriteExpires, Return, HostTyped, Hosts
  <2>5. \A d \in Callers : Locked(d)'
      BY <1>0, <1>2, <2>1 DEF WriteExpires, Return, Becomes, ClientTyped, Locked, Owning
  <2>6. Breaker'
      BY <1>2, <2>1, CallMoves DEF WriteExpires, Return
  <2> QED
      BY <2>2, <2>3, <2>4, <2>5, <2>6, HostKeeps
<1>3. CASE ReadMessage(c)
  <2>1. Becomes(c, "read", call[c].kind, call[c].id, call[c].result, call[c].got)
      BY <1>0, <1>3, CallBecomes DEF ReadMessage, Pcs, Results
  <2>2. ClientTyped'
      BY <1>0, <1>3, <2>1 DEF ReadMessage, Becomes, ClientTyped, Locked, Owning
  <2>3. InPipe \subseteq InPipe'
      BY <1>0, <1>3, <2>1, SameFrames DEF ReadMessage, Becomes, ClientTyped, Locked, Owning
  <2>4. host' \in Hosts /\ procs' \subseteq {host'.gen} /\ reg' \subseteq 1 .. host'.gen
      BY <1>0, <1>3 DEF ReadMessage, HostTyped, Hosts
  <2>5. \A d \in Callers : Locked(d)'
      BY <1>0, <1>3, <2>1 DEF ReadMessage, Becomes, ClientTyped, Locked, Owning
  <2>6. Breaker'
      BY <1>3, <2>1, CallMoves DEF ReadMessage
  <2> QED
      BY <2>2, <2>3, <2>4, <2>5, <2>6, HostKeeps
<1>4. CASE GotGarbage(c)
  <2>1. Becomes(c, "after", call[c].kind, call[c].id, "protocol", None)
      BY <1>0, <1>4, CallBecomes DEF GotGarbage, Return, Pcs, Results
  <2>2. ClientTyped'
      BY <1>0, <1>4, <2>1 DEF GotGarbage, Return, Becomes, ClientTyped, Locked, Owning
  <2>3. InPipe \subseteq InPipe'
      BY <1>0, <1>4, <2>1, SameFrames DEF GotGarbage, Return, Becomes, ClientTyped, Locked, Owning
  <2>4. host' \in Hosts /\ procs' \subseteq {host'.gen} /\ reg' \subseteq 1 .. host'.gen
      BY <1>0, <1>4, HostRead DEF GotGarbage, HostTyped
  <2>5. \A d \in Callers : Locked(d)'
      BY <1>0, <1>4, <2>1 DEF GotGarbage, Return, Becomes, ClientTyped, Locked, Owning
  <2>6. Breaker'
      BY <1>4, <2>1, CallMoves DEF GotGarbage, Return
  <2> QED
      BY <2>2, <2>3, <2>4, <2>5, <2>6, HostKeeps
<1>5. CASE GotEof(c)
  <2>1. Becomes(c, "after", call[c].kind, call[c].id, "dead", None)
      BY <1>0, <1>5, CallBecomes DEF GotEof, Return, Pcs, Results
  <2>2. ClientTyped'
      BY <1>0, <1>5, <2>1 DEF GotEof, Return, Becomes, ClientTyped, Locked, Owning
  <2>3. InPipe \subseteq InPipe'
      BY <1>0, <1>5, <2>1, SameFrames DEF GotEof, Return, Becomes, ClientTyped, Locked, Owning
  <2>4. host' \in Hosts /\ procs' \subseteq {host'.gen} /\ reg' \subseteq 1 .. host'.gen
      BY <1>0, <1>5 DEF GotEof, Return, HostTyped, Hosts
  <2>5. \A d \in Callers : Locked(d)'
      BY <1>0, <1>5, <2>1 DEF GotEof, Return, Becomes, ClientTyped, Locked, Owning
  <2>6. Breaker'
      BY <1>5, <2>1, CallMoves DEF GotEof, Return
  <2> QED
      BY <2>2, <2>3, <2>4, <2>5, <2>6, HostKeeps
<1>6. CASE Expire(c)
  <2>1. Becomes(c, "heal", call[c].kind, call[c].id, call[c].result, call[c].got)
      BY <1>0, <1>6, CallBecomes DEF Expire, Pcs, Results
  <2>2. ClientTyped'
      BY <1>0, <1>6, <2>1 DEF Expire, Becomes, ClientTyped, Locked, Owning
  <2>3. InPipe \subseteq InPipe'
      BY <1>0, <1>6, <2>1, SameFrames DEF Expire, Becomes, ClientTyped, Locked, Owning
  <2>4. host' \in Hosts /\ procs' \subseteq {host'.gen} /\ reg' \subseteq 1 .. host'.gen
      BY <1>0, <1>6 DEF Expire, HostTyped, Hosts
  <2>5. \A d \in Callers : Locked(d)'
      BY <1>0, <1>6, <2>1 DEF Expire, Becomes, ClientTyped, Locked, Owning
  <2>6. Breaker'
      BY <1>6, <2>1, CallMoves DEF Expire
  <2> QED
      BY <2>2, <2>3, <2>4, <2>5, <2>6, HostKeeps
<1>7. CASE LaunchFails(c)
  <2>1. Becomes(c, "after", call[c].kind, call[c].id, "timeout", None)
      BY <1>0, <1>7, CallBecomes DEF LaunchFails, Return, Pcs, Results
  <2>2. ClientTyped'
      BY <1>0, <1>7, <2>1 DEF LaunchFails, Return, Becomes, ClientTyped, Locked, Owning
  <2>3. InPipe \subseteq InPipe'
      BY <1>0, <1>7, <2>1, SameFrames DEF LaunchFails, Return, Becomes, ClientTyped, Locked, Owning
  <2>4. host' \in Hosts /\ procs' \subseteq {host'.gen} /\ reg' \subseteq 1 .. host'.gen
      BY <1>0, <1>7, HostEnds DEF LaunchFails, Kill, HostTyped
  <2>5. \A d \in Callers : Locked(d)'
      BY <1>0, <1>7, <2>1 DEF LaunchFails, Return, Becomes, ClientTyped, Locked, Owning
  <2>6. Breaker'
      BY <1>7, <2>1, CallMoves DEF LaunchFails, Return
  <2> QED
      BY <2>2, <2>3, <2>4, <2>5, <2>6, HostKeeps
<1>8. CASE Initialized(c)
  <2>1. Becomes(c, "after", call[c].kind, call[c].id, "timeout", None)
      BY <1>0, <1>8, CallBecomes DEF Initialized, Return, Pcs, Results
  <2>2. ClientTyped'
      BY <1>0, <1>8, <2>1 DEF Initialized, Return, Becomes, ClientTyped, Locked, Owning
  <2>3. InPipe \subseteq InPipe'
      BY <1>0, <1>8, <2>1, SameFrames DEF Initialized, Return, Becomes, ClientTyped, Locked, Owning
  <2>4. host' \in Hosts /\ procs' \subseteq {host'.gen} /\ reg' \subseteq 1 .. host'.gen
    <3>1. host' \in Hosts /\ host'.gen = host.gen /\ procs' = procs /\ reg' = reg \cup {host.gen}
        BY <1>0, <1>8, HostRead DEF Initialized
    <3>2. host.gen \in 1 .. host.gen
        BY <1>0 DEF Hosts
    <3> QED
        BY <3>1, <3>2 DEF HostTyped
  <2>5. \A d \in Callers : Locked(d)'
      BY <1>0, <1>8, <2>1 DEF Initialized, Return, Becomes, ClientTyped, Locked, Owning
  <2>6. Breaker'
      BY <1>8, <2>1, CallMoves DEF Initialized, Return
  <2> QED
      BY <2>2, <2>3, <2>4, <2>5, <2>6, HostKeeps
<1>9. CASE InitializeFails(c)
  <2>1. Becomes(c, "after", call[c].kind, call[c].id, "timeout", None)
      BY <1>0, <1>9, CallBecomes DEF InitializeFails, Return, Pcs, Results
  <2>2. ClientTyped'
      BY <1>0, <1>9, <2>1 DEF InitializeFails, Return, Becomes, ClientTyped, Locked, Owning
  <2>3. InPipe \subseteq InPipe'
      BY <1>0, <1>9, <2>1, SameFrames DEF InitializeFails, Return, Becomes, ClientTyped, Locked, Owning
  <2>4. host' \in Hosts /\ procs' \subseteq {host'.gen} /\ reg' \subseteq 1 .. host'.gen
      BY <1>0, <1>9, HostEnds DEF InitializeFails, HostTyped
  <2>5. \A d \in Callers : Locked(d)'
      BY <1>0, <1>9, <2>1 DEF InitializeFails, Return, Becomes, ClientTyped, Locked, Owning
  <2>6. Breaker'
      BY <1>9, <2>1, CallMoves DEF InitializeFails, Return
  <2> QED
      BY <2>2, <2>3, <2>4, <2>5, <2>6, HostKeeps
<1>10. CASE StartExpires(c)
  <2>1. Becomes(c, "after", call[c].kind, call[c].id, "timeout", call[c].got)
    <3>1. /\ call[c] \in Calls
          /\ call' = [call EXCEPT ![c].pc = "after", ![c].result = "timeout",
                                  ![c].got = call[c].got]
        BY <1>0, <1>10 DEF StartExpires, Calls
    <3> QED
        BY <1>0, <3>1, CallBecomes DEF Calls, Results
  <2>2. ClientTyped'
      BY <1>0, <1>10, <2>1 DEF StartExpires, Becomes, ClientTyped, Locked, Owning
  <2>3. InPipe \subseteq InPipe'
      BY <1>0, <1>10, <2>1, SameFrames DEF StartExpires, Becomes, ClientTyped, Locked, Owning
  <2>4. host' \in Hosts /\ procs' \subseteq {host'.gen} /\ reg' \subseteq 1 .. host'.gen
      BY <1>0, <1>10 DEF StartExpires, HostTyped, Hosts
  <2>5. \A d \in Callers : Locked(d)'
      BY <1>0, <1>10, <2>1 DEF StartExpires, Becomes, ClientTyped, Locked, Owning
  <2>6. Breaker'
      BY <1>10, <2>1, CallMoves DEF StartExpires
  <2> QED
      BY <2>2, <2>3, <2>4, <2>5, <2>6, HostKeeps
<1> QED
    BY <1>1, <1>2, <1>3, <1>4, <1>5, <1>6, <1>7, <1>8, <1>9, <1>10

\* A hook begins only while the breaker is closed, hence while the window is
\* shorter than the threshold.
LEMMA BeginInd ==
  ASSUME IndInv, NEW c \in Callers, NEW kind \in Kinds, Begin(c, kind)
  PROVE  IndInv'
<1> USE PluginAssumption DEF IndInv, At, Is
<1>0. call \in [Callers -> Calls] /\ Locked(c) /\ host \in Hosts
    BY DEF ClientTyped, HostTyped
<1>1. CASE call' = call
  <2>1. ClientTyped' /\ (\A d \in Callers : Locked(d)')
      BY <1>0, <1>1 DEF Begin, ClientTyped, Locked
  <2>2. InPipe \subseteq InPipe'
      BY <1>1, SameFrames DEF Begin
  <2>3. HostTyped'
      BY <2>2, HostKeeps DEF Begin, HostTyped
  <2>4. Breaker'
      BY <1>1, BreakerStays DEF Begin, HooksUnderWay
  <2> QED
      BY <2>1, <2>3, <2>4
<1>2. CASE /\ call' = [call EXCEPT ![c].pc = "lock", ![c].kind = kind]
           /\ ~ (kind = "hook" /\ IsTripped)
  <2>1. Becomes(c, "lock", kind, call[c].id, call[c].result, call[c].got)
      BY <1>0, <1>2 DEF Becomes, Calls, Pcs
  <2>2. ClientTyped'
      BY <2>1 DEF Begin, Becomes, ClientTyped
  <2>3. InPipe \subseteq InPipe'
      BY <2>1, SameFrames DEF Begin, Becomes, ClientTyped
  <2>4. HostTyped'
      BY <2>3, HostKeeps DEF Begin, HostTyped
  <2>5. \A d \in Callers : Locked(d)'
      BY <1>0, <2>1 DEF Begin, Becomes, ClientTyped, Locked, Owning
  <2>6. Breaker'
    <3>1. CASE kind # "hook"
      <4>1. HooksUnderWay' \subseteq HooksUnderWay
          BY <2>1, <3>1 DEF Becomes, HooksUnderWay
      <4> QED
          BY <4>1, BreakerStays DEF Begin
    <3>2. CASE kind = "hook"
      <4>1. Len(failures) \in Nat /\ DOMAIN failures = 1 .. Len(failures)
          BY LenProperties DEF ClientTyped
      <4>2. Len(failures) < Threshold
          BY <1>2, <3>2, <4>1 DEF IsTripped, Breaker
      <4>3. HooksUnderWay' \in SUBSET Callers
          BY DEF HooksUnderWay
      <4>4. /\ Cardinality(HooksUnderWay') \in Nat /\ Cardinality(Callers) \in Nat
            /\ Cardinality(HooksUnderWay') <= Cardinality(Callers)
          BY <4>3, HooksFinite
      <4>5. failures' = failures /\ Threshold \in Nat
          BY DEF Begin
      <4> QED
          BY <4>1, <4>2, <4>4, <4>5 DEF Breaker
    <3> QED
        BY <3>1, <3>2
  <2> QED
      BY <2>2, <2>4, <2>5, <2>6
<1> QED
    BY <1>1, <1>2 DEF Begin

\* The lock comes with a new id, which no frame has.
LEMMA LockInd ==
  ASSUME IndInv, NEW c \in Callers, Lock(c)
  PROVE  IndInv'
<1> USE PluginAssumption DEF IndInv, At, Is
<1>0. call \in [Callers -> Calls] /\ Locked(c) /\ host \in Hosts
    BY DEF ClientTyped, HostTyped
<1>1. Becomes(c, "write", call[c].kind, nextId, call[c].result, call[c].got)
    BY <1>0 DEF Lock, Becomes, Calls, Pcs, ClientTyped
<1>2. ClientTyped'
    BY <1>1 DEF Lock, NextId, Becomes, ClientTyped
<1>3. InPipe \subseteq InPipe'
  <2> SUFFICES ASSUME NEW m \in Frames, Addressed(m) PROVE Addressed(m)'
      BY DEF InPipe
  <2>1. m.id \in Nat /\ nextId \in Nat /\ nextId' = nextId + 1 /\ rpc' = c /\ call'[c].id = nextId
      BY <1>1 DEF Frames, ClientTyped, Lock, NextId, Becomes
  <2> QED
      BY <2>1 DEF Addressed
<1>4. HostTyped'
    BY <1>3, HostKeeps DEF Lock, HostTyped
<1>5. \A d \in Callers : Locked(d)'
  <2> SUFFICES ASSUME NEW d \in Callers PROVE Locked(d)'
      OBVIOUS
  <2>1. /\ rpc = None /\ stream = None /\ rpc' = c /\ stream' = None
        /\ nextId' = nextId + 1 /\ nextId \in Nat \ {0}
      BY DEF Lock, NextId, ClientTyped
  <2>2. CASE d = c
      BY <1>0, <1>1, <2>1, <2>2 DEF Lock, Becomes, Locked, Owning
  <2>3. CASE d # c
    <3>1. call'[d] = call[d] /\ Locked(d) /\ call[d].id \in Nat
        BY <1>1, <2>3 DEF Becomes, ClientTyped, Calls
    <3> QED
        BY <2>1, <2>3, <3>1 DEF Locked, Owning
  <2> QED
      BY <2>2, <2>3
<1>6. Breaker'
    BY <1>1, CallMoves DEF Lock
<1> QED
    BY <1>2, <1>4, <1>5, <1>6

\* The request written has the id of the call that owns the lock.
LEMMA WriteInd ==
  ASSUME IndInv, NEW c \in Callers, Write(c)
  PROVE  IndInv'
<1> USE PluginAssumption DEF IndInv, At, Is
<1>0. call \in [Callers -> Calls] /\ Locked(c) /\ host \in Hosts
    BY DEF ClientTyped, HostTyped
<1> DEFINE m == Message(c, call[c].kind, call[c].id)
           p == IF call[c].kind = "stream" THEN "start" ELSE "again"
<1>1. Becomes(c, p, call[c].kind, call[c].id, call[c].result, call[c].got)
    BY <1>0, CallBecomes DEF Write, Pcs
<1>2. rpc = c /\ stream = None /\ call[c].kind \in Kinds /\ call[c].id < nextId /\ call[c].id \in Nat
    BY <1>0 DEF Write, Locked, Owning, Calls
<1>3. ClientTyped'
    BY <1>1, <1>2 DEF Write, Becomes, ClientTyped
<1>4. InPipe \subseteq InPipe'
    BY <1>1, <1>2, SameFrames DEF Write, Becomes
<1>5. m \in InPipe
    BY <1>2 DEF Message, InPipe, Addressed, Frames, FrameKinds
<1>6. Append(host.inbox, m) \in Seq(InPipe)
    BY <1>0, <1>5 DEF Hosts
<1>7. host' \in Hosts /\ host'.gen = host.gen /\ procs' = procs /\ reg' = reg
    BY <1>0, <1>6 DEF Write, Hosts
<1>8. HostTyped'
    BY <1>4, <1>7, HostKeeps DEF HostTyped
<1>9. \A d \in Callers : Locked(d)'
    BY <1>0, <1>1, <1>2 DEF Write, Becomes, ClientTyped, Locked, Owning
<1>10. Breaker'
    BY <1>1, CallMoves DEF Write
<1> QED
    BY <1>3, <1>8, <1>9, <1>10

\* The answer taken has the id of the call that owns the lock, so it is its own.
LEMMA GotMessageInd ==
  ASSUME IndInv, NEW c \in Callers, GotMessage(c)
  PROVE  IndInv'
<1> USE PluginAssumption DEF IndInv, At, Is
<1>0. call \in [Callers -> Calls] /\ Locked(c) /\ host \in Hosts
    BY DEF ClientTyped, HostTyped
<1> DEFINE m == Head(host.out)
<1>1. m \in InPipe /\ host' \in Hosts /\ host'.gen = host.gen /\ procs' = procs /\ reg' = reg
    BY <1>0, HostRead DEF GotMessage
<1>2. rpc = c /\ stream = None
    BY <1>0 DEF GotMessage, Locked, Owning
<1>3. CASE Answers(m, c)
  <2>1. m.to = c /\ m.kind \in Results /\ m.to \in Callers
      BY <1>1, <1>2, <1>3 DEF Answers, InPipe, Addressed, Frames, Results
  <2>2. Becomes(c, "after", call[c].kind, call[c].id, m.kind, c) /\ rpc' = None
      BY <1>0, <1>3, <2>1, CallBecomes DEF GotMessage, Return
  <2>3. ClientTyped'
      BY <1>2, <2>2 DEF GotMessage, Becomes, ClientTyped
  <2>4. HostTyped'
      BY <1>1, <2>2, SameFrames, HostKeeps DEF GotMessage, HostTyped
  <2>5. \A d \in Callers : Locked(d)'
      BY <1>0, <1>2, <2>2 DEF GotMessage, Becomes, ClientTyped, Locked, Owning
  <2>6. Breaker'
      BY <2>2, CallMoves DEF GotMessage
  <2> QED
      BY <2>3, <2>4, <2>5, <2>6
<1>4. CASE ~ Answers(m, c)
  <2>1. Becomes(c, "again", call[c].kind, call[c].id, call[c].result, call[c].got) /\ rpc' = rpc
      BY <1>0, <1>4, CallBecomes DEF GotMessage, Pcs
  <2>2. ClientTyped'
      BY <2>1 DEF GotMessage, Becomes, ClientTyped
  <2>3. InPipe \subseteq InPipe'
      BY <1>2, <2>1, SameFrames DEF GotMessage, Becomes
  <2>4. HostTyped'
      BY <1>1, <2>3, HostKeeps DEF HostTyped
  <2>5. \A d \in Callers : Locked(d)'
      BY <1>0, <1>2, <2>1 DEF GotMessage, Becomes, ClientTyped, Locked, Owning
  <2>6. Breaker'
      BY <2>1, CallMoves DEF GotMessage
  <2> QED
      BY <2>2, <2>4, <2>5, <2>6
<1> QED
    BY <1>3, <1>4

\* A call that has returned, or is dropped: a stream's task keeps its id.
LEMMA IdleBecomes ==
  ASSUME IndInv, NEW c \in Callers, call' = [call EXCEPT ![c] = Idle(LastId(c))]
  PROVE  /\ Becomes(c, "idle", None, LastId(c), None, None)
         /\ LastId(c) \in Nat /\ LastId(c) < nextId
         /\ stream = c => LastId(c) = call[c].id
<1>1. call \in [Callers -> Calls] /\ Locked(c) /\ nextId \in Nat \ {0}
    BY DEF IndInv, ClientTyped
<1>2. LastId(c) \in Nat /\ LastId(c) < nextId /\ (stream = c => LastId(c) = call[c].id)
    BY <1>1 DEF LastId, Calls, Locked
<1>3. Idle(LastId(c)) \in Calls
    BY <1>2 DEF Idle, Calls, Pcs, Results
<1>4. call' \in [Callers -> Calls] /\ call'[c] = Idle(LastId(c))
      /\ \A d \in Callers \ {c} : call'[d] = call[d]
    BY <1>1, <1>3
<1> QED
    BY <1>2, <1>4 DEF Becomes, Idle

\* A hook that reports its timeout is not under way any more.
LEMMA FailureRecorded ==
  ASSUME IndInv, NEW c \in Callers, call[c].kind = "hook", RecordFailure,
         Becomes(c, "idle", None, LastId(c), None, None)
  PROVE  Breaker' /\ failures' \in Seq(BOOLEAN)
<1> USE PluginAssumption
<1>1. failures \in Seq(BOOLEAN) /\ Len(failures) \in Nat /\ Threshold \in Nat
    BY LenProperties DEF IndInv, ClientTyped
<1>2. /\ failures' \in Seq(BOOLEAN) /\ Len(failures') = Len(failures) + 1
      /\ failures'[Len(failures) + 1] = (Len(failures) + 1 >= Threshold)
    BY <1>1 DEF RecordFailure
<1>3. HooksUnderWay' = HooksUnderWay \ {c} /\ c \in HooksUnderWay /\ HooksUnderWay \in SUBSET Callers
    BY DEF Becomes, HooksUnderWay, Kinds
<1>4. Cardinality(HooksUnderWay') = Cardinality(HooksUnderWay) - 1
    BY <1>3, HooksFinite, FS_RemoveElement
<1>5. Cardinality(HooksUnderWay) \in Nat /\ Cardinality(Callers) \in Nat
    BY <1>3, HooksFinite
<1> QED
    BY <1>1, <1>2, <1>4, <1>5 DEF IndInv, Breaker

\* A success empties the window.
LEMMA SuccessRecorded ==
  ASSUME RecordSuccess
  PROVE  Breaker' /\ failures' \in Seq(BOOLEAN)
<1>1. failures' = <<>> /\ Len(failures') = 0
    BY DEF RecordSuccess
<1>2. HooksUnderWay' \in SUBSET Callers
    BY DEF HooksUnderWay
<1>3. Cardinality(HooksUnderWay') \in Nat /\ Cardinality(Callers) \in Nat
      /\ Cardinality(HooksUnderWay') <= Cardinality(Callers)
    BY <1>2, HooksFinite
<1> QED
    BY <1>1, <1>3, PluginAssumption DEF Breaker

\* A call that has returned is forgotten, and a hook's outcome is recorded.
LEMMA AfterInd ==
  ASSUME IndInv, NEW c \in Callers, After(c)
  PROVE  IndInv'
<1> USE PluginAssumption DEF IndInv, At, Is
<1>0. call \in [Callers -> Calls] /\ Locked(c) /\ host \in Hosts
    BY DEF ClientTyped, HostTyped
<1>1. /\ Becomes(c, "idle", None, LastId(c), None, None)
      /\ LastId(c) \in Nat /\ LastId(c) < nextId
      /\ stream = c => LastId(c) = call[c].id
    BY IdleBecomes DEF After
<1>2. Breaker' /\ failures' \in Seq(BOOLEAN)
  <2>1. CASE call[c].kind = "hook" /\ RecordFailure
      BY <1>1, <2>1, FailureRecorded
  <2>2. CASE RecordSuccess
      BY <2>2, SuccessRecorded
  <2>3. CASE failures' = failures
      BY <1>1, <2>3, CallMoves DEF ClientTyped
  <2> QED
      BY <2>1, <2>2, <2>3 DEF After
<1>3. rpc = c => stream = c
    BY <1>0 DEF After, Locked, Owning
<1>4. ClientTyped'
    BY <1>1, <1>2 DEF After, Becomes, ClientTyped
<1>5. InPipe \subseteq InPipe'
    BY <1>1, <1>3, SameFrames DEF After, Becomes, ClientTyped
<1>6. host' \in Hosts /\ procs' \subseteq {host'.gen} /\ reg' \subseteq 1 .. host'.gen
  <2>1. CASE Terminates(c)
      BY <1>0, <2>1, HostEnds DEF After, Kill, HostTyped
  <2>2. CASE ~ Terminates(c)
      BY <1>0, <2>2 DEF After, HostTyped
  <2> QED
      BY <2>1, <2>2
<1>7. HostTyped'
    BY <1>5, <1>6, HostKeeps
<1>8. \A d \in Callers : Locked(d)'
    BY <1>0, <1>1, <1>3 DEF After, Becomes, ClientTyped, Locked, Owning
<1> QED
    BY <1>2, <1>4, <1>7, <1>8

\* A dropped call gives back what its future holds; a stream's task keeps the lock.
LEMMA DropInd ==
  ASSUME IndInv, NEW c \in Callers, Drop(c)
  PROVE  IndInv'
<1> USE PluginAssumption DEF IndInv, At, Is
<1>0. call \in [Callers -> Calls] /\ Locked(c) /\ host \in Hosts
    BY DEF ClientTyped, HostTyped
<1>1. /\ Becomes(c, "idle", None, LastId(c), None, None)
      /\ LastId(c) \in Nat /\ LastId(c) < nextId
      /\ stream = c => LastId(c) = call[c].id
    BY IdleBecomes DEF Drop
<1>2. rpc' \in {rpc, None} /\ stream' = stream /\ (rpc = c /\ rpc' # None => stream = c)
      /\ (rpc # c => rpc' = rpc) /\ (rpc = c /\ stream # c => stream = None)
    BY DEF Drop, ClientTyped
<1>3. ClientTyped'
    BY <1>1, <1>2 DEF Drop, Becomes, ClientTyped
<1>4. InPipe \subseteq InPipe'
    BY <1>1, <1>2, SameFrames DEF Drop, Becomes, ClientTyped
<1>5. host' \in Hosts /\ procs' \subseteq {host'.gen} /\ reg' \subseteq 1 .. host'.gen
    BY <1>0, HostRead DEF Drop, HostTyped
<1>6. HostTyped'
    BY <1>4, <1>5, HostKeeps
<1>7. \A d \in Callers : Locked(d)'
    BY <1>0, <1>1, <1>2 DEF Drop, Becomes, ClientTyped, Locked, Owning
<1>8. Breaker'
    BY <1>1, CallMoves DEF Drop
<1> QED
    BY <1>3, <1>6, <1>7, <1>8

\* The new host has been asked one thing, under a new id.
LEMMA ReconnectInd ==
  ASSUME IndInv, NEW c \in Callers, Reconnect(c)
  PROVE  IndInv'
<1> USE PluginAssumption DEF IndInv, At, Is
<1>0. call \in [Callers -> Calls] /\ Locked(c) /\ host \in Hosts
    BY DEF ClientTyped, HostTyped
<1> DEFINE m == Message(c, "initialize", nextId)
<1>1. Becomes(c, "init", call[c].kind, nextId, call[c].result, call[c].got)
    BY <1>0 DEF Reconnect, Becomes, Calls, Pcs, ClientTyped
<1>2. rpc = c /\ stream = None /\ nextId' = nextId + 1 /\ nextId \in Nat \ {0}
      /\ rpc' = c /\ stream' = None
    BY <1>0 DEF Reconnect, NextId, Locked, Owning, ClientTyped
<1>3. ClientTyped'
    BY <1>1, <1>2 DEF Reconnect, Becomes, ClientTyped
<1>4. m \in InPipe'
    BY <1>1, <1>2 DEF Message, InPipe, Addressed, Frames, FrameKinds, Becomes
<1>5. <<m>> \in Seq(InPipe') /\ <<>> \in Seq(InPipe')
    BY <1>4
<1>6. host.gen + 1 \in Nat \ {0} /\ host.gen \in Nat
    BY <1>0 DEF Hosts
<1>7. host' \in Hosts' /\ host'.gen = host.gen + 1
    BY <1>5, <1>6 DEF Reconnect, NewHost, Hosts
<1>8. procs' \subseteq {host'.gen} /\ reg' \subseteq 1 .. host'.gen
    BY <1>6, <1>7 DEF Reconnect, HostTyped
<1>9. \A d \in Callers : Locked(d)'
  <2> SUFFICES ASSUME NEW d \in Callers PROVE Locked(d)'
      OBVIOUS
  <2>1. CASE d = c
      BY <1>0, <1>1, <1>2, <2>1 DEF Reconnect, Becomes, Locked, Owning
  <2>2. CASE d # c
    <3>1. call'[d] = call[d] /\ Locked(d) /\ call[d].id \in Nat
        BY <1>1, <2>2 DEF Becomes, ClientTyped, Calls
    <3> QED
        BY <1>2, <2>2, <3>1 DEF Locked, Owning
  <2> QED
      BY <2>1, <2>2
<1>10. Breaker'
    BY <1>1, CallMoves DEF Reconnect
<1> QED
    BY <1>3, <1>7, <1>8, <1>9, <1>10 DEF HostTyped

\* The task of a stream reads a frame, or the end of its pipe: what it tells
\* the caller that still waits is the answer to the caller's request.
LEMMA StreamInd ==
  ASSUME IndInv, NEW c \in Callers, StreamMessage(c) \/ StreamFails(c)
  PROVE  IndInv'
<1> USE PluginAssumption DEF IndInv, At, Is
<1>0. call \in [Callers -> Calls] /\ Locked(c) /\ host \in Hosts
    BY DEF ClientTyped, HostTyped
<1>1. /\ host' \in Hosts /\ host'.gen = host.gen
      /\ UNCHANGED <<nextId, procs, reg, failures, tracked, cancel>>
    BY <1>0, HostRead DEF StreamMessage, StreamFails
<1>2. rpc = c /\ stream = c
    BY DEF StreamMessage, StreamFails, ClientTyped
<1>3. \/ UNCHANGED call
      \/ \E r \in Results \ {"ok", "error"} : Starting(c, r, None)
      \/ \E r \in {"ok", "error"} : Starting(c, r, c)
  <2>1. CASE StreamFails(c)
      BY <2>1 DEF StreamFails, Results
  <2>2. CASE StreamMessage(c)
    <3>1. Head(host.out) \in InPipe
        BY <1>0, <2>2, HostRead DEF StreamMessage
    <3>2. Head(host.out).id = call[c].id /\ Head(host.out).kind # "cancel" => Head(host.out).to = c
        BY <1>2, <3>1 DEF InPipe, Addressed
    <3> QED
        BY <2>2, <3>2 DEF StreamMessage, Results
  <2> QED
      BY <2>1, <2>2
<1>4. (UNCHANGED <<rpc, stream>>) \/ (rpc' = None /\ stream' = None /\ call[c].pc # "start")
      \/ (rpc' = None /\ stream' = None /\ call'[c].pc = "after")
    BY <1>0 DEF StreamMessage, StreamFails, TaskEnds, Starting, Calls
<1>5. CASE UNCHANGED call
  <2>1. ClientTyped'
      BY <1>1, <1>4, <1>5 DEF ClientTyped
  <2>2. InPipe \subseteq InPipe'
      BY <1>1, <1>4, <1>5, SameFrames
  <2>3. HostTyped'
      BY <1>1, <2>2, HostKeeps DEF HostTyped
  <2>4. \A d \in Callers : Locked(d)'
      BY <1>1, <1>2, <1>4, <1>5 DEF Locked, Owning
  <2>5. Breaker'
      BY <1>1, <1>5, BreakerStays DEF HooksUnderWay
  <2> QED
      BY <2>1, <2>3, <2>4, <2>5
<1>6. ASSUME NEW r \in Results, NEW to \in {None, c}, Starting(c, r, to), call[c].pc = "start",
             r \in {"ok", "error"} => to = c
      PROVE  IndInv'
  <2>1. Becomes(c, "after", call[c].kind, call[c].id, r, to)
      BY <1>0, <1>6, CallBecomes DEF Starting
  <2>2. ClientTyped'
      BY <1>1, <1>2, <1>4, <2>1 DEF Becomes, ClientTyped
  <2>3. InPipe \subseteq InPipe'
      BY <1>1, <1>2, <1>4, <2>1, SameFrames DEF Becomes
  <2>4. HostTyped'
      BY <1>1, <2>3, HostKeeps DEF HostTyped
  <2>5. \A d \in Callers : Locked(d)'
    <3>1. ASSUME NEW d \in Callers, d # c
          PROVE  Locked(d)'
        BY <1>1, <1>2, <1>4, <2>1, <3>1 DEF Becomes, ClientTyped, Locked, Owning
    <3>2. Locked(c)'
        BY <1>1, <1>2, <1>4, <1>6, <2>1 DEF Becomes, ClientTyped, Locked, Owning
    <3> QED
        BY <3>1, <3>2
  <2>6. Breaker'
      BY <1>1, <2>1, CallMoves
  <2> QED
      BY <2>2, <2>4, <2>5, <2>6
<1> QED
    BY <1>3, <1>5, <1>6 DEF Starting, Results

\* Steps in which no call moves and no lock changes hands.
LEMMA CallsRest ==
  ASSUME IndInv, UNCHANGED <<call, rpc, stream, nextId, failures>>,
         tracked' \in [Callers -> Nat], cancel' \in [Callers -> Nat],
         host' \in Hosts, procs' \subseteq {host'.gen}, reg' \subseteq 1 .. host'.gen
  PROVE  IndInv'
<1>1. ClientTyped'
    BY DEF IndInv, ClientTyped
<1>2. HostTyped'
    BY SameFrames, HostKeeps DEF IndInv
<1>3. \A d \in Callers : Locked(d)'
    BY DEF IndInv, Locked
<1>4. Breaker'
    BY BreakerStays DEF IndInv, HooksUnderWay
<1> QED
    BY <1>1, <1>2, <1>3, <1>4 DEF IndInv

\* A cancel is asked for and written: a frame that answers nobody.
LEMMA CancelInd ==
  ASSUME IndInv, NEW k \in Callers, CancelAsks(k) \/ CancelWrites(k)
  PROVE  IndInv'
<1>0. host \in Hosts /\ tracked \in [Callers -> Nat] /\ cancel \in [Callers -> Nat]
      /\ procs \subseteq {host.gen} /\ reg \subseteq 1 .. host.gen
    BY DEF IndInv, ClientTyped, HostTyped
<1>1. CASE CancelAsks(k)
    BY <1>0, <1>1, CallsRest DEF CancelAsks
<1>2. CASE CancelWrites(k)
  <2> DEFINE m == Message(k, "cancel", cancel[k])
  <2>1. m \in InPipe
      BY <1>0 DEF Message, InPipe, Addressed, Frames, FrameKinds
  <2>2. Append(host.inbox, m) \in Seq(InPipe)
      BY <1>0, <2>1 DEF Hosts
  <2>3. host' \in Hosts /\ host'.gen = host.gen
      BY <1>0, <1>2, <2>2 DEF CancelWrites, Hosts
  <2>4. cancel' \in [Callers -> Nat]
      BY <1>0, <1>2 DEF CancelWrites
  <2>5. tracked' = tracked \/ tracked' = [tracked EXCEPT ![k] = 0]
      BY <1>2 DEF CancelWrites
  <2>6. tracked' \in [Callers -> Nat]
      BY <1>0, <2>5
  <2> QED
      BY <1>0, <1>2, <2>3, <2>4, <2>6, CallsRest DEF CancelWrites
<1> QED
    BY <1>1, <1>2

\* What a host writes about its work goes to the caller of the work.
LEMMA Emits ==
  ASSUME IndInv, NEW m \in Work
  PROVE  /\ \A kind \in FrameKinds \ {"cancel"} : [m EXCEPT !.kind = kind] \in Work
         /\ [m EXCEPT !.id = 0, !.kind = "progress"] \in Work
<1>1. m \in Frames /\ Addressed(m) /\ m.kind # "cancel"
    BY DEF Work, InPipe
<1>2. ASSUME NEW kind \in FrameKinds \ {"cancel"} PROVE [m EXCEPT !.kind = kind] \in Work
    BY <1>1 DEF Work, InPipe, Addressed, Frames
<1>3. rpc # None => call[rpc].id # 0
    BY DEF IndInv, ClientTyped, Locked
<1>4. nextId \in Nat \ {0}
    BY DEF IndInv, ClientTyped
<1>5. [m EXCEPT !.id = 0, !.kind = "progress"] \in Work
  <2> DEFINE p == [m EXCEPT !.id = 0, !.kind = "progress"]
  <2>1. p \in Frames /\ p.id = 0 /\ p.kind = "progress"
      BY <1>1 DEF Frames, FrameKinds
  <2>2. Addressed(p)
      BY <1>3, <1>4, <2>1 DEF Addressed
  <2> QED
      BY <2>1, <2>2 DEF Work, InPipe
<1> QED
    BY <1>2, <1>5

\* The host takes its next message: a cancel, its end or work.
LEMMA HostReadsInd ==
  ASSUME IndInv, HostReads
  PROVE  IndInv'
<1> DEFINE m == Head(host.inbox)
           h == [host EXCEPT !.inbox = Tail(@)]
           ok == [m EXCEPT !.kind = "ok"]
           s == [h EXCEPT !.out = Append(@, ok)]
<1>0. host \in Hosts /\ tracked \in [Callers -> Nat] /\ cancel \in [Callers -> Nat]
      /\ procs \subseteq {host.gen} /\ reg \subseteq 1 .. host.gen
    BY DEF IndInv, ClientTyped, HostTyped
<1>1. m \in InPipe /\ Tail(host.inbox) \in Seq(InPipe) /\ m.id \in Nat
  <2>1. host.inbox \in Seq(InPipe) /\ host.inbox # <<>>
      BY <1>0 DEF Hosts, HostReads
  <2>2. m \in InPipe /\ Tail(host.inbox) \in Seq(InPipe)
      BY <2>1, HeadTailProperties
  <2> QED
      BY <2>2 DEF InPipe, Frames
<1>2. h \in Hosts /\ h.gen = host.gen
    BY <1>0, <1>1 DEF Hosts
<1>3. /\ UNCHANGED <<call, rpc, stream, nextId, failures, reg, tracked, cancel>>
    BY DEF HostReads
<1>4. CASE m.kind = "cancel"
  <2>1. host' = [h EXCEPT !.active = @ \ {m.id}] /\ procs' = procs
      BY <1>4 DEF HostReads
  <2>2. host' \in Hosts /\ host'.gen = host.gen
      BY <1>2, <2>1 DEF Hosts
  <2> QED
      BY <1>0, <1>3, <2>1, <2>2, CallsRest
<1>5. CASE m.kind = "shutdown"
  <2>1. m \in Work
      BY <1>1, <1>5 DEF Work
  <2>2. ok \in InPipe
      BY <2>1, Emits DEF FrameKinds, Work
  <2>3. Append(h.out, ok) \in Seq(InPipe)
      BY <1>2, <2>2 DEF Hosts
  <2>4. s \in Hosts /\ s.gen = host.gen
      BY <1>2, <2>3 DEF Hosts
  <2>5. Kill(s)
      BY <1>5 DEF HostReads
  <2>6. host' \in Hosts /\ host'.gen = host.gen /\ procs' \subseteq procs
      BY <2>4, <2>5, HostEnds DEF Kill
  <2> QED
      BY <1>0, <1>3, <2>6, CallsRest
<1>6. CASE m.kind \notin {"cancel", "shutdown"}
  <2>1. m \in Work
      BY <1>1, <1>6 DEF Work
  <2>2. host' = [h EXCEPT !.running = m,
                          !.active = IF m.kind = "tool" THEN @ \cup {m.id} ELSE @]
        /\ procs' = procs
      BY <1>6 DEF HostReads
  <2>3. host' \in Hosts /\ host'.gen = host.gen
      BY <1>1, <1>2, <2>1, <2>2 DEF Hosts
  <2> QED
      BY <1>0, <1>3, <2>2, <2>3, CallsRest
<1> QED
    BY <1>4, <1>5, <1>6

\* The host ticks, answers, ends a stream, hangs or exits.
LEMMA HostStepInd ==
  ASSUME IndInv, HostTicks \/ HostAnswers \/ HostEndsStream \/ HostHangs \/ HostExits
  PROVE  IndInv'
<1>0. host \in Hosts /\ tracked \in [Callers -> Nat] /\ cancel \in [Callers -> Nat]
      /\ procs \subseteq {host.gen} /\ reg \subseteq 1 .. host.gen
    BY DEF IndInv, ClientTyped, HostTyped
<1>1. /\ UNCHANGED <<call, rpc, stream, nextId, failures, reg, tracked, cancel>>
    BY DEF HostTicks, HostAnswers, HostEndsStream, HostHangs, HostExits
<1>2. ASSUME NEW m \in Work PROVE Emit(m) \in Hosts /\ Emit(m).gen = host.gen
            /\ Emit(m).running = host.running /\ Emit(m).active = host.active
            /\ Emit(m).ready = host.ready
  <2>1. Append(host.out, m) \in Seq(InPipe)
      BY <1>0, <1>2 DEF Hosts, Work
  <2> QED
      BY <1>0, <2>1 DEF Emit, Hosts
<1>3. host.running # None => host.running \in Work
    BY <1>0 DEF Hosts
<1>4. CASE HostTicks
  <2>1. [host.running EXCEPT !.id = 0, !.kind = "progress"] \in Work
      BY <1>3, <1>4, Emits DEF HostTicks, Running
  <2>2. host' \in Hosts /\ host'.gen = host.gen /\ procs' = procs
      BY <1>2, <1>4, <2>1 DEF HostTicks
  <2> QED
      BY <1>0, <1>1, <2>2, CallsRest
<1>5. CASE HostAnswers
  <2>1. PICK kind \in {"ok", "error"} :
          host' = [Emit([host.running EXCEPT !.kind = kind]) EXCEPT
                     !.running = IF kind = "ok" /\ @.kind = "stream"
                                 THEN [@ EXCEPT !.kind = "body"] ELSE None,
                     !.active = @ \ {host.running.id},
                     !.ready = @ \/ (kind = "ok" /\ host.running.kind = "initialize")]
      BY <1>5 DEF HostAnswers
  <2> DEFINE e == Emit([host.running EXCEPT !.kind = kind])
  <2>2. host.running \in Work /\ procs' = procs
      BY <1>3, <1>5 DEF HostAnswers, Running
  <2>3. [host.running EXCEPT !.kind = kind] \in Work /\ [host.running EXCEPT !.kind = "body"] \in Work
      BY <2>2, Emits DEF FrameKinds
  <2>4. e \in Hosts /\ e.gen = host.gen /\ e.running = host.running
      BY <1>2, <2>3
  <2>5. host' \in Hosts /\ host'.gen = host.gen
      BY <2>1, <2>3, <2>4 DEF Hosts
  <2> QED
      BY <1>0, <1>1, <2>2, <2>5, CallsRest
<1>6. CASE HostEndsStream
  <2> DEFINE e == Emit([host.running EXCEPT !.kind = "end"])
  <2>1. [host.running EXCEPT !.kind = "end"] \in Work
      BY <1>3, <1>6, Emits DEF HostEndsStream, Running, FrameKinds
  <2>2. e \in Hosts /\ e.gen = host.gen
      BY <1>2, <2>1
  <2>3. host' = [e EXCEPT !.running = None] /\ procs' = procs
      BY <1>6 DEF HostEndsStream
  <2>4. host' \in Hosts /\ host'.gen = host.gen
      BY <2>2, <2>3 DEF Hosts
  <2> QED
      BY <1>0, <1>1, <2>3, <2>4, CallsRest
<1>7. CASE HostHangs
  <2>1. host' \in Hosts /\ host'.gen = host.gen /\ procs' = procs
      BY <1>0, <1>7 DEF HostHangs, Hosts
  <2> QED
      BY <1>0, <1>1, <2>1, CallsRest
<1>8. CASE HostExits
  <2>1. host' \in Hosts /\ host'.gen = host.gen /\ procs' \subseteq procs
      BY <1>0, <1>8, HostEnds DEF HostExits, Kill
  <2> QED
      BY <1>0, <1>1, <2>1, CallsRest
<1> QED
    BY <1>4, <1>5, <1>6, <1>7, <1>8

\* The oldest failure leaves the window; the newest stays what it was.
LEMMA AgesInd ==
  ASSUME IndInv, FailureAges
  PROVE  IndInv'
<1>1. failures \in Seq(BOOLEAN) /\ failures # <<>> /\ failures' = Tail(failures)
      /\ UNCHANGED <<call, rpc, stream, nextId, host, procs, reg, tracked, cancel>>
    BY DEF FailureAges, IndInv, ClientTyped
<1>2. /\ Tail(failures) \in Seq(BOOLEAN) /\ Len(Tail(failures)) = Len(failures) - 1
      /\ \A i \in 1 .. Len(Tail(failures)) : Tail(failures)[i] = failures[i + 1]
    BY <1>1, HeadTailProperties
<1>3. Len(failures) \in Nat \ {0} /\ Threshold \in Nat \ {0}
    BY <1>1, PluginAssumption, EmptySeq, LenProperties
<1>4. HooksUnderWay' = HooksUnderWay /\ HooksUnderWay \in SUBSET Callers
    BY <1>1 DEF HooksUnderWay
<1>5. Cardinality(HooksUnderWay) \in Nat /\ Cardinality(Callers) \in Nat
    BY <1>4, HooksFinite
<1>6. Breaker'
  <2>1. Len(failures') >= Threshold => failures'[Len(failures')]
      BY <1>1, <1>2, <1>3 DEF IndInv, Breaker
  <2>2. Len(failures') + Cardinality(HooksUnderWay') <= Threshold - 1 + Cardinality(Callers)
      BY <1>1, <1>2, <1>3, <1>4, <1>5 DEF IndInv, Breaker
  <2> QED
      BY <2>1, <2>2 DEF Breaker
<1>7. ClientTyped'
    BY <1>1, <1>2 DEF IndInv, ClientTyped
<1>8. HostTyped'
    BY <1>1, SameFrames, HostKeeps DEF IndInv, HostTyped
<1>9. \A d \in Callers : Locked(d)'
    BY <1>1 DEF IndInv, Locked
<1> QED
    BY <1>6, <1>7, <1>8, <1>9 DEF IndInv

\* The registry only loses entries.
LEMMA ReapInd ==
  ASSUME IndInv, Reap
  PROVE  IndInv'
BY CallsRest DEF Reap, IndInv, ClientTyped, HostTyped

-----------------------------------------------------------------------------
(* The theorems *)

\* The initial states: one host, nothing called.
LEMMA InitInd == Init => IndInv
<1> SUFFICES ASSUME Init PROVE IndInv
    OBVIOUS
<1> USE PluginAssumption
<1>1. ClientTyped
    BY DEF Init, Idle, ClientTyped, Calls, Pcs, Results
<1>2. <<>> \in Seq(InPipe)
    OBVIOUS
<1>3. HostTyped
  <2>1. host = [gen |-> 1, inbox |-> <<>>, running |-> None, active |-> {}, out |-> <<>>,
                ready |-> TRUE, hung |-> FALSE, torn |-> FALSE]
      BY DEF Init, NewHost
  <2>2. host \in Hosts /\ host.gen = 1
      BY <1>2, <2>1 DEF Hosts
  <2> QED
      BY <2>2 DEF Init, HostTyped
<1>4. \A c \in Callers : Locked(c)
    BY DEF Init, Idle, Locked, Owning
<1>5. HooksUnderWay = {} /\ Len(failures) = 0
    BY DEF Init, Idle, HooksUnderWay, Kinds
<1>6. Cardinality(HooksUnderWay) = 0 /\ Cardinality(Callers) \in Nat
    BY <1>5, FS_EmptySet, FS_CardinalityType
<1> QED
    BY <1>1, <1>3, <1>4, <1>5, <1>6 DEF IndInv, Breaker

\* Every step keeps the invariant.
LEMMA NextInd == IndInv /\ [Next]_vars => IndInv'
<1> SUFFICES ASSUME IndInv, [Next]_vars PROVE IndInv'
    OBVIOUS
<1>1. ASSUME NEW c \in Callers, CallerStep(c) PROVE IndInv'
    BY <1>1, MoveInd, BeginInd, LockInd, WriteInd, GotMessageInd, AfterInd, DropInd, ReconnectInd,
       StreamInd DEF CallerStep
<1>2. ASSUME NEW k \in Callers, CancelAsks(k) \/ CancelWrites(k) PROVE IndInv'
    BY <1>2, CancelInd
<1>3. CASE HostStep
    BY <1>3, HostReadsInd, HostStepInd DEF HostStep
<1>4. CASE FailureAges
    BY <1>4, AgesInd
<1>5. CASE Reap
    BY <1>5, ReapInd
<1>6. CASE UNCHANGED vars
  <2>1. UNCHANGED <<call, rpc, stream, nextId, host, procs, reg, failures, tracked, cancel>>
      BY <1>6 DEF vars
  <2> QED
      BY <2>1, CallsRest DEF IndInv, ClientTyped, HostTyped
<1> QED
    BY <1>1, <1>2, <1>3, <1>4, <1>5, <1>6 DEF Next

\* The invariant holds in every reachable state.
THEOREM Inductive == Spec => []IndInv
BY InitInd, NextInd, PTL DEF Spec

\* rpc_lock is always with the call or the stream's task that uses the
\* connection, and a plugin never has two host processes, whatever calls time
\* out, are dropped or fail (call, auth_fetch_stream, reconnect).
THEOREM PluginSoundHolds == Spec => []PluginSound
<1>1. IndInv => TypeOK
  <2> SUFFICES ASSUME IndInv PROVE TypeOK
      OBVIOUS
  <2>1. ASSUME NEW c \in Callers
        PROVE  /\ call[c].pc \in Pcs /\ call[c].kind \in Kinds \cup {None}
               /\ call[c].id \in 0 .. nextId - 1
               /\ call[c].result \in Results /\ call[c].got \in Callers \cup {None}
               /\ At(c, {"write", "again", "read", "heal", "init", "start"})
                    => (rpc = c \/ At(c, {"start"}))
      BY DEF IndInv, ClientTyped, Calls, Locked, Owning, At
  <2>2. rpc \in Callers \cup {None} /\ stream \in {None, rpc}
      BY DEF IndInv, ClientTyped
  <2>3. host.gen \in Nat \ {0} /\ procs \subseteq 1 .. host.gen /\ reg \subseteq 1 .. host.gen
      BY DEF IndInv, HostTyped, Hosts
  <2> QED
      BY <2>1, <2>2, <2>3 DEF TypeOK, Pcs
<1>2. IndInv => OneHost
  <2> SUFFICES ASSUME IndInv PROVE OneHost
      OBVIOUS
  <2>1. procs \subseteq {host.gen}
      BY DEF IndInv, HostTyped
  <2>2. IsFiniteSet({host.gen}) /\ Cardinality({host.gen}) = 1
      BY FS_Singleton
  <2>3. Cardinality(procs) <= Cardinality({host.gen})
      BY <2>1, <2>2, FS_Subset
  <2> QED
      BY <2>2, <2>3 DEF OneHost
<1> QED
    BY <1>1, <1>2, Inductive, PTL DEF PluginSound

\* An answer that a call returns is the answer to its own request, whatever
\* was left in the pipe by calls before it (call, invoke_tool).
THEOREM OwnAnswerHolds == Spec => []OwnAnswer
<1>1. IndInv => OwnAnswer
    BY DEF IndInv, Locked, OwnAnswer
<1> QED
    BY <1>1, Inductive, PTL

\* The breaker's window holds fewer timeouts than the threshold and the
\* callers together (register_client_hooks).
THEOREM HookTimeoutsBoundedHolds == Spec => []HookTimeoutsBounded
<1>1. IndInv => HookTimeoutsBounded
  <2> SUFFICES ASSUME IndInv PROVE HookTimeoutsBounded
      OBVIOUS
  <2>1. HooksUnderWay \in SUBSET Callers
      BY DEF HooksUnderWay
  <2>2. Cardinality(HooksUnderWay) \in Nat /\ Cardinality(Callers) \in Nat
      BY <2>1, HooksFinite
  <2>3. Len(failures) \in Nat /\ Threshold \in Nat
      BY PluginAssumption, LenProperties DEF IndInv, ClientTyped
  <2> QED
      BY <2>2, <2>3 DEF IndInv, Breaker, HookTimeoutsBounded
<1> QED
    BY <1>1, Inductive, PTL
=============================================================================
