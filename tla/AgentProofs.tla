----------------------------- MODULE AgentProofs ------------------------------
(***************************************************************************)
(* Theorems about AgentLoop, for any finite set of agents, any messages    *)
(* and any limits.  IndInv adds to the runs' invariants who may wait for   *)
(* the user, and where a steering message is on its way from the inbox to  *)
(* the transcript: what an agent has drained is in no other place until it *)
(* records it, and no other agent's.                                       *)
(***************************************************************************)
EXTENDS AgentLoop, SequenceTheorems, FiniteSetTheorems, TLAPS

Waiting == {a \in Agents : ask[a] = "waits"}
Failed == {a \in Agents : pc[a] = "failed"}

\* Only a tool waits for the user, and each wait pauses the clock once.
Clock ==
    /\ \A a \in Waiting : pc[a] \in {"tool", "cleanup"}
    /\ depth = Cardinality(Waiting)

\* An agent holds messages between Drain and ClearShown, or when it ended
\* there; they are recorded in between.
Holding(a) ==
    /\ pc[a] \notin {"record", "clear"} \cup Over => held[a] = << >>
    /\ pc[a] = "record" => ToSet(held[a]) \cap ToSet(transcript) = {}
    /\ pc[a] = "clear" => ToSet(held[a]) \subseteq ToSet(transcript)
    /\ heard[a] \subseteq ToSet(transcript)
    /\ ToSet(held[a]) \cap ToSet(inbox) = {}
    /\ IsInjective(held[a])

\* No two agents have taken the same message.
Apart(a, b) ==
    /\ ToSet(held[a]) \cap ToSet(held[b]) = {}
    /\ heard[a] \cap heard[b] = {}
    /\ heard[a] \cap ToSet(held[b]) = {}

\* Exactly the messages that were enqueued are somewhere.
Sent(m) ==
    submit[m] # "none" <=>
        m \in ToSet(inbox) \/ m \in ToSet(transcript) \/ \E a \in Agents : m \in ToSet(held[a])

Mail ==
    /\ \A a \in Agents : Holding(a)
    /\ \A a, b \in Agents : a # b => Apart(a, b)
    /\ \A m \in Messages : Sent(m)
    /\ IsInjective(inbox) /\ IsInjective(transcript) /\ ToSet(inbox) \cap ToSet(transcript) = {}

IndInv == TypeOK /\ Clock /\ Mail /\ OverspendsOnce

---------------------------------------------------------------------------
(* Sequences without repetitions, as inbox and transcript are.              *)

\* The elements of a concatenation, which repeats none if its parts share none.
LEMMA ConcatElements ==
    ASSUME NEW S, NEW s \in Seq(S), NEW t \in Seq(S)
    PROVE  /\ s \o t \in Seq(S)
           /\ ToSet(s \o t) = ToSet(s) \cup ToSet(t)
           /\ IsInjective(s) /\ IsInjective(t) /\ ToSet(s) \cap ToSet(t) = {} =>
                 IsInjective(s \o t)
<1>1. /\ s \o t \in Seq(S) /\ Len(s \o t) = Len(s) + Len(t)
      /\ \A i \in 1..(Len(s) + Len(t)) :
            (s \o t)[i] = IF i <= Len(s) THEN s[i] ELSE t[i - Len(s)]
    OBVIOUS
<1>2. /\ DOMAIN s = 1..Len(s) /\ DOMAIN t = 1..Len(t) /\ Len(s) \in Nat /\ Len(t) \in Nat
      /\ DOMAIN (s \o t) = 1..(Len(s) + Len(t))
    BY <1>1, LenProperties
<1> DEFINE c == s \o t
<1>3. \A i \in 1..Len(s) : i \in DOMAIN c /\ c[i] = s[i]
    BY <1>1, <1>2
<1>4. \A i \in 1..Len(t) : i + Len(s) \in DOMAIN c /\ c[i + Len(s)] = t[i]
    BY <1>1, <1>2
<1>5. \A i \in DOMAIN c : \/ i \in 1..Len(s) /\ c[i] = s[i]
                          \/ i - Len(s) \in 1..Len(t) /\ c[i] = t[i - Len(s)]
    BY <1>1, <1>2
<1> HIDE DEF c
<1>6. ToSet(c) = ToSet(s) \cup ToSet(t)
    BY <1>2, <1>3, <1>4, <1>5 DEF ToSet
<1>7. ASSUME IsInjective(s), IsInjective(t), ToSet(s) \cap ToSet(t) = {},
             NEW i \in DOMAIN c, NEW j \in DOMAIN c, c[i] = c[j]
      PROVE  i = j
  <2>1. CASE i \in 1..Len(s) /\ j \in 1..Len(s) /\ c[i] = s[i] /\ c[j] = s[j]
      BY <1>2, <1>7, <2>1 DEF IsInjective
  <2>2. CASE /\ i - Len(s) \in 1..Len(t) /\ j - Len(s) \in 1..Len(t)
             /\ c[i] = t[i - Len(s)] /\ c[j] = t[j - Len(s)]
    <3>1. i - Len(s) = j - Len(s)
        BY <1>2, <1>7, <2>2 DEF IsInjective
    <3>2. i \in Nat /\ j \in Nat /\ Len(s) \in Nat
        BY <1>2 DEF c
    <3> QED
        BY <3>1, <3>2
  <2>3. \A k \in 1..Len(s), l \in 1..Len(t) : s[k] # t[l]
      BY <1>2, <1>7 DEF ToSet
  <2> QED
      BY <1>5, <1>7, <2>1, <2>2, <2>3
<1> QED
    BY <1>1, <1>6, <1>7 DEF c, IsInjective

\* The elements of a sequence, one longer and empty.
LEMMA AppendElements ==
    ASSUME NEW S, NEW s \in Seq(S), NEW e \in S
    PROVE  /\ Append(s, e) \in Seq(S)
           /\ ToSet(s) \subseteq S
           /\ ToSet(Append(s, e)) = ToSet(s) \cup {e}
           /\ IsInjective(s) /\ e \notin ToSet(s) => IsInjective(Append(s, e))
           /\ ToSet(<< >>) = {} /\ IsInjective(<< >>)
<1>1. <<e>> \in Seq(S) /\ Append(s, e) = s \o <<e>> /\ Append(s, e) \in Seq(S)
    OBVIOUS
<1>2. ToSet(<<e>>) = {e} /\ IsInjective(<<e>>) /\ ToSet(<< >>) = {} /\ IsInjective(<< >>)
    BY DEF ToSet, IsInjective
<1>3. ToSet(s) \subseteq S
    BY DEF ToSet
<1> QED
    BY <1>1, <1>2, <1>3, ConcatElements

---------------------------------------------------------------------------
(* The clock, the budget and the mail, each under what leaves it right.      *)

\* Waiting and failed agents are finitely many, and a turn's price is bounded.
LEMMA Counts ==
    ASSUME NEW A \in SUBSET Agents
    PROVE  /\ IsFiniteSet(A) /\ Cardinality(A) \in Nat
           /\ Dearest \in Nat /\ \A t \in TurnTokens : t \in Nat /\ t <= Dearest
<1>1. IsFiniteSet(A) /\ Cardinality(A) \in Nat
    BY LimitsAssumption, FS_Subset, FS_CardinalityType
<1>2. Dearest \in TurnTokens /\ \A t \in TurnTokens : t <= Dearest
    BY LimitsAssumption DEF Dearest
<1> QED
    BY <1>1, <1>2, LimitsAssumption

\* The pauses of the agents in A end, and no others.
LEMMA Unpaused ==
    ASSUME depth = Cardinality(Waiting), NEW A \in SUBSET Agents, Unpause(A),
           Waiting' = Waiting \ A
    PROVE  depth' = Cardinality(Waiting') /\ depth' \in Nat
<1>1. Waiting \in SUBSET Agents /\ Waiting' \in SUBSET Agents
      /\ {a \in A : ask[a] = "waits"} = Waiting \cap A
    BY DEF Waiting
<1>2. IsFiniteSet(Waiting) /\ Cardinality(Waiting') \in Nat
    BY <1>1, Counts
<1>3. Cardinality(Waiting \ A) = Cardinality(Waiting) - Cardinality(Waiting \cap A)
    BY <1>2, FS_Difference
<1> QED
    BY <1>1, <1>2, <1>3 DEF Unpause

\* The budget's bound holds while no tokens are charged, or the limit is kept.
LEMMA Spends ==
    ASSUME TypeOK, OverspendsOnce, usage'.tokens \in Nat, Failed' = Failed,
           usage'.tokens <= usage.tokens \/ usage'.tokens <= MaxTokens
    PROVE  OverspendsOnce'
<1>1. Failed \in SUBSET Agents
    BY DEF Failed
<1>2. Cardinality(Failed) \in Nat /\ Dearest \in Nat /\ MaxTokens \in Nat /\ usage.tokens \in Nat
    BY <1>1, Counts, LimitsAssumption DEF TypeOK
<1>3. Dearest * Cardinality(Failed) \in Nat
    BY <1>2
<1>4. usage.tokens <= MaxTokens + Dearest * Cardinality(Failed)
    BY DEF OverspendsOnce, Failed
<1>5. usage'.tokens <= MaxTokens + Dearest * Cardinality(Failed')
    BY <1>2, <1>3, <1>4
<1> QED
    BY <1>5 DEF OverspendsOnce, Failed

\* An agent that fails may have charged one turn.
LEMMA Overspends ==
    ASSUME TypeOK, OverspendsOnce, NEW a \in Agents, a \notin Failed, Failed' = Failed \cup {a},
           usage'.tokens \in Nat, usage'.tokens <= usage.tokens + Dearest
    PROVE  OverspendsOnce'
<1>1. Failed \in SUBSET Agents
    BY DEF Failed
<1>2. /\ IsFiniteSet(Failed) /\ Cardinality(Failed) \in Nat /\ Dearest \in Nat
      /\ MaxTokens \in Nat /\ usage.tokens \in Nat
    BY <1>1, Counts, LimitsAssumption DEF TypeOK
<1>3. Cardinality(Failed') = Cardinality(Failed) + 1
    BY <1>2, FS_AddElement
<1>4. Dearest * (Cardinality(Failed) + 1) = Dearest * Cardinality(Failed) + Dearest
    BY <1>2
<1>5. Dearest * Cardinality(Failed) \in Nat
    BY <1>2
<1>6. usage.tokens <= MaxTokens + Dearest * Cardinality(Failed)
    BY DEF OverspendsOnce, Failed
<1>7. usage'.tokens <= MaxTokens + Dearest * Cardinality(Failed')
    BY <1>2, <1>3, <1>4, <1>5, <1>6
<1> QED
    BY <1>7 DEF OverspendsOnce, Failed

\* Messages stay where they are; agents move outside the boundary, or end.
LEMMA MailRests ==
    ASSUME TypeOK, Mail, UNCHANGED <<held, heard, inbox, transcript>>,
           \A m \in Messages : submit'[m] = "none" <=> submit[m] = "none",
           \A a \in Agents :
              \/ pc'[a] = pc[a] \/ pc'[a] \in Over
              \/ pc[a] \notin {"record", "clear"} \cup Over /\ pc'[a] \notin {"record", "clear"}
    PROVE  Mail'
<1>1. ASSUME NEW a \in Agents PROVE Holding(a)'
    BY DEF Mail, Holding, Over
<1>2. ASSUME NEW m \in Messages PROVE Sent(m)'
    BY DEF Mail, Sent
<1> QED
    BY <1>1, <1>2 DEF Mail, Apart

---------------------------------------------------------------------------
(* The steps.                                                               *)

\* An agent fails, with the other branches if they fail fast.
LEMMA FailInd ==
    ASSUME IndInv, NEW a \in Agents, pc[a] \notin Over, Fail(a),
           usage' \in [model : 0..MaxModelCalls, tool : 0..MaxToolCalls, tokens : Nat],
           usage'.tokens <= usage.tokens + Dearest
    PROVE  IndInv'
<1> DEFINE gone == {a} \cup (IF mode = "FailFast" THEN {b \in Agents : pc[b] \notin Over} ELSE {})
<1>1. /\ pc' = [b \in Agents |-> IF b = a THEN "failed" ELSE IF b \in gone THEN "dropped" ELSE pc[b]]
      /\ ask' = [b \in Agents |-> IF b \in gone THEN "not" ELSE ask[b]]
      /\ Unpause(gone)
      /\ UNCHANGED <<mode, step, calls, held, heard, elapsed, cancelVars, steerVars>>
    BY DEF Fail
<1>2. gone \in SUBSET Agents /\ \A b \in gone : pc[b] \notin Over
    OBVIOUS
<1> HIDE DEF gone
<1>3. Waiting' = Waiting \ gone
    BY <1>1 DEF Waiting
<1>4. depth' = Cardinality(Waiting') /\ depth' \in Nat
    BY <1>1, <1>2, <1>3, Unpaused DEF IndInv, Clock
<1>5. Clock'
  <2>1. a \in gone
      BY DEF gone
  <2>2. \A b \in Waiting' : pc'[b] = pc[b] /\ b \in Waiting
      BY <1>1, <1>3, <2>1 DEF Waiting
  <2> QED
      BY <1>4, <2>2 DEF IndInv, Clock
<1>6. TypeOK'
    BY <1>1, <1>4 DEF IndInv, TypeOK, Places, Over, cancelVars, steerVars
<1>7. Mail'
    BY <1>1, <1>2, MailRests DEF IndInv, steerVars, Over
<1>8. Failed' = Failed \cup {a} /\ a \notin Failed
    BY <1>1, <1>2 DEF Failed, Over
<1>9. OverspendsOnce'
    BY <1>8, Overspends DEF IndInv
<1> QED
    BY <1>5, <1>6, <1>7, <1>9 DEF IndInv

\* An agent fails without a charge.
LEMMA FailOnlyInd ==
    ASSUME IndInv, NEW a \in Agents, pc[a] \notin Over, FailOnly(a)
    PROVE  IndInv'
<1>1. /\ usage' = usage /\ usage.tokens \in Nat /\ Dearest \in Nat
      /\ usage \in [model : 0..MaxModelCalls, tool : 0..MaxToolCalls, tokens : Nat]
    BY Counts DEF FailOnly, IndInv, TypeOK
<1> QED
    BY <1>1, FailInd DEF FailOnly

\* An agent that holds no message moves on; who waits does not change.
LEMMA MoveInd ==
    ASSUME IndInv, NEW a \in Agents, NEW w \in Places \ {"record", "clear", "failed"},
           pc[a] \notin {"record", "clear"} \cup Over, Goto(a, w), TypeOK',
           Waiting' = Waiting, a \in Waiting => w \in {"tool", "cleanup"},
           UNCHANGED <<held, heard, depth, steerVars>>,
           usage'.tokens <= usage.tokens \/ usage'.tokens <= MaxTokens
    PROVE  IndInv'
<1>1. pc \in [Agents -> Places] /\ pc' = [pc EXCEPT ![a] = w]
    BY DEF IndInv, TypeOK, Goto
<1>2. pc'[a] = w /\ \A b \in Agents \ {a} : pc'[b] = pc[b]
    BY <1>1
<1>3. Clock'
    BY <1>2 DEF IndInv, Clock, Waiting
<1>4. Mail'
    BY <1>2, MailRests DEF IndInv, steerVars
<1>5. Failed' = Failed
    BY <1>2 DEF Failed, Over
<1>6. usage'.tokens \in Nat
    BY DEF TypeOK
<1>7. OverspendsOnce'
    BY <1>5, <1>6, Spends DEF IndInv
<1> QED
    BY <1>3, <1>4, <1>7 DEF IndInv
\* An agent begins or ends a step, calls the model or a tool, or finishes.
LEMMA PlainMoves ==
    ASSUME IndInv, NEW a \in Agents,
           \/ BeginStep(a) \/ ReserveModelCall(a) \/ Finish(a) \/ ReserveToolCall(a)
           \/ StepEnds(a) \/ ToolCancelled(a) \/ ToolReturns(a)
           \/ \E tokens \in TurnTokens, n \in TurnCalls : ModelReturns(a, tokens, n)
    PROVE  IndInv'
<1> USE LimitsAssumption DEF IndInv
<1>0. a \in Waiting => pc[a] \in {"tool", "cleanup"}
    BY DEF Clock
<1>00. /\ usage \in [model : 0..MaxModelCalls, tool : 0..MaxToolCalls, tokens : Nat]
       /\ usage.tokens \in Nat /\ usage.model \in Nat /\ usage.tool \in Nat
       /\ MaxModelCalls \in Nat /\ MaxToolCalls \in Nat /\ calls \in [Agents -> Nat]
    BY DEF TypeOK
<1>1. CASE BeginStep(a)
  <2>0. step' \in [Agents -> 0..MaxSteps]
      BY <1>1 DEF BeginStep, TypeOK
  <2>1. TypeOK'
      BY <1>1, <2>0 DEF BeginStep, Goto, TypeOK, Places, budgetVars, cancelVars, steerVars
  <2> QED
      BY <1>0, <1>00, <1>1, <2>1, MoveInd DEF BeginStep, Waiting, Places, Over, budgetVars
<1>2. CASE ReserveModelCall(a)
  <2>0. /\ usage' \in [model : 0..MaxModelCalls, tool : 0..MaxToolCalls, tokens : Nat]
        /\ usage'.tokens = usage.tokens
    <3>1. usage.model + 1 \in 0..MaxModelCalls /\ usage' = [usage EXCEPT !.model = usage.model + 1]
        BY <1>2, <1>00 DEF ReserveModelCall
    <3> QED
        BY <1>00, <3>1
  <2>1. TypeOK'
      BY <1>2, <2>0 DEF ReserveModelCall, Goto, TypeOK, Places, cancelVars, steerVars
  <2> QED
      BY <1>0, <1>00, <1>2, <2>0, <2>1, MoveInd DEF ReserveModelCall, Waiting, Places, Over
<1>3. CASE Finish(a)
  <2>1. TypeOK'
      BY <1>3 DEF Finish, Goto, TypeOK, Places, Over, budgetVars, cancelVars, steerVars
  <2> QED
      BY <1>0, <1>00, <1>3, <2>1, MoveInd DEF Finish, Waiting, Places, Over, budgetVars
<1>4. CASE ReserveToolCall(a)
  <2>0. /\ usage' \in [model : 0..MaxModelCalls, tool : 0..MaxToolCalls, tokens : Nat]
        /\ usage'.tokens = usage.tokens /\ calls' \in [Agents -> Nat]
    <3>1. usage.tool + 1 \in 0..MaxToolCalls /\ usage' = [usage EXCEPT !.tool = usage.tool + 1]
        BY <1>4, <1>00 DEF ReserveToolCall
    <3>2. calls[a] - 1 \in Nat /\ calls' = [calls EXCEPT ![a] = calls[a] - 1]
        BY <1>4, <1>00 DEF ReserveToolCall
    <3> QED
        BY <1>00, <3>1, <3>2
  <2>1. TypeOK'
      BY <1>4, <2>0 DEF ReserveToolCall, Goto, TypeOK, Places, cancelVars, steerVars
  <2> QED
      BY <1>0, <1>00, <1>4, <2>0, <2>1, MoveInd DEF ReserveToolCall, Waiting, Places, Over
<1>5. CASE StepEnds(a)
  <2>1. TypeOK'
      BY <1>5 DEF StepEnds, Goto, TypeOK, Places, budgetVars, cancelVars, steerVars
  <2> QED
      BY <1>0, <1>00, <1>5, <2>1, MoveInd DEF StepEnds, Waiting, Places, Over, budgetVars
<1>6. CASE ToolCancelled(a)
  <2>1. TypeOK'
      BY <1>6 DEF ToolCancelled, Goto, TypeOK, Places, budgetVars, cancelVars, steerVars
  <2> QED
      BY <1>0, <1>00, <1>6, <2>1, MoveInd DEF ToolCancelled, Waiting, Places, Over, budgetVars
<1>7. CASE ToolReturns(a)
  <2>1. TypeOK'
      BY <1>7 DEF ToolReturns, Goto, TypeOK, Places, budgetVars, cancelVars, steerVars
  <2>2. Waiting' = Waiting /\ a \notin Waiting
      BY <1>7 DEF ToolReturns, Waiting, TypeOK
  <2> QED
      BY <1>00, <1>7, <2>1, <2>2, MoveInd DEF ToolReturns, Places, Over, budgetVars
<1>8. ASSUME NEW tokens \in TurnTokens, NEW n \in TurnCalls, ModelReturns(a, tokens, n)
      PROVE  IndInv'
  <2>1. usage.tokens \in Nat /\ tokens \in Nat /\ n \in Nat /\ MaxTokens \in Nat
      BY DEF TypeOK
  <2>0. /\ usage' \in [model : 0..MaxModelCalls, tool : 0..MaxToolCalls, tokens : Nat]
        /\ usage'.tokens <= MaxTokens /\ calls' \in [Agents -> Nat]
    <3>1. usage' = [usage EXCEPT !.tokens = usage.tokens + tokens] /\ calls' = [calls EXCEPT ![a] = n]
          /\ usage.tokens + tokens <= MaxTokens /\ usage.tokens + tokens \in Nat
        BY <1>8, <2>1 DEF ModelReturns
    <3> QED
        BY <1>00, <2>1, <3>1
  <2>2. TypeOK'
      BY <1>8, <2>0 DEF ModelReturns, Goto, TypeOK, Places, cancelVars, steerVars
  <2>3. CASE n = 0
      BY <1>0, <1>8, <2>0, <2>2, <2>3, MoveInd DEF ModelReturns, Waiting, Places, Over
  <2>4. CASE n # 0
      BY <1>0, <1>8, <2>0, <2>2, <2>4, MoveInd DEF ModelReturns, Waiting, Places, Over
  <2> QED
      BY <2>3, <2>4
<1> QED
    BY <1>1, <1>2, <1>3, <1>4, <1>5, <1>6, <1>7, <1>8

\* An agent asks the user, and stops asking.
LEMMA AskInd ==
    ASSUME IndInv, NEW a \in Agents, Ask(a) \/ StopAsking(a)
    PROVE  IndInv'
<1> USE DEF IndInv
<1>1. ask \in [Agents -> {"not", "waits", "asked"}] /\ pc' = pc /\ usage' = usage
    BY DEF Ask, StopAsking, TypeOK
<1>2. Clock' /\ depth' \in Nat
  <2>1. CASE Ask(a)
    <3>1. Waiting' = Waiting \cup {a} /\ a \notin Waiting /\ Waiting \in SUBSET Agents
        BY <1>1, <2>1 DEF Ask, Waiting
    <3>2. Cardinality(Waiting') = Cardinality(Waiting) + 1 /\ Cardinality(Waiting) \in Nat
        BY <3>1, Counts, FS_AddElement
    <3>3. depth' = depth + 1 /\ pc[a] \in {"tool", "cleanup"}
        BY <2>1 DEF Ask
    <3> QED
        BY <1>1, <3>1, <3>2, <3>3 DEF Clock
  <2>2. CASE StopAsking(a)
    <3>1. Waiting' = Waiting \ {a} /\ Unpause({a})
        BY <1>1, <2>2 DEF StopAsking, Waiting
    <3>2. depth' = Cardinality(Waiting') /\ depth' \in Nat
        BY <3>1, Unpaused DEF Clock
    <3> QED
        BY <1>1, <3>1, <3>2 DEF Clock
  <2> QED
      BY <2>1, <2>2
<1>3. TypeOK'
    BY <1>1, <1>2 DEF Ask, StopAsking, TypeOK, cancelVars, steerVars
<1>4. Mail'
    BY <1>1, MailRests DEF Ask, StopAsking, steerVars
<1>5. OverspendsOnce'
    BY <1>1 DEF OverspendsOnce
<1> QED
    BY <1>2, <1>3, <1>4, <1>5

\* The run is aborted, time passes, a message is shown.
LEMMA AroundInd ==
    ASSUME IndInv, Abort \/ ForwardCancel \/ Tick \/ (\E m \in Messages : Show(m)) \/ UNCHANGED vars
    PROVE  IndInv'
<1> USE LimitsAssumption DEF IndInv
<1>1. UNCHANGED <<pc, ask, held, heard, usage, depth, inbox, transcript>>
    BY DEF Abort, ForwardCancel, Tick, Show, agentVars, budgetVars, steerVars, vars
<1>2. \A m \in Messages : submit'[m] = "none" <=> submit[m] = "none"
    BY DEF Abort, ForwardCancel, Tick, Show, steerVars, vars, TypeOK
<1>3. Mail'
    BY <1>1, <1>2, MailRests
<1>4. TypeOK'
  <2>1. CASE Abort \/ ForwardCancel \/ UNCHANGED vars
      BY <2>1 DEF Abort, ForwardCancel, TypeOK, agentVars, budgetVars, steerVars, vars
  <2>2. CASE Tick
    <3>1. elapsed' \in 0..MaxTime
        BY <2>2 DEF Tick, Expired, TypeOK
    <3> QED
        BY <2>2, <3>1 DEF Tick, TypeOK, agentVars, cancelVars, steerVars
  <2>3. CASE \E m \in Messages : Show(m)
      BY <2>3 DEF Show, TypeOK, agentVars, budgetVars, cancelVars
  <2> QED
      BY <2>1, <2>2, <2>3
<1>5. Clock' /\ OverspendsOnce'
    BY <1>1 DEF Clock, Waiting, OverspendsOnce
<1> QED
    BY <1>3, <1>4, <1>5
\* At its boundary an agent neither waits nor spends.
LEMMA BoundaryInd ==
    ASSUME IndInv, NEW a \in Agents, NEW w \in {"record", "clear", "reserve"},
           pc[a] \in {"boundary", "record", "clear"}, Goto(a, w),
           UNCHANGED <<ask, depth, usage>>, TypeOK', Mail'
    PROVE  IndInv'
<1>1. pc \in [Agents -> Places] /\ pc' = [pc EXCEPT ![a] = w]
    BY DEF IndInv, TypeOK, Goto
<1>2. pc'[a] = w /\ \A b \in Agents \ {a} : pc'[b] = pc[b]
    BY <1>1
<1>3. a \notin Waiting
    BY DEF IndInv, Clock
<1>4. Clock'
    BY <1>2, <1>3 DEF IndInv, Clock, Waiting
<1>5. Failed' = Failed
    BY <1>2 DEF Failed
<1>6. OverspendsOnce'
    BY <1>5 DEF IndInv, OverspendsOnce, Failed
<1> QED
    BY <1>4, <1>6 DEF IndInv

\* The whole inbox becomes the agent's.
LEMMA DrainInd ==
    ASSUME IndInv, NEW a \in Agents, Drain(a)
    PROVE  IndInv'
<1> DEFINE w == IF inbox = << >> THEN "reserve" ELSE "record"
<1>1. /\ pc[a] = "boundary" /\ Goto(a, w) /\ w \in {"record", "reserve"}
      /\ held' = [held EXCEPT ![a] = inbox] /\ inbox' = << >>
      /\ UNCHANGED <<mode, step, calls, ask, heard, usage, elapsed, depth, token, cancelled,
                     shown, transcript, submit>>
    BY DEF Drain, budgetVars, cancelVars
<1>2. TypeOK'
    BY <1>1 DEF IndInv, TypeOK, Goto, Places
<1>3. /\ held'[a] = inbox /\ \A b \in Agents \ {a} : held'[b] = held[b]
      /\ pc'[a] = w /\ \A b \in Agents \ {a} : pc'[b] = pc[b]
    BY <1>1 DEF IndInv, TypeOK, Goto
<1>4. held[a] = << >> /\ ToSet(inbox') = {} /\ IsInjective(inbox') /\ ToSet(held[a]) = {}
    BY <1>1 DEF IndInv, Mail, Holding, Over, ToSet, IsInjective
<1>5. ASSUME NEW b \in Agents PROVE Holding(b)'
  <2>1. CASE b = a
      BY <1>1, <1>3, <1>4, <2>1 DEF IndInv, Mail, Holding, Over
  <2>2. CASE b # a
      BY <1>1, <1>3, <1>4, <2>2 DEF IndInv, Mail, Holding
  <2> QED
      BY <2>1, <2>2
<1>6. ASSUME NEW b \in Agents, NEW d \in Agents, b # d PROVE Apart(b, d)'
  <2>1. Apart(b, d) /\ Holding(b) /\ Holding(d)
      BY <1>6 DEF IndInv, Mail
  <2>2. ToSet(inbox) \cap ToSet(transcript) = {}
      BY DEF IndInv, Mail
  <2> QED
      BY <1>1, <1>3, <1>6, <2>1, <2>2 DEF Apart, Holding
<1>7. ASSUME NEW m \in Messages PROVE Sent(m)'
    BY <1>1, <1>3, <1>4 DEF IndInv, Mail, Sent
<1>8. Mail'
    BY <1>1, <1>4, <1>5, <1>6, <1>7 DEF IndInv, Mail
<1> QED
    BY <1>1, <1>2, <1>8, BoundaryInd

\* What the agent holds is written to the transcript, once.
LEMMA RecordInd ==
    ASSUME IndInv, NEW a \in Agents, RecordSteering(a)
    PROVE  IndInv'
<1>1. /\ pc[a] = "record" /\ Goto(a, "clear") /\ transcript' = transcript \o held[a]
      /\ UNCHANGED <<mode, step, calls, ask, held, heard, usage, elapsed, depth, token, cancelled,
                     inbox, shown, submit>>
    BY DEF RecordSteering, budgetVars, cancelVars
<1>2. transcript \in Seq(Messages) /\ held[a] \in Seq(Messages) /\ Holding(a)
      /\ IsInjective(transcript)
    BY DEF IndInv, TypeOK, Mail
<1>3. ToSet(transcript) \cap ToSet(held[a]) = {} /\ IsInjective(held[a])
    BY <1>1, <1>2 DEF Holding
<1>4. /\ transcript' \in Seq(Messages) /\ IsInjective(transcript')
      /\ ToSet(transcript') = ToSet(transcript) \cup ToSet(held[a])
    BY <1>1, <1>2, <1>3, ConcatElements
<1>5. TypeOK'
    BY <1>1, <1>4 DEF IndInv, TypeOK, Goto, Places
<1>6. pc'[a] = "clear" /\ \A b \in Agents \ {a} : pc'[b] = pc[b]
    BY <1>1 DEF IndInv, TypeOK, Goto
<1>7. ASSUME NEW b \in Agents PROVE Holding(b)'
  <2>1. CASE b = a
      BY <1>1, <1>2, <1>4, <1>6, <2>1 DEF Holding, Over
  <2>2. CASE b # a
    <3>1. Holding(b) /\ ToSet(held[b]) \cap ToSet(held[a]) = {}
        BY <2>2 DEF IndInv, Mail, Apart
    <3> QED
        BY <1>1, <1>4, <1>6, <2>2, <3>1 DEF Holding
  <2> QED
      BY <2>1, <2>2
<1>8. ASSUME NEW m \in Messages PROVE Sent(m)'
    BY <1>1, <1>4 DEF IndInv, Mail, Sent
<1>9. Mail'
  <2>1. ToSet(inbox) \cap ToSet(transcript') = {}
      BY <1>2, <1>4 DEF IndInv, Mail, Holding
  <2> QED
      BY <1>1, <1>4, <1>7, <1>8, <2>1 DEF IndInv, Mail, Apart
<1> QED
    BY <1>1, <1>5, <1>9, BoundaryInd

\* The messages reach the conversation of the agent that drained them.
LEMMA ClearInd ==
    ASSUME IndInv, NEW a \in Agents, ClearShown(a)
    PROVE  IndInv'
<1>1. /\ pc[a] = "clear" /\ Goto(a, "reserve") /\ shown' = {}
      /\ heard' = [heard EXCEPT ![a] = @ \cup ToSet(held[a])]
      /\ held' = [held EXCEPT ![a] = << >>]
      /\ UNCHANGED <<mode, step, calls, ask, usage, elapsed, depth, token, cancelled,
                     inbox, transcript, submit>>
    BY DEF ClearShown, budgetVars, cancelVars
<1>2. held[a] \in Seq(Messages) /\ Holding(a) /\ ToSet(held[a]) \subseteq Messages
    BY DEF IndInv, TypeOK, Mail, ToSet
<1>3. TypeOK'
    BY <1>1, <1>2 DEF IndInv, TypeOK, Goto, Places
<1>4. /\ pc'[a] = "reserve" /\ \A b \in Agents \ {a} : pc'[b] = pc[b]
      /\ held'[a] = << >> /\ \A b \in Agents \ {a} : held'[b] = held[b]
      /\ heard'[a] = heard[a] \cup ToSet(held[a]) /\ \A b \in Agents \ {a} : heard'[b] = heard[b]
    BY <1>1 DEF IndInv, TypeOK, Goto
<1>5. ToSet(held'[a]) = {} /\ IsInjective(held'[a]) /\ ToSet(held[a]) \subseteq ToSet(transcript)
  <2>1. ToSet(<< >>) = {} /\ IsInjective(<< >>)
      BY DEF ToSet, IsInjective
  <2> QED
      BY <1>1, <1>2, <1>4, <2>1 DEF Holding
<1>6. ASSUME NEW b \in Agents PROVE Holding(b)'
  <2>1. CASE b = a
      BY <1>1, <1>2, <1>4, <1>5, <2>1 DEF Holding
  <2>2. CASE b # a
      BY <1>1, <1>4, <2>2 DEF IndInv, Mail, Holding
  <2> QED
      BY <2>1, <2>2
<1>7. ASSUME NEW b \in Agents, NEW d \in Agents, b # d PROVE Apart(b, d)'
  <2>1. Apart(b, d) /\ Apart(d, b)
      BY <1>7 DEF IndInv, Mail
  <2> QED
      BY <1>4, <1>5, <1>7, <2>1 DEF Apart
<1>8. ASSUME NEW m \in Messages PROVE Sent(m)'
    BY <1>1, <1>4, <1>5 DEF IndInv, Mail, Sent
<1>9. Mail'
    BY <1>1, <1>6, <1>7, <1>8 DEF IndInv, Mail
<1> QED
    BY <1>1, <1>3, <1>9, BoundaryInd

\* A message that is nowhere enters the inbox.
LEMMA EnqueueInd ==
    ASSUME IndInv, NEW m \in Messages, Enqueue(m)
    PROVE  IndInv'
<1>1. /\ submit[m] = "none" /\ inbox' = Append(inbox, m)
      /\ submit' = [submit EXCEPT ![m] = "enqueued"]
      /\ UNCHANGED <<mode, pc, step, calls, ask, held, heard, usage, elapsed, depth, token,
                     cancelled, shown, transcript>>
    BY DEF Enqueue, agentVars, budgetVars, cancelVars
<1>2. inbox \in Seq(Messages) /\ submit \in [Messages -> {"none", "enqueued", "done"}]
    BY DEF IndInv, TypeOK
<1>3. /\ m \notin ToSet(inbox) /\ m \notin ToSet(transcript)
      /\ \A a \in Agents : m \notin ToSet(held[a])
    BY <1>1 DEF IndInv, Mail, Sent
<1>4. /\ inbox' \in Seq(Messages) /\ ToSet(inbox') = ToSet(inbox) \cup {m}
      /\ IsInjective(inbox')
    BY <1>1, <1>2, <1>3, AppendElements DEF IndInv, Mail
<1>5. TypeOK'
    BY <1>1, <1>4 DEF IndInv, TypeOK
<1>6. ASSUME NEW a \in Agents PROVE Holding(a)'
    BY <1>1, <1>3, <1>4 DEF IndInv, Mail, Holding
<1>7. ASSUME NEW n \in Messages PROVE Sent(n)'
    BY <1>1, <1>2, <1>4 DEF IndInv, Mail, Sent
<1>8. Mail'
    BY <1>1, <1>3, <1>4, <1>6, <1>7 DEF IndInv, Mail, Apart
<1>9. Clock' /\ OverspendsOnce'
    BY <1>1 DEF IndInv, Clock, Waiting, OverspendsOnce
<1> QED
    BY <1>5, <1>8, <1>9 DEF IndInv

\* The turn that exceeds the budget is charged, and its agent fails.
LEMMA OverspendsInd ==
    ASSUME IndInv, NEW a \in Agents, NEW tokens \in TurnTokens, ModelOverspends(a, tokens)
    PROVE  IndInv'
<1>1. usage \in [model : 0..MaxModelCalls, tool : 0..MaxToolCalls, tokens : Nat]
      /\ usage.tokens \in Nat /\ usage' = [usage EXCEPT !.tokens = usage.tokens + tokens]
    BY DEF IndInv, TypeOK, ModelOverspends
<1>2. tokens \in Nat /\ tokens <= Dearest /\ Dearest \in Nat
    BY Counts
<1>3. /\ usage' \in [model : 0..MaxModelCalls, tool : 0..MaxToolCalls, tokens : Nat]
      /\ usage'.tokens = usage.tokens + tokens
    BY <1>1, <1>2
<1>4. usage'.tokens <= usage.tokens + Dearest
    BY <1>1, <1>2, <1>3
<1> QED
    BY <1>3, <1>4, FailInd DEF ModelOverspends, Over

---------------------------------------------------------------------------
(* The theorems.                                                            *)

\* Agents at the top, no messages.
LEMMA InitInd == Init => IndInv
<1> SUFFICES ASSUME Init PROVE IndInv
    OBVIOUS
<1>1. TypeOK
  <2>1. 0 \in 0..MaxSteps /\ 0 \in 0..MaxModelCalls /\ 0 \in 0..MaxToolCalls /\ 0 \in 0..MaxTime
      BY LimitsAssumption
  <2>2. << >> \in Seq(Messages)
      OBVIOUS
  <2>3. usage \in [model : 0..MaxModelCalls, tool : 0..MaxToolCalls, tokens : Nat]
      BY <2>1 DEF Init
  <2> QED
      BY <2>1, <2>2, <2>3 DEF Init, TypeOK, Places
<1>2. Waiting = {} /\ Failed = {}
    BY DEF Init, Waiting, Failed
<1>3. Clock
    BY <1>2, FS_EmptySet DEF Init, Clock
<1>4. ToSet(<< >>) = {} /\ IsInjective(<< >>)
    BY DEF ToSet, IsInjective
<1>5. Mail
    BY <1>4 DEF Init, Mail, Holding, Apart, Sent
<1>6. OverspendsOnce
  <2>1. usage.tokens = 0 /\ MaxTokens \in Nat /\ Dearest \in Nat
      BY LimitsAssumption, Counts DEF Init
  <2>2. Cardinality({a \in Agents : pc[a] = "failed"}) = 0
      BY <1>2, FS_EmptySet DEF Failed
  <2> QED
      BY <2>1, <2>2 DEF OverspendsOnce
<1> QED
    BY <1>1, <1>3, <1>5, <1>6 DEF IndInv

\* Every step keeps the invariant.
LEMMA NextInd == IndInv /\ [Next]_vars => IndInv'
<1> SUFFICES ASSUME IndInv, [Next]_vars PROVE IndInv'
    OBVIOUS
<1>1. ASSUME NEW a \in Agents, Poll(a) PROVE IndInv'
  <2>1. CASE BeginStep(a) \/ ReserveModelCall(a) \/ Finish(a) \/ ReserveToolCall(a)
             \/ StepEnds(a) \/ ToolCancelled(a)
      BY <2>1, PlainMoves
  <2>2. CASE Drain(a) \/ RecordSteering(a) \/ ClearShown(a)
      BY <2>2, DrainInd, RecordInd, ClearInd
  <2>3. CASE AskAborted(a)
      BY <2>3, AskInd DEF AskAborted
  <2>4. CASE StepRefused(a) \/ ModelRefused(a) \/ ModelStops(a) \/ ToolRefused(a)
             \/ ToolOutOfTime(a) \/ CleanupEnds(a)
      BY <2>4, FailOnlyInd DEF StepRefused, ModelRefused, ModelStops, ToolRefused, ToolOutOfTime,
                              CleanupEnds, Over
  <2> QED
      BY <1>1, <2>1, <2>2, <2>3, <2>4 DEF Poll
<1>2. ASSUME NEW a \in Agents, Outcome(a) PROVE IndInv'
  <2>1. ASSUME NEW tokens \in TurnTokens,
               ModelOverspends(a, tokens) \/ \E n \in TurnCalls : ModelReturns(a, tokens, n)
        PROVE  IndInv'
      BY <2>1, OverspendsInd, PlainMoves
  <2>2. CASE Ask(a) \/ ToolReturns(a)
      BY <2>2, AskInd, PlainMoves
  <2>3. CASE ModelFails(a) \/ ObserverFails(a) \/ Undeclared(a) \/ ToolFails(a)
      BY <2>3, FailOnlyInd DEF ModelFails, ObserverFails, Undeclared, ToolFails, Over
  <2> QED
      BY <1>2, <2>1, <2>2, <2>3 DEF Outcome
<1>3. ASSUME NEW a \in Agents, Answer(a) PROVE IndInv'
    BY <1>3, AskInd DEF Answer
<1>4. ASSUME NEW m \in Messages, Enqueue(m) \/ Show(m) PROVE IndInv'
    BY <1>4, EnqueueInd, AroundInd
<1>5. CASE Abort \/ ForwardCancel \/ Tick \/ UNCHANGED vars
    BY <1>5, AroundInd
<1> QED
    BY <1>1, <1>2, <1>3, <1>4, <1>5 DEF Next

\* The invariant holds in every reachable state.
THEOREM Inductive == Spec => []IndInv
BY InitInd, NextInd, PTL DEF Spec

\* Call limits and types hold, and the run's clock is paused exactly by the
\* agents that wait for the user, however branches fail, are dropped or
\* cancelled (ExecutionBudget, InteractionPauseGuard::drop).
THEOREM AgentsSoundHolds == Spec => []AgentsSound
<1>1. IndInv => AgentsSound
  <2> SUFFICES ASSUME IndInv PROVE AgentsSound
      OBVIOUS
  <2>1. {a \in Agents : ask[a] = "waits" /\ pc[a] \notin Over} = Waiting
      BY DEF IndInv, Clock, Waiting, Over
  <2> QED
      BY <2>1 DEF IndInv, Clock, AgentsSound, PausedWhileWaiting
<1> QED
    BY <1>1, Inductive, PTL

\* The shared token budget is exceeded by one turn per failed agent at most
\* (ExecutionBudget::record_tokens).
THEOREM OverspendsOnceHolds == Spec => []OverspendsOnce
<1>1. IndInv => OverspendsOnce
    BY DEF IndInv
<1> QED
    BY <1>1, Inductive, PTL

\* A sequence without repetitions has an element at one place or at none.
LEMMA PlacesOf ==
    ASSUME NEW s, NEW m, IsInjective(s)
    PROVE  Cardinality({i \in DOMAIN s : s[i] = m}) = IF m \in ToSet(s) THEN 1 ELSE 0
<1>1. CASE m \in ToSet(s)
  <2>1. PICK i \in DOMAIN s : s[i] = m
      BY <1>1 DEF ToSet
  <2>2. {j \in DOMAIN s : s[j] = m} = {i}
      BY <2>1 DEF IsInjective
  <2> QED
      BY <1>1, <2>2, FS_Singleton
<1>2. CASE m \notin ToSet(s)
  <2>1. {j \in DOMAIN s : s[j] = m} = {}
      BY <1>2 DEF ToSet
  <2> QED
      BY <1>2, <2>1, FS_EmptySet
<1> QED
    BY <1>1, <1>2

\* Among parallel agents that share one inbox a steering message is in one
\* place and is heard by one agent at most (SteeringStore::drain,
\* take_boundary_inputs).
THEOREM SteeredOnceHolds == Spec => []SteeredOnce
<1>1. ASSUME IndInv, NEW m \in Messages
      PROVE  LET drained == {a \in Agents : m \in ToSet(held[a])}
                 copies == Cardinality({i \in DOMAIN inbox : inbox[i] = m})
                           + Cardinality({i \in DOMAIN transcript : transcript[i] = m})
                           + Cardinality({a \in drained : m \notin ToSet(transcript)})
             IN  /\ copies = IF submit[m] = "none" THEN 0 ELSE 1
                 /\ Cardinality(drained \cup {a \in Agents : m \in heard[a]}) <= 1
  <2> DEFINE drained == {a \in Agents : m \in ToSet(held[a])}
             fresh == {a \in drained : m \notin ToSet(transcript)}
             takers == drained \cup {a \in Agents : m \in heard[a]}
             n1 == Cardinality({i \in DOMAIN inbox : inbox[i] = m})
             n2 == Cardinality({i \in DOMAIN transcript : transcript[i] = m})
  <2>1. n1 = (IF m \in ToSet(inbox) THEN 1 ELSE 0) /\ n2 = (IF m \in ToSet(transcript) THEN 1 ELSE 0)
      BY <1>1, PlacesOf DEF IndInv, Mail
  <2>2. \A a, b \in takers : a = b
      BY <1>1 DEF IndInv, Mail, Apart
  <2>3. Cardinality(takers) <= 1
    <3>1. takers = {} \/ \E a \in takers : takers = {a}
        BY <2>2
    <3>2. Cardinality(takers) = 0 \/ Cardinality(takers) = 1
        BY <3>1, FS_EmptySet, FS_Singleton
    <3> QED
        BY <3>2
  <2>4. Cardinality(fresh) = IF fresh = {} THEN 0 ELSE 1
    <3>1. fresh = {} \/ \E a \in fresh : fresh = {a}
        BY <2>2
    <3> QED
        BY <3>1, FS_EmptySet, FS_Singleton
  <2>5. fresh # {} <=> m \notin ToSet(transcript) /\ \E a \in Agents : m \in ToSet(held[a])
      OBVIOUS
  <2> HIDE DEF fresh, n1, n2
  <2>6. n1 + n2 + Cardinality(fresh) = IF submit[m] = "none" THEN 0 ELSE 1
    <3>1. submit[m] # "none" <=> m \in ToSet(inbox) \/ m \in ToSet(transcript) \/ fresh # {}
        BY <1>1, <2>5 DEF IndInv, Mail, Sent
    <3>2. m \in ToSet(inbox) => m \notin ToSet(transcript) /\ fresh = {}
        BY <1>1, <2>5 DEF IndInv, Mail, Holding
    <3>3. m \in ToSet(transcript) => fresh = {}
        BY <2>5
    <3> QED
        BY <2>1, <2>4, <3>1, <3>2, <3>3
  <2> QED
      BY <2>3, <2>6 DEF fresh, n1, n2
<1>2. IndInv => SteeredOnce
    BY <1>1 DEF SteeredOnce
<1> QED
    BY <1>2, Inductive, PTL
=============================================================================
