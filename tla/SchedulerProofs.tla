-------------------------- MODULE SchedulerProofs ---------------------------
(***************************************************************************)
(* Theorems about SchedulerEngine, for any runs and any valid blueprints.  *)
(* The inductive invariant has two halves.  Walk is about the engine: the  *)
(* frames of a run are the nested calls of execute_graph, each at a node   *)
(* of its blueprint, and a failure that nothing will absorb is still in    *)
(* some frame.  Books is about the capability host: what a worker writes   *)
(* was registered first, so that finalize finds it.                        *)
(***************************************************************************)
EXTENDS SchedulerEngine, FiniteSetTheorems, SequenceTheorems, TLAPS

\* The names that occur in the blueprints of all runs.
Every == UNION {Blueprints[r] : r \in Runs}

GraphNames == UNION {DOMAIN b.graphs : b \in Every}

NodeNames == UNION {UNION {DOMAIN b.graphs[g].nodes : g \in DOMAIN b.graphs} : b \in Every}

\* A path is the list of calls that leads to a frame: node and iteration.
Steps == NodeNames \X Nat

Paths == Seq(Steps)

FrameRecords ==
    [graph : GraphNames, at : NodeNames, stop : NodeNames \cup {None}, phase : Phases,
     iteration : Nat, opened : Nat, results : SUBSET NodeNames, reply : {"none", "ok", "err"},
     error : BOOLEAN, under : SUBSET Paths, sheltered : BOOLEAN]

LoopPhases == {"iterate", "checkpointing", "body", "evaluate", "restoring"}

\* The frames of a walk over b: each at a node of its graph, in a phase that
\* its kind of node has.
FramesOver(b) ==
    {fr \in FrameRecords :
        /\ fr.graph \in DOMAIN b.graphs
        /\ fr.at \in DOMAIN b.graphs[fr.graph].nodes
        /\ fr.phase \in LoopPhases =>
              b.graphs[fr.graph].nodes[fr.at].kind = "loop" /\ fr.iteration > 0
        /\ fr.phase = "branches" => b.graphs[fr.graph].nodes[fr.at].kind = "parallel"}

Keys == {<<Scope(f), n, i>> : f \in Paths, n \in NodeNames, i \in Nat}

ArtifactNames == UNION {NamesOf(r) : r \in Runs}

WorkerRecords ==
    [kind : {"checkpoint", "restore", "artifact"}, frame : Paths, key : Keys \cup ArtifactNames,
     step : {"begin", "write"}]

Shapes ==
    /\ status \in [Runs -> {"idle", "running", "committed", "failed", "dirty", "crashed"}]
    /\ cancelled \in [Runs -> BOOLEAN] /\ expired \in [Runs -> BOOLEAN]
    /\ stopped \in [Runs -> BOOLEAN] /\ fatal \in [Runs -> BOOLEAN] /\ broken \in [Runs -> BOOLEAN]
    /\ plan \in [Runs -> Every \cup {None}]
    /\ made \in [Runs -> [checkpoints : SUBSET Keys, artifacts : SUBSET ArtifactNames]]
    /\ workers \in [Runs -> SUBSET WorkerRecords]
    /\ partials \cap DOMAIN artifacts = {}
    /\ crashes \in 0 .. MaxCrashes

\* The frames of a run that is under way walk over its blueprint.
Walks(r) ==
    /\ DOMAIN frames[r] \subseteq Paths
    /\ \A f \in DOMAIN frames[r] : frames[r][f] \in FramesOver(plan[r])
    /\ status[r] = "running" => plan[r] \in Blueprints[r]
    /\ status[r] # "running" => DOMAIN frames[r] = {}

\* What a worker writes was registered by its run, and a run that is not under
\* way has neither.
Registered(r) ==
    /\ made[r].artifacts \subseteq NamesOf(r)
    /\ \A w \in workers[r] :
          /\ w.kind = "artifact" => w.key \in made[r].artifacts
          /\ w.kind = "checkpoint" => w.key \in made[r].checkpoints
    /\ status[r] # "running" =>
          workers[r] = {} /\ made[r] = [checkpoints |-> {}, artifacts |-> {}]

\* An artifact has been written by a run that did not fail, under a name of its
\* own, and that run can still take it back while it is under way.
Written(n) ==
    /\ artifacts[n] \in Runs
    /\ n \in NamesOf(artifacts[n])
    /\ status[artifacts[n]] \notin {"idle", "failed"}
    /\ status[artifacts[n]] = "running" => n \in made[artifacts[n]].artifacts

\* While no run was cut short every checkpoint is some run's to remove.
Checkpointed ==
    (\A q \in Runs : status[q] \notin {"dirty", "crashed"}) =>
        \A k \in DOMAIN checkpoints : \E q \in Runs : k \in made[q].checkpoints

\* Frame f calls the frame one step further: a branch that its parallel node has
\* opened, or the body of its loop.
Calls(r, f, s) ==
    LET caller == frames[r][f]
        callee == frames[r][Append(f, s)]
    IN  IF s[2] = 0
        THEN /\ caller.phase = "branches"
             /\ \E i \in 1..caller.opened : s[1] = Node(r, f).branches[i]
             /\ Node(r, f).mode = "Collect" => callee.sheltered
        ELSE caller.phase = "body" /\ s = <<caller.at, caller.iteration>>

\* The live calls of execute_graph are a tree, sheltered from some node on.
Tree(r) ==
    /\ IsFiniteSet(DOMAIN frames[r])
    /\ \A g \in DOMAIN frames[r] : \A f \in Paths :
          IsPrefix(f, g) => /\ f \in DOMAIN frames[r]
                            /\ frames[r][f].sheltered => frames[r][g].sheltered
    /\ \A f \in DOMAIN frames[r] : \A s \in Steps :
          Append(f, s) \in DOMAIN frames[r] => Calls(r, f, s)
    /\ \A f \in DOMAIN frames[r] :
          frames[r][f].phase = "branches" => Cardinality(Children(r, f)) <= Node(r, f).width
    /\ status[r] = "running" => << >> \in DOMAIN frames[r] /\ frames[r][<< >>].stop = None

\* A failure that no Collect branch will absorb.
Doomed(frame) ==
    ~frame.sheltered /\ (frame.phase = "failed" \/ (frame.phase = "restoring" /\ frame.error))

\* Why a run with a failure, or one that was stopped, cannot commit.
Verdict(r) ==
    /\ status[r] = "running" =>
          /\ stopped[r] => Stopping(r)
          /\ fatal[r] => \E f \in DOMAIN frames[r] : Doomed(frames[r][f])
          /\ frames[r][<< >>].phase = "done" => ~stopped[r]
    /\ status[r] \in {"idle", "committed"} => ~stopped[r] /\ ~fatal[r]

\* What is on disk and in the books of the capability host.
Books ==
    /\ Shapes
    /\ \A r \in Runs : Registered(r)
    /\ \A n \in DOMAIN artifacts : Written(n)
    /\ Checkpointed

\* What the engine does.
Walk ==
    /\ DOMAIN frames = Runs
    /\ \A r \in Runs : Walks(r) /\ Tree(r) /\ Verdict(r)

IndInv == Books /\ Walk

-----------------------------------------------------------------------------
(* Paths *)

\* A prefix agrees as far as it goes.
LEMMA PrefixMeans ==
    ASSUME NEW S, NEW f \in Seq(S), NEW g \in Seq(S)
    PROVE  IsPrefix(f, g) <=> Len(f) <= Len(g) /\ \A i \in 1..Len(f) : f[i] = g[i]
<1>1. SubSeq(f, 1, Len(f)) = f
    OBVIOUS
<1>2. ASSUME Len(f) <= Len(g)
      PROVE  f = SubSeq(g, 1, Len(f)) <=> \A i \in 1..Len(f) : f[i] = g[i]
  <2> DEFINE h == SubSeq(g, 1, Len(f))
  <2>1. h \in Seq(S) /\ Len(h) = Len(f) /\ \A i \in 1..Len(f) : h[i] = g[i]
      BY <1>2
  <2> HIDE DEF h
  <2>2. (\A i \in 1..Len(f) : f[i] = h[i]) => f = h
      BY <2>1, SeqEqual
  <2> QED
      BY <2>1, <2>2 DEF h
<1> QED
    BY <1>1, <1>2 DEF IsPrefix

\* The shortest and the longest prefix of a path, and those between.
LEMMA PrefixBounds ==
    ASSUME NEW S, NEW f \in Seq(S), NEW g \in Seq(S)
    PROVE  /\ IsPrefix(f, f) /\ IsPrefix(<< >>, f)
           /\ IsPrefix(f, g) /\ f # g => Len(f) < Len(g)
<1>1. IsPrefix(f, f)
    BY PrefixMeans
<1>2. IsPrefix(<< >>, f)
  <2>1. << >> \in Seq(S) /\ Len(<< >>) = 0
      OBVIOUS
  <2>2. SubSeq(<< >>, 1, 0) = << >> /\ SubSeq(f, 1, 0) = << >>
      BY SubSeqEmpty
  <2> QED
      BY <2>1, <2>2 DEF IsPrefix
<1>3. IsPrefix(f, g) /\ f # g => Len(f) < Len(g)
    BY PrefixMeans, SeqEqual
<1> QED
    BY <1>1, <1>2, <1>3

\* The prefixes of a path that is one step longer.
LEMMA PrefixOfAppend ==
    ASSUME NEW S, NEW f \in Seq(S), NEW g \in Seq(S), NEW s \in S
    PROVE  /\ Append(g, s) \in Seq(S) /\ Len(Append(g, s)) = Len(g) + 1
           /\ IsPrefix(f, Append(g, s)) <=> IsPrefix(f, g) \/ f = Append(g, s)
<1> DEFINE a == Append(g, s)
<1>1. a \in Seq(S) /\ Len(a) = Len(g) + 1 /\ a[Len(g) + 1] = s /\ \A i \in 1..Len(g) : a[i] = g[i]
    OBVIOUS
<1> HIDE DEF a
<1>2. IsPrefix(f, a) <=> Len(f) <= Len(a) /\ \A i \in 1..Len(f) : f[i] = a[i]
  <2>1. a \in Seq(S)
      BY <1>1
  <2> QED
      BY <2>1, PrefixMeans
<1>3. IsPrefix(f, g) <=> Len(f) <= Len(g) /\ \A i \in 1..Len(f) : f[i] = g[i]
    BY PrefixMeans
<1>4. f = a <=> Len(f) = Len(a) /\ \A i \in 1..Len(f) : f[i] = a[i]
    BY <1>1, SeqEqual
<1>5. IsPrefix(f, a) <=> IsPrefix(f, g) \/ f = a
    BY <1>1, <1>2, <1>3, <1>4
<1> QED
    BY <1>1, <1>5 DEF a

\* A prefix of a prefix is one.
LEMMA PrefixTransitive ==
    ASSUME NEW S, NEW f \in Seq(S), NEW g \in Seq(S), NEW h \in Seq(S), IsPrefix(f, g), IsPrefix(g, h)
    PROVE  IsPrefix(f, h)
<1>1. /\ Len(f) <= Len(g) /\ \A i \in 1..Len(f) : f[i] = g[i]
      /\ Len(g) <= Len(h) /\ \A i \in 1..Len(g) : g[i] = h[i]
    BY PrefixMeans
<1>2. Len(f) \in Nat /\ Len(g) \in Nat /\ Len(h) \in Nat
    OBVIOUS
<1>3. Len(f) <= Len(h) /\ \A i \in 1..Len(f) : f[i] = h[i]
    BY <1>1, <1>2
<1> QED
    BY <1>3, PrefixMeans

\* Two prefixes of a path are comparable; f's next step in g.
LEMMA PrefixNext ==
    ASSUME NEW S, NEW f \in Seq(S), NEW g \in Seq(S), IsPrefix(f, g), f # g
    PROVE  \E s \in S : IsPrefix(Append(f, s), g)
<1> DEFINE s == g[Len(f) + 1]
           a == Append(f, s)
<1>1. Len(f) < Len(g) /\ \A i \in 1..Len(f) : f[i] = g[i]
  <2>1. Len(f) <= Len(g) /\ \A i \in 1..Len(f) : f[i] = g[i]
      BY PrefixMeans
  <2>2. Len(f) # Len(g)
      BY <2>1, SeqEqual
  <2> QED
      BY <2>1, <2>2
<1>2. s \in S
    BY <1>1
<1>3. a \in Seq(S) /\ Len(a) = Len(f) + 1 /\ a[Len(f) + 1] = s /\ \A i \in 1..Len(f) : a[i] = f[i]
    BY <1>2
<1>4. Len(a) <= Len(g) /\ \A i \in 1..Len(a) : a[i] = g[i]
    BY <1>1, <1>3
<1>5. IsPrefix(a, g)
    BY <1>3, <1>4, PrefixMeans
<1> QED
    BY <1>2, <1>5

\* A path that ends in a step.
LEMMA PathParts ==
    ASSUME NEW S, NEW g \in Seq(S), g # << >>
    PROVE  Front(g) \in Seq(S) /\ Last(g) \in S /\ g = Append(Front(g), Last(g))
<1>1. Len(g) \in Nat \ {0}
    OBVIOUS
<1>2. Front(g) \in Seq(S) /\ Len(Front(g)) = Len(g) - 1 /\ \A i \in 1..(Len(g) - 1) : Front(g)[i] = g[i]
  <2>1. Front(g) = SubSeq(g, 1, Len(g) - 1)
      BY DEF Front
  <2>2. ASSUME NEW k \in 1..Len(g)
        PROVE  /\ SubSeq(g, 1, k - 1) \in Seq(S) /\ Len(SubSeq(g, 1, k - 1)) = k - 1
               /\ \A i \in 1..(k - 1) : SubSeq(g, 1, k - 1)[i] = g[i]
      OBVIOUS
  <2>3. Len(g) \in 1..Len(g)
      BY <1>1
  <2> QED
      BY <2>1, <2>2, <2>3
<1>3. Last(g) \in S /\ Last(g) = g[Len(g)]
    BY <1>1 DEF Last
<1> DEFINE a == Append(Front(g), Last(g))
<1>4. a \in Seq(S) /\ Len(a) = Len(g) /\ \A i \in 1..Len(g) : a[i] = g[i]
    BY <1>1, <1>2, <1>3
<1> QED
    BY <1>2, <1>3, <1>4, SeqEqual

-----------------------------------------------------------------------------
(* Blueprints *)

\* The targets of a node are nodes of its graph.
LEMMA Targets ==
    ASSUME NEW r \in Runs, NEW b \in Blueprints[r], NEW g \in DOMAIN b.graphs,
           NEW n \in DOMAIN b.graphs[g].nodes
    PROVE  LET node == b.graphs[g].nodes[n]
               N == DOMAIN b.graphs[g].nodes
           IN  /\ node.kind = "agent" => node.next \in N
               /\ node.kind = "parallel" => /\ node.join \in N
                                            /\ \A i \in 1..Len(node.branches) : node.branches[i] \in N
               /\ node.kind = "gate" => node.pass \in N /\ node.fail \in N /\ node.unsure \in N
               /\ node.kind = "loop" => node.satisfied \in N /\ node.exhausted \in N
<1> DEFINE node == b.graphs[g].nodes[n]
           N == DOMAIN b.graphs[g].nodes
<1>1. Outgoing(node) \subseteq N
    BY ValidatedAssumption DEF ValidBlueprint, ValidGraph
<1>2. node.kind = "parallel" => node.branches \in Seq(N)
    BY NestedAssumption
<1>3. node.kind \in {"agent", "parallel", "gate", "loop", "end"}
    BY NestedAssumption
<1> HIDE DEF node, N
<1>4. node.kind = "agent" => node.next \in N
    BY <1>1 DEF Outgoing
<1>5. node.kind = "parallel" => node.join \in N /\ \A i \in 1..Len(node.branches) : node.branches[i] \in N
  <2>1. node.kind = "parallel" => node.join \in N
      BY <1>1 DEF Outgoing
  <2> QED
      BY <1>2, <2>1
<1>6. node.kind = "gate" => node.pass \in N /\ node.fail \in N /\ node.unsure \in N
    BY <1>1 DEF Outgoing
<1>7. node.kind = "loop" => node.satisfied \in N /\ node.exhausted \in N
    BY <1>1 DEF Outgoing
<1> QED
    BY <1>4, <1>5, <1>6, <1>7 DEF node, N

\* A walk begins at a node of its graph.
LEMMA Entries ==
    ASSUME NEW r \in Runs, NEW b \in Blueprints[r]
    PROVE  /\ b.root \in DOMAIN b.graphs
           /\ \A g \in DOMAIN b.graphs :
                 /\ g \in GraphNames
                 /\ b.graphs[g].entry \in DOMAIN b.graphs[g].nodes
                 /\ DOMAIN b.graphs[g].nodes \subseteq NodeNames
                 /\ \A n \in DOMAIN b.graphs[g].nodes :
                       /\ b.graphs[g].nodes[n].kind = "loop" => b.graphs[g].nodes[n].body \in DOMAIN b.graphs
                       /\ b.graphs[g].nodes[n].kind = "end" => b.graphs[g].nodes[n].name \in NamesOf(r)
<1>1. b \in Every
    BY DEF Every
<1>2. \A g \in DOMAIN b.graphs : b.graphs[g].entry \in DOMAIN b.graphs[g].nodes
    BY ValidatedAssumption DEF ValidBlueprint, ValidGraph
<1>3. b.root \in DOMAIN b.graphs
    BY NestedAssumption
<1>4. \A g \in DOMAIN b.graphs : g \in GraphNames /\ DOMAIN b.graphs[g].nodes \subseteq NodeNames
    BY <1>1 DEF GraphNames, NodeNames
<1>5. ASSUME NEW g \in DOMAIN b.graphs, NEW n \in DOMAIN b.graphs[g].nodes
      PROVE  /\ b.graphs[g].nodes[n].kind = "loop" => b.graphs[g].nodes[n].body \in DOMAIN b.graphs
             /\ b.graphs[g].nodes[n].kind = "end" => b.graphs[g].nodes[n].name \in NamesOf(r)
  <2>1. b.graphs[g].nodes[n].kind = "loop" => b.graphs[g].nodes[n].body \in DOMAIN b.graphs
      BY NestedAssumption
  <2>2. b.graphs[g].nodes[n].kind = "end" => b.graphs[g].nodes[n].name \in NamesOf(r)
    <3>1. b.graphs[g].nodes[n].kind = "end" => b.graphs[g].nodes[n].name \in EndNames(b.graphs[g])
        BY DEF EndNames
    <3>2. EndNames(b.graphs[g]) \subseteq UNION {EndNames(b.graphs[h]) : h \in DOMAIN b.graphs}
        OBVIOUS
    <3> QED
        BY <3>1, <3>2 DEF NamesOf
  <2> QED
      BY <2>1, <2>2
<1> QED
    BY <1>2, <1>3, <1>4, <1>5

-----------------------------------------------------------------------------
(* Frames *)

\* A run with frames is under way.
LEMMA Live ==
    ASSUME Walk, NEW r \in Runs, NEW f \in DOMAIN frames[r]
    PROVE  /\ status[r] = "running" /\ plan[r] \in Blueprints[r]
           /\ f \in Paths /\ frames[r][f] \in FramesOver(plan[r])
BY DEF Walk, Walks

\* The fields of a frame.
LEMMA FrameFields ==
    ASSUME NEW b, NEW fr \in FramesOver(b)
    PROVE  /\ fr = [graph |-> fr.graph, at |-> fr.at, stop |-> fr.stop, phase |-> fr.phase,
                    iteration |-> fr.iteration, opened |-> fr.opened, results |-> fr.results,
                    reply |-> fr.reply, error |-> fr.error, under |-> fr.under,
                    sheltered |-> fr.sheltered]
           /\ fr.phase \in Phases /\ fr.iteration \in Nat /\ fr.opened \in Nat
           /\ fr.results \in SUBSET NodeNames /\ fr.reply \in {"none", "ok", "err"}
           /\ fr.error \in BOOLEAN /\ fr.at \in NodeNames /\ fr.graph \in DOMAIN b.graphs
           /\ fr.stop \in NodeNames \cup {None} /\ fr.under \in SUBSET Paths
           /\ fr.sheltered \in BOOLEAN
           /\ fr.at \in DOMAIN b.graphs[fr.graph].nodes
           /\ fr.phase \in LoopPhases =>
                 b.graphs[fr.graph].nodes[fr.at].kind = "loop" /\ fr.iteration > 0
           /\ fr.phase = "branches" => b.graphs[fr.graph].nodes[fr.at].kind = "parallel"
<1>1. fr \in FrameRecords
    BY DEF FramesOver
<1> QED
    BY <1>1 DEF FramesOver, FrameRecords

\* A frame that returns, or waits for an answer, at the node it is at.
LEMMA FrameReturns ==
    ASSUME NEW b, NEW fr \in FramesOver(b), DOMAIN b.graphs[fr.graph].nodes \subseteq NodeNames
    PROVE  /\ \A p \in {"done", "failed"} : [fr EXCEPT !.phase = p] \in FramesOver(b)
           /\ [fr EXCEPT !.phase = "storing", !.reply = "none"] \in FramesOver(b)
           /\ [fr EXCEPT !.phase = "done", !.results = @ \cup {fr.at}] \in FramesOver(b)
           /\ \A y \in {"none", "ok", "err"} : [fr EXCEPT !.reply = y] \in FramesOver(b)
           /\ \A R \in SUBSET NodeNames : [fr EXCEPT !.results = @ \cup R] \in FramesOver(b)
           /\ \A o \in Nat : [fr EXCEPT !.opened = o] \in FramesOver(b)
<1> USE DEF FramesOver, FrameRecords, LoopPhases, Phases
<1>1. \A p \in {"done", "failed"} : [fr EXCEPT !.phase = p] \in FramesOver(b)
    OBVIOUS
<1>2. [fr EXCEPT !.phase = "storing", !.reply = "none"] \in FramesOver(b)
    OBVIOUS
<1>3. [fr EXCEPT !.phase = "done", !.results = @ \cup {fr.at}] \in FramesOver(b)
    OBVIOUS
<1>4. \A y \in {"none", "ok", "err"} : [fr EXCEPT !.reply = y] \in FramesOver(b)
    OBVIOUS
<1>5. \A R \in SUBSET NodeNames : [fr EXCEPT !.results = @ \cup R] \in FramesOver(b)
    OBVIOUS
<1>6. \A o \in Nat : [fr EXCEPT !.opened = o] \in FramesOver(b)
    OBVIOUS
<1> QED
    BY <1>1, <1>2, <1>3, <1>4, <1>5, <1>6

\* A frame that goes on to a node of its graph, or to the next part of a node.
LEMMA FrameGoes ==
    ASSUME NEW b, NEW fr \in FramesOver(b), DOMAIN b.graphs[fr.graph].nodes \subseteq NodeNames
    PROVE  /\ \A n \in DOMAIN b.graphs[fr.graph].nodes :
                 Go(fr, n) \in FramesOver(b) /\ Record(fr, n) \in FramesOver(b)
           /\ \A p \in {"agent", "gate"} : [fr EXCEPT !.phase = p, !.opened = 0] \in FramesOver(b)
           /\ b.graphs[fr.graph].nodes[fr.at].kind = "parallel" =>
                 [fr EXCEPT !.phase = "branches", !.opened = 0] \in FramesOver(b)
<1> USE DEF FramesOver, FrameRecords, LoopPhases, Phases
<1>1. ASSUME NEW n \in DOMAIN b.graphs[fr.graph].nodes
      PROVE  Go(fr, n) \in FramesOver(b) /\ Record(fr, n) \in FramesOver(b)
    BY DEF Go, Record
<1>2. \A p \in {"agent", "gate"} : [fr EXCEPT !.phase = p, !.opened = 0] \in FramesOver(b)
    OBVIOUS
<1>3. b.graphs[fr.graph].nodes[fr.at].kind = "parallel" =>
         [fr EXCEPT !.phase = "branches", !.opened = 0] \in FramesOver(b)
    OBVIOUS
<1> QED
    BY <1>1, <1>2, <1>3

\* The frame of a loop node.
LEMMA FrameLoops ==
    ASSUME NEW b, NEW fr \in FramesOver(b), DOMAIN b.graphs[fr.graph].nodes \subseteq NodeNames,
           b.graphs[fr.graph].nodes[fr.at].kind = "loop"
    PROVE  /\ [fr EXCEPT !.phase = "iterate", !.iteration = 1] \in FramesOver(b)
           /\ Again(fr) \in FramesOver(b)
           /\ fr.iteration > 0 =>
                /\ \A p \in {"body", "checkpointing"} :
                      [fr EXCEPT !.phase = p, !.reply = "none"] \in FramesOver(b)
                /\ [fr EXCEPT !.phase = "evaluate", !.results = @ \cup {fr.at}] \in FramesOver(b)
                /\ \A e \in BOOLEAN : [fr EXCEPT !.phase = "restoring", !.reply = "none", !.error = e]
                                           \in FramesOver(b)
<1> USE DEF FramesOver, FrameRecords, LoopPhases, Phases
<1>0. ASSUME NEW i \in Nat, i > 0
      PROVE  [fr EXCEPT !.phase = "iterate", !.iteration = i] \in FramesOver(b)
    BY <1>0
<1>1. [fr EXCEPT !.phase = "iterate", !.iteration = 1] \in FramesOver(b)
  <2> HIDE DEF FramesOver, FrameRecords, LoopPhases, Phases
  <2>1. 1 \in Nat /\ 1 > 0
      OBVIOUS
  <2> QED
      BY <1>0, <2>1
<1>2. Again(fr) \in FramesOver(b)
  <2>1. fr.iteration + 1 \in Nat /\ fr.iteration + 1 > 0
      OBVIOUS
  <2> QED
      BY <1>0, <2>1 DEF Again
<1>3. ASSUME fr.iteration > 0, NEW p \in {"body", "checkpointing"}
      PROVE  [fr EXCEPT !.phase = p, !.reply = "none"] \in FramesOver(b)
    BY <1>3
<1>4. ASSUME fr.iteration > 0
      PROVE  [fr EXCEPT !.phase = "evaluate", !.results = @ \cup {fr.at}] \in FramesOver(b)
    BY <1>4
<1>5. ASSUME fr.iteration > 0, NEW e \in BOOLEAN
      PROVE  [fr EXCEPT !.phase = "restoring", !.reply = "none", !.error = e] \in FramesOver(b)
    BY <1>5
<1> QED
    BY <1>1, <1>2, <1>3, <1>4, <1>5

-----------------------------------------------------------------------------
(* The tree of calls *)

\* A callee is one step further than its caller.
LEMMA OneStep ==
    ASSUME NEW f \in Paths, NEW g \in Paths
    PROVE  Len(g) = Len(f) + 1 /\ IsPrefix(f, g) <=> \E s \in Steps : g = Append(f, s)
<1>1. ASSUME Len(g) = Len(f) + 1, IsPrefix(f, g)
      PROVE  \E s \in Steps : g = Append(f, s)
  <2>1. f # g
      BY <1>1 DEF Paths
  <2>2. PICK s \in Steps : IsPrefix(Append(f, s), g)
      BY <1>1, <2>1, PrefixNext DEF Paths
  <2>3. Append(f, s) \in Paths /\ Len(Append(f, s)) = Len(f) + 1
      BY PrefixOfAppend DEF Paths
  <2>4. Append(f, s) # g => Len(Append(f, s)) < Len(g)
    <3> DEFINE a == Append(f, s)
    <3>1. a \in Seq(Steps) /\ g \in Seq(Steps) /\ IsPrefix(a, g)
        BY <2>2, <2>3 DEF Paths
    <3> HIDE DEF a
    <3>2. a # g => Len(a) < Len(g)
        BY <3>1, PrefixBounds
    <3> QED
        BY <3>2 DEF a
  <2> QED
      BY <1>1, <2>3, <2>4 DEF Paths
<1>2. ASSUME NEW s \in Steps, g = Append(f, s)
      PROVE  Len(g) = Len(f) + 1 /\ IsPrefix(f, g)
    BY <1>2, PrefixOfAppend, PrefixBounds DEF Paths
<1> QED
    BY <1>1, <1>2

\* The frames that f calls.
LEMMA ChildrenAre ==
    ASSUME Walk, NEW r \in Runs, NEW f \in DOMAIN frames[r]
    PROVE  Children(r, f) = {g \in DOMAIN frames[r] : \E s \in Steps : g = Append(f, s)}
<1>1. DOMAIN frames[r] \subseteq Paths
    BY DEF Walk, Walks
<1> QED
    BY <1>1, OneStep DEF Children

\* A frame that waits for no callee has none.
LEMMA Leaf ==
    ASSUME Walk, NEW r \in Runs, NEW f \in DOMAIN frames[r],
           frames[r][f].phase \notin {"branches", "body"}
    PROVE  /\ \A s \in Steps : Append(f, s) \notin DOMAIN frames[r]
           /\ \A h \in DOMAIN frames[r] : IsPrefix(f, h) => h = f
<1>1. DOMAIN frames[r] \subseteq Paths /\ Tree(r)
    BY DEF Walk, Walks
<1>2. ASSUME NEW s \in Steps
      PROVE  Append(f, s) \notin DOMAIN frames[r]
    BY <1>1 DEF Tree, Calls
<1>3. ASSUME NEW h \in DOMAIN frames[r], IsPrefix(f, h), h # f
      PROVE  FALSE
  <2>1. PICK s \in Steps : IsPrefix(Append(f, s), h)
      BY <1>1, <1>3, PrefixNext DEF Paths
  <2>2. Append(f, s) \in Paths
      BY <1>1 DEF Paths
  <2>3. Append(f, s) \in DOMAIN frames[r]
      BY <1>1, <2>1, <2>2 DEF Tree
  <2> QED
      BY <1>2, <2>3
<1> QED
    BY <1>2, <1>3

\* When the root has returned it is the only frame.
LEMMA RootAlone ==
    ASSUME Walk, NEW r \in Runs, NEW f \in DOMAIN frames[r], Returned(r, << >>)
    PROVE  f = << >>
<1>1. << >> \in DOMAIN frames[r] /\ f \in Paths
    BY Live DEF Walk, Tree
<1>2. IsPrefix(<< >>, f)
    BY <1>1, PrefixBounds DEF Paths
<1>3. frames[r][<< >>].phase \notin {"branches", "body"}
    BY DEF Returned
<1> QED
    BY <1>1, <1>2, <1>3, Leaf

-----------------------------------------------------------------------------
(* The forms of a step of the engine *)

\* Frame f of r becomes new, and of the frames of r those of D stay.
Becomes(r, f, new, D) ==
    /\ DOMAIN frames' = Runs
    /\ \A q \in Runs \ {r} : frames'[q] = frames[q]
    /\ DOMAIN frames'[r] = D
    /\ \A h \in D : frames'[r][h] = IF h = f THEN new ELSE frames[r][h]
    /\ f \in D /\ D \subseteq DOMAIN frames[r]
    /\ \A h \in D : \A e \in Paths : IsPrefix(e, h) => e \in D

\* The fields of a frame that say what its callees are.
Kept(new, old) ==
    /\ new.phase = old.phase /\ new.graph = old.graph /\ new.at = old.at
    /\ new.opened = old.opened /\ new.iteration = old.iteration

\* What the step of a frame does not change about its place in the tree.
InPlace(new, old) == new.sheltered = old.sheltered /\ new.stop = old.stop

\* Set changes one frame.
LEMMA SetBecomes ==
    ASSUME Walk, NEW r \in Runs, NEW f \in DOMAIN frames[r], NEW new, Set(r, f, new)
    PROVE  Becomes(r, f, new, DOMAIN frames[r])
<1>1. /\ DOMAIN frames' = Runs /\ frames'[r] = [frames[r] EXCEPT ![f] = new]
      /\ \A q \in Runs \ {r} : frames'[q] = frames[q]
    BY DEF Walk, Set
<1>2. \A h \in DOMAIN frames[r] : \A e \in Paths : IsPrefix(e, h) => e \in DOMAIN frames[r]
    BY DEF Walk, Tree
<1> QED
    BY <1>1, <1>2 DEF Becomes

\* Collapse keeps the frames that are not below f.
LEMMA CollapseBecomes ==
    ASSUME Walk, NEW r \in Runs, NEW f \in DOMAIN frames[r], NEW new, Collapse(r, f, new)
    PROVE  \E D : /\ Becomes(r, f, new, D)
                  /\ D = {h \in DOMAIN frames[r] : ~(IsPrefix(f, h) /\ f # h)}
                  /\ \A s \in Steps : Append(f, s) \notin D
<1> DEFINE D == {h \in DOMAIN frames[r] : ~(IsPrefix(f, h) /\ f # h)}
<1>1. /\ DOMAIN frames' = Runs /\ frames'[r] = [g \in D |-> IF g = f THEN new ELSE frames[r][g]]
      /\ \A q \in Runs \ {r} : frames'[q] = frames[q]
    BY DEF Walk, Collapse, IsStrictPrefix
<1>2. DOMAIN frames[r] \subseteq Paths /\ f \in Paths
    BY DEF Walk, Walks
<1>3. ASSUME NEW h \in D, NEW e \in Paths, IsPrefix(e, h)
      PROVE  e \in D
  <2>1. e \in DOMAIN frames[r]
      BY <1>3 DEF Walk, Tree
  <2>2. ASSUME IsPrefix(f, e), f # e
        PROVE  IsPrefix(f, h) /\ f # h
    <3>1. IsPrefix(f, h)
        BY <1>2, <1>3, <2>2, PrefixTransitive DEF Paths
    <3>2. Len(f) < Len(e) /\ Len(e) <= Len(h)
        BY <1>2, <1>3, <2>2, PrefixBounds, PrefixMeans DEF Paths
    <3> QED
        BY <1>2, <3>1, <3>2 DEF Paths
  <2> QED
      BY <2>1, <2>2
<1>4. ASSUME NEW s \in Steps
      PROVE  Append(f, s) \notin D
  <2>1. Append(f, s) \in Paths /\ Len(Append(f, s)) = Len(f) + 1 /\ Len(f) \in Nat
      BY <1>2, PrefixOfAppend DEF Paths
  <2>2. IsPrefix(f, Append(f, s))
      BY <1>2, <2>1, OneStep
  <2> QED
      BY <2>1, <2>2
<1>5. f \in D
    OBVIOUS
<1>6. Becomes(r, f, new, D)
    BY <1>1, <1>3, <1>5 DEF Becomes
<1> QED
    BY <1>4, <1>6

\* The frames of r still walk over its blueprint.
LEMMA BecomesWalks ==
    ASSUME Walk, NEW r \in Runs, NEW f \in DOMAIN frames[r], NEW D, NEW new \in FramesOver(plan[r]),
           Becomes(r, f, new, D), UNCHANGED <<status, plan>>
    PROVE  Walks(r)'
BY DEF Walk, Walks, Becomes

\* The frames of r are still a tree.
LEMMA BecomesTree ==
    ASSUME Walk, NEW r \in Runs, NEW f \in DOMAIN frames[r], NEW D, NEW new \in FramesOver(plan[r]),
           Becomes(r, f, new, D), InPlace(new, frames[r][f]), UNCHANGED <<status, plan>>,
           (\A s \in Steps : Append(f, s) \notin D) \/ Kept(new, frames[r][f])
    PROVE  Tree(r)'
<1>1. Tree(r) /\ DOMAIN frames[r] \subseteq Paths /\ Walks(r)
    BY DEF Walk, Walks
<1>2. /\ DOMAIN frames'[r] = D /\ f \in D /\ D \subseteq DOMAIN frames[r] /\ D \subseteq Paths
      /\ \A h \in D : frames'[r][h] = IF h = f THEN new ELSE frames[r][h]
      /\ \A h \in D : \A e \in Paths : IsPrefix(e, h) => e \in D
    BY <1>1 DEF Becomes
<1>3. \A h \in D : frames'[r][h].sheltered = frames[r][h].sheltered /\ frames'[r][h].stop = frames[r][h].stop
    BY <1>2 DEF InPlace
<1>4. \A h \in D : h # f => Node(r, h)' = Node(r, h)
    BY <1>2 DEF Node
<1>5. Kept(new, frames[r][f]) => Node(r, f)' = Node(r, f)
    BY <1>2 DEF Node, Kept
<1>6. IsFiniteSet(D) /\ \A h \in D : IsFiniteSet(Children(r, h))
    BY <1>1, <1>2, FS_Subset DEF Tree, Children
<1>7. ASSUME NEW g \in D, NEW h \in Paths, IsPrefix(h, g)
      PROVE  h \in D /\ (frames'[r][h].sheltered => frames'[r][g].sheltered)
    BY <1>1, <1>2, <1>3, <1>7 DEF Tree
<1>8. ASSUME NEW h \in D, NEW s \in Steps, Append(h, s) \in D
      PROVE  Calls(r, h, s)'
  <2>1. Calls(r, h, s)
      BY <1>1, <1>2, <1>8 DEF Tree
  <2>2. CASE h # f
      BY <2>1, <2>2, <1>2, <1>3, <1>4, <1>8 DEF Calls
  <2>3. CASE h = f
    <3>1. Kept(new, frames[r][f])
        BY <1>8, <2>3
    <3> QED
        BY <2>1, <2>3, <3>1, <1>2, <1>3, <1>5, <1>8 DEF Calls, Kept
  <2> QED
      BY <2>2, <2>3
<1>9. ASSUME NEW h \in D, frames'[r][h].phase = "branches"
      PROVE  Cardinality(Children(r, h)') <= Node(r, h)'.width
  <2>1. Children(r, h)' \subseteq Children(r, h)
      BY <1>2 DEF Children
  <2>2. Children(r, h)' \subseteq D /\ D \subseteq Paths
      BY <1>2 DEF Children
  <2>3. Cardinality(Children(r, h)') <= Cardinality(Children(r, h)) /\ Cardinality(Children(r, h)') \in Nat
        /\ Cardinality(Children(r, h)) \in Nat
      BY <1>6, <2>1, FS_Subset, FS_CardinalityType
  <2>4. Node(r, h)'.width \in Nat
    <3>1. frames'[r][h] \in FramesOver(plan[r]) /\ plan'[r] = plan[r] /\ plan[r] \in Blueprints[r]
        BY <1>1, <1>2, Live DEF Walks
    <3>2. Node(r, h)'.kind = "parallel"
        BY <1>9, <3>1, FrameFields DEF Node
    <3>3. /\ frames'[r][h].graph \in DOMAIN plan[r].graphs
          /\ frames'[r][h].at \in DOMAIN plan[r].graphs[frames'[r][h].graph].nodes
        BY <3>1, FrameFields
    <3> QED
        BY <3>1, <3>2, <3>3, NestedAssumption DEF Node
  <2>5. CASE h # f \/ Kept(new, frames[r][f])
    <3>1. frames[r][h].phase = "branches" /\ Node(r, h)' = Node(r, h)
        BY <1>2, <1>4, <1>5, <1>9, <2>5 DEF Kept
    <3>2. Cardinality(Children(r, h)) <= Node(r, h).width
        BY <1>1, <1>2, <3>1 DEF Tree
    <3> QED
        BY <2>3, <2>4, <3>1, <3>2
  <2>6. CASE h = f /\ \A s \in Steps : Append(f, s) \notin D
    <3>1. ASSUME NEW g \in Children(r, h)'
          PROVE  FALSE
      <4>1. g \in D /\ g \in Paths /\ f \in Paths /\ Len(g) = Len(f) + 1 /\ IsPrefix(f, g)
          BY <1>2, <2>6, <3>1 DEF Children
      <4>2. \E s \in Steps : g = Append(f, s)
          BY <4>1, OneStep
      <4> QED
          BY <2>6, <4>1, <4>2
    <3> QED
        BY <3>1, <2>4, FS_EmptySet
  <2> QED
      BY <2>5, <2>6
<1>10. status[r] = "running" => << >> \in D /\ frames'[r][<< >>].stop = None
  <2>1. << >> \in Paths /\ IsPrefix(<< >>, f)
      BY <1>1, <1>2, PrefixBounds DEF Paths
  <2> QED
      BY <1>1, <1>2, <1>3, <2>1 DEF Tree
<1> QED
    BY <1>2, <1>6, <1>7, <1>8, <1>9, <1>10 DEF Tree

\* The frames of a run that nothing happens to.
LEMMA SameFrames ==
    ASSUME Walk, NEW q \in Runs, frames'[q] = frames[q], status'[q] = status[q], plan'[q] = plan[q]
    PROVE  Walks(q)' /\ Tree(q)'
<1>1. Walks(q) /\ Tree(q)
    BY DEF Walk
<1>2. Walks(q)'
    BY <1>1 DEF Walks
<1>3. \A f : Node(q, f)' = Node(q, f) /\ Children(q, f)' = Children(q, f)
    BY DEF Node, Children
<1>4. \A f, s : Calls(q, f, s)' <=> Calls(q, f, s)
    BY <1>3 DEF Calls
<1>5. Tree(q)'
    BY <1>1, <1>3, <1>4 DEF Tree
<1> QED
    BY <1>2, <1>5

\* What happens to another run.
LEMMA Elsewhere ==
    ASSUME Walk, NEW q \in Runs, frames'[q] = frames[q], status'[q] = status[q], plan'[q] = plan[q],
           cancelled'[q] = cancelled[q], expired'[q] = expired[q], stopped'[q] = stopped[q],
           fatal'[q] = fatal[q]
    PROVE  Walks(q)' /\ Tree(q)' /\ Verdict(q)'
<1>1. Verdict(q)'
    BY DEF Walk, Verdict, Stopping
<1> QED
    BY <1>1, SameFrames

\* The verdict on r: no failure is forgotten, and a stopped run does not return.
LEMMA BecomesVerdict ==
    ASSUME Walk, NEW r \in Runs, NEW f \in DOMAIN frames[r], NEW D, NEW new,
           Becomes(r, f, new, D), UNCHANGED <<status, cancelled, expired>>,
           stopped'[r] => stopped[r] \/ Stopping(r),
           fatal'[r] => fatal[r] \/ Doomed(new),
           \A h \in DOMAIN frames[r] : Doomed(frames[r][h]) => (h \in D /\ h # f) \/ Doomed(new),
           f = << >> /\ new.phase = "done" => ~stopped'[r]
    PROVE  Verdict(r)'
<1>1. status[r] = "running" /\ Verdict(r) /\ Stopping(r)' = Stopping(r)
    BY Live DEF Walk, Stopping
<1>2. /\ DOMAIN frames'[r] = D /\ f \in D /\ D \subseteq DOMAIN frames[r]
      /\ \A h \in D : frames'[r][h] = IF h = f THEN new ELSE frames[r][h]
    BY DEF Becomes
<1>3. stopped'[r] => Stopping(r)'
    BY <1>1 DEF Verdict
<1>4. fatal'[r] => \E h \in DOMAIN frames'[r] : Doomed(frames'[r][h])
  <2>1. Doomed(new) => \E h \in DOMAIN frames'[r] : Doomed(frames'[r][h])
      BY <1>2
  <2>2. ASSUME fatal[r]
        PROVE  \E h \in DOMAIN frames'[r] : Doomed(frames'[r][h])
    <3>1. PICK h \in DOMAIN frames[r] : Doomed(frames[r][h])
        BY <1>1, <2>2 DEF Verdict
    <3> QED
        BY <1>2, <2>1, <3>1
  <2> QED
      BY <2>1, <2>2
<1>5. ASSUME frames'[r][<< >>].phase = "done"
      PROVE  ~stopped'[r]
  <2>1. << >> \in D
    <3>1. << >> \in Paths /\ IsPrefix(<< >>, f)
        BY Live, PrefixBounds DEF Paths
    <3> QED
        BY <3>1 DEF Becomes
  <2>2. f = << >>
    <3>1. SUFFICES ASSUME f # << >>
                   PROVE  FALSE
        OBVIOUS
    <3>2. frames[r][<< >>].phase = "done"
        BY <1>2, <1>5, <2>1, <3>1
    <3> QED
        BY <3>1, <3>2, RootAlone DEF Returned
  <2> QED
      BY <1>2, <1>5, <2>2
<1> QED
    BY <1>1, <1>3, <1>4, <1>5 DEF Verdict, Stopping

\* The variables about r that a step of the engine may change.
OnlyOf(r) ==
    /\ UNCHANGED <<status, plan, cancelled, expired>>
    /\ \A q \in Runs \ {r} : stopped'[q] = stopped[q] /\ fatal'[q] = fatal[q]

\* A step of a frame of r preserves what is said of the engine.
LEMMA BecomesWalk ==
    ASSUME Walk, NEW r \in Runs, NEW f \in DOMAIN frames[r], NEW D, NEW new \in FramesOver(plan[r]),
           Becomes(r, f, new, D), InPlace(new, frames[r][f]), OnlyOf(r),
           (\A s \in Steps : Append(f, s) \notin D) \/ Kept(new, frames[r][f]),
           stopped'[r] => stopped[r] \/ Stopping(r),
           fatal'[r] => fatal[r] \/ Doomed(new),
           \A h \in DOMAIN frames[r] : Doomed(frames[r][h]) => (h \in D /\ h # f) \/ Doomed(new),
           f = << >> /\ new.phase = "done" => ~stopped'[r]
    PROVE  Walk'
<1>1. Walks(r)' /\ Tree(r)' /\ Verdict(r)'
    BY BecomesWalks, BecomesTree, BecomesVerdict DEF OnlyOf
<1>2. ASSUME NEW q \in Runs, q # r
      PROVE  Walks(q)' /\ Tree(q)' /\ Verdict(q)'
    BY <1>2, Elsewhere DEF OnlyOf, Becomes
<1>3. DOMAIN frames' = Runs
    BY DEF Becomes
<1> QED
    BY <1>1, <1>2, <1>3 DEF Walk

\* A frame without callees goes on.
LEMMA Progresses ==
    ASSUME Walk, NEW r \in Runs, NEW f \in DOMAIN frames[r], NEW new \in FramesOver(plan[r]),
           Set(r, f, new), InPlace(new, frames[r][f]), ~Doomed(frames[r][f]),
           \A s \in Steps : Append(f, s) \notin DOMAIN frames[r],
           f = << >> /\ new.phase = "done" => ~Stopping(r),
           UNCHANGED <<status, plan, cancelled, expired, stopped, fatal>>
    PROVE  Walk'
<1>1. Becomes(r, f, new, DOMAIN frames[r])
    BY SetBecomes
<1>2. f = << >> /\ new.phase = "done" => ~stopped'[r]
    BY Live DEF Walk, Verdict
<1>3. OnlyOf(r)
    BY DEF OnlyOf
<1> QED
    BY <1>1, <1>2, <1>3, BecomesWalk

\* The answer of a worker reaches its frame.
LEMMA Answered ==
    ASSUME Walk, NEW r \in Runs, NEW f \in DOMAIN frames[r], NEW y \in {"none", "ok", "err"},
           Set(r, f, [frames[r][f] EXCEPT !.reply = y]),
           UNCHANGED <<status, plan, cancelled, expired, stopped, fatal>>
    PROVE  Walk'
<1> DEFINE old == frames[r][f]
           new == [old EXCEPT !.reply = y]
<1>1. old \in FramesOver(plan[r]) /\ plan[r] \in Blueprints[r] /\ status[r] = "running"
    BY Live
<1>2. new \in FramesOver(plan[r])
    BY <1>1, FrameReturns, FrameFields, Entries
<1>3. /\ InPlace(new, old) /\ Kept(new, old)
      /\ new.phase = old.phase /\ new.error = old.error
  <2>1. old \in FrameRecords
      BY <1>1 DEF FramesOver
  <2> QED
      BY <2>1 DEF FrameRecords, InPlace, Kept
<1>4. Becomes(r, f, new, DOMAIN frames[r])
    BY SetBecomes
<1>5. Doomed(old) => Doomed(new)
    BY <1>3 DEF Doomed, InPlace
<1>6. f = << >> /\ new.phase = "done" => ~stopped'[r]
    BY <1>1, <1>3 DEF Walk, Verdict
<1>7. OnlyOf(r)
    BY DEF OnlyOf
<1> HIDE DEF new
<1> QED
    BY <1>2, <1>3, <1>4, <1>5, <1>6, <1>7, BecomesWalk

\* A frame drops what is below it: when it is not sheltered, it is itself the
\* failure that the frames below it may have been.
LEMMA Collapses ==
    ASSUME Walk, NEW r \in Runs, NEW f \in DOMAIN frames[r], NEW new \in FramesOver(plan[r]),
           Collapse(r, f, new), InPlace(new, frames[r][f]), OnlyOf(r),
           new.phase # "done",
           stopped'[r] => stopped[r] \/ Stopping(r),
           fatal'[r] => fatal[r] \/ Doomed(new),
           \/ ~frames[r][f].sheltered => Doomed(new)
           \/ \A h \in DOMAIN frames[r] : IsPrefix(f, h) => ~Doomed(frames[r][h])
    PROVE  Walk'
<1>1. PICK D : /\ Becomes(r, f, new, D)
               /\ D = {h \in DOMAIN frames[r] : ~(IsPrefix(f, h) /\ f # h)}
               /\ \A s \in Steps : Append(f, s) \notin D
    BY CollapseBecomes
<1>2. ASSUME NEW h \in DOMAIN frames[r], Doomed(frames[r][h]), IsPrefix(f, h)
      PROVE  Doomed(new)
    <2>1. ~frames[r][h].sheltered /\ f \in Paths
        BY <1>2, Live DEF Doomed
    <2>2. ~frames[r][f].sheltered
        BY <1>2, <2>1 DEF Walk, Tree
    <2> QED
        BY <1>2, <2>2
<1>3. IsPrefix(f, f)
    BY Live, PrefixBounds DEF Paths
<1>4. \A h \in DOMAIN frames[r] : Doomed(frames[r][h]) => (h \in D /\ h # f) \/ Doomed(new)
    BY <1>1, <1>2, <1>3
<1> QED
    BY <1>1, <1>4, BecomesWalk

\* A frame returns an error.
LEMMA Failing ==
    ASSUME Walk, NEW r \in Runs, NEW f \in DOMAIN frames[r], NEW why, Fails(r, f, why),
           why = "stop" => Stopping(r), UNCHANGED <<status, plan, cancelled, expired>>,
           stopped \in [Runs -> BOOLEAN], fatal \in [Runs -> BOOLEAN]
    PROVE  Walk'
<1> DEFINE old == frames[r][f]
           new == [old EXCEPT !.phase = "failed"]
<1>1. old \in FramesOver(plan[r]) /\ plan[r] \in Blueprints[r]
    BY Live
<1>2. new \in FramesOver(plan[r])
    BY <1>1, FrameReturns, FrameFields, Entries
<1>3. InPlace(new, old) /\ new.phase = "failed" /\ (~old.sheltered => Doomed(new))
  <2>1. old \in FrameRecords
      BY <1>1 DEF FramesOver
  <2> QED
      BY <2>1 DEF FrameRecords, InPlace, Doomed
<1>4. OnlyOf(r) /\ (stopped'[r] => stopped[r] \/ Stopping(r)) /\ (fatal'[r] => fatal[r] \/ Doomed(new))
    BY <1>3 DEF Fails, OnlyOf
<1>5. Collapse(r, f, new)
    BY DEF Fails
<1> HIDE DEF new
<1> QED
    BY <1>2, <1>3, <1>4, <1>5, Collapses

\* Frame f becomes new and calls frame, at the path s further.
Opens(r, f, new, s, frame) ==
    /\ DOMAIN frames' = Runs
    /\ \A q \in Runs \ {r} : frames'[q] = frames[q]
    /\ DOMAIN frames'[r] = {Append(f, s)} \cup DOMAIN frames[r]
    /\ frames'[r][Append(f, s)] = frame /\ frames'[r][f] = new
    /\ \A h \in DOMAIN frames[r] : h # f => frames'[r][h] = frames[r][h]

\* Call adds one frame.
LEMMA CallOpens ==
    ASSUME Walk, NEW r \in Runs, NEW f \in DOMAIN frames[r], NEW new, NEW s \in Steps, NEW frame,
           Append(f, s) \notin DOMAIN frames[r], Call(r, f, new, Append(f, s), frame)
    PROVE  Opens(r, f, new, s, frame)
<1> DEFINE old == [frames[r] EXCEPT ![f] = new]
           g == Append(f, s)
<1>1. /\ DOMAIN frames' = Runs /\ frames'[r] = With(old, g, frame)
      /\ \A q \in Runs \ {r} : frames'[q] = frames[q]
    BY DEF Walk, Call
<1> HIDE DEF g
<1>2. /\ DOMAIN frames'[r] = {g} \cup DOMAIN frames[r]
      /\ \A h \in DOMAIN frames'[r] : frames'[r][h] = IF h = g THEN frame ELSE old[h]
    BY <1>1 DEF With
<1>3. g \notin DOMAIN frames[r]
    BY DEF g
<1>4. frames'[r][g] = frame /\ frames'[r][f] = new
      /\ \A h \in DOMAIN frames[r] : h # f => frames'[r][h] = frames[r][h]
    BY <1>2, <1>3
<1> QED
    BY <1>1, <1>2, <1>4 DEF Opens, g

\* A frame that opens a branch or runs a body.
LEMMA Calling ==
    ASSUME Walk, NEW r \in Runs, NEW f \in DOMAIN frames[r], NEW new \in FramesOver(plan[r]),
           NEW s \in Steps, NEW frame \in FramesOver(plan[r]), NEW node,
           Append(f, s) \notin DOMAIN frames[r], Opens(r, f, new, s, frame),
           InPlace(new, frames[r][f]), ~Doomed(frames[r][f]), new.phase # "done",
           frames[r][f].sheltered => frame.sheltered, frame.phase = "enter",
           node = plan[r].graphs[new.graph].nodes[new.at],
           IF s[2] = 0 THEN /\ new.phase = "branches"
                            /\ \E i \in 1..new.opened : s[1] = node.branches[i]
                            /\ node.mode = "Collect" => frame.sheltered
                            /\ Cardinality(Children(r, f)) < node.width /\ node.width \in Nat
                       ELSE new.phase = "body" /\ s = <<new.at, new.iteration>>,
           \/ \A t \in Steps : Append(f, t) \notin DOMAIN frames[r]
           \/ /\ s[2] = 0 /\ frames[r][f].phase = "branches"
              /\ new.graph = frames[r][f].graph /\ new.at = frames[r][f].at
              /\ \A i \in 1..frames[r][f].opened : i \in 1..new.opened,
           UNCHANGED <<status, plan, cancelled, expired, stopped, fatal>>
    PROVE  Walk'
<1> DEFINE g == Append(f, s)
           F == DOMAIN frames[r]
<1>1. Walks(r) /\ Tree(r) /\ Verdict(r) /\ F \subseteq Paths /\ f \in Paths /\ status[r] = "running"
      /\ plan[r] \in Blueprints[r]
    BY Live DEF Walk, Walks
<1>2. g \in Paths /\ g \notin F /\ g # f
    BY <1>1, PrefixOfAppend DEF Paths
<1>3. /\ DOMAIN frames'[r] = {g} \cup F /\ frames'[r][g] = frame /\ frames'[r][f] = new
      /\ \A h \in F : h # f => frames'[r][h] = frames[r][h]
    BY DEF Opens
<1>4. \A h \in Paths : IsPrefix(h, g) <=> IsPrefix(h, f) \/ h = g
    BY <1>1, PrefixOfAppend DEF Paths
<1>5. \A h \in Paths : \A t \in Steps : Append(h, t) = g => h = f /\ t = s
    BY <1>1, AppendInjective DEF Paths
<1>6. \A h \in F : IsPrefix(g, h) => FALSE
    BY <1>1, <1>2 DEF Tree
<1>7. \A t \in Steps : Append(g, t) \notin {g} \cup F
  <2>1. ASSUME NEW t \in Steps
        PROVE  /\ Append(g, t) \in Paths /\ Len(Append(g, t)) = Len(g) + 1
               /\ IsPrefix(g, Append(g, t)) /\ Len(g) \in Nat
    <3> HIDE DEF g
    <3>1. Append(g, t) \in Paths /\ Len(Append(g, t)) = Len(g) + 1 /\ Len(g) \in Nat
        BY <1>2, PrefixOfAppend DEF Paths
    <3> QED
        BY <1>2, <3>1, OneStep
  <2> QED
      BY <1>6, <2>1
<1>8. IsFiniteSet({g} \cup F)
  <2>1. IsFiniteSet(F)
      BY <1>1 DEF Tree
  <2>2. IsFiniteSet(F \cup {g})
      BY <2>1, FS_AddElement
  <2>3. F \cup {g} = {g} \cup F
      OBVIOUS
  <2> QED
      BY <2>2, <2>3
<1>9. \A h \in F : frames'[r][h].sheltered = frames[r][h].sheltered /\ frames'[r][h].stop = frames[r][h].stop
    BY <1>3 DEF InPlace
<1>10. Node(r, f)' = node
    BY <1>3 DEF Node
<1>11. \A h \in F : h # f => Node(r, h)' = Node(r, h)
    BY <1>3 DEF Node
<1> HIDE DEF g
<1>12. Walks(r)'
    BY <1>1, <1>2, <1>3 DEF Walks
<1>13. Tree(r)'
  <2>1. ASSUME NEW e \in {g} \cup F, NEW h \in Paths, IsPrefix(h, e)
        PROVE  h \in {g} \cup F /\ (frames'[r][h].sheltered => frames'[r][e].sheltered)
    <3>1. CASE e \in F
        BY <1>1, <1>9, <2>1, <3>1 DEF Tree
    <3>2. CASE e = g
      <4>1. CASE h = g
          BY <3>2, <4>1
      <4>2. CASE IsPrefix(h, f)
        <5>1. h \in F /\ (frames[r][h].sheltered => frames[r][f].sheltered)
            BY <1>1, <4>2 DEF Tree
        <5> QED
            BY <1>3, <1>9, <3>2, <5>1
      <4> QED
          BY <1>4, <2>1, <3>2, <4>1, <4>2
    <3> QED
        BY <3>1, <3>2
  <2>2. ASSUME NEW h \in {g} \cup F, NEW t \in Steps, Append(h, t) \in {g} \cup F
        PROVE  Calls(r, h, t)'
    <3>1. h \in F /\ h \in Paths
        BY <1>1, <1>7, <2>2
    <3>2. CASE Append(h, t) = g
      <4>1. h = f /\ t = s
          BY <1>5, <3>1, <3>2
      <4>2. frames'[r][Append(h, t)] = frame
          BY <1>3, <3>2
      <4> QED
          BY <1>3, <1>10, <4>1, <4>2 DEF Calls
    <3>3. CASE Append(h, t) # g
      <4>1. Append(h, t) \in F /\ Calls(r, h, t)
          BY <1>1, <2>2, <3>1, <3>3 DEF Tree
      <4>2. CASE h # f
          BY <1>3, <1>9, <1>11, <3>1, <4>1, <4>2 DEF Calls
      <4>3. CASE h = f
        <5>1. /\ s[2] = 0 /\ frames[r][f].phase = "branches"
              /\ new.graph = frames[r][f].graph /\ new.at = frames[r][f].at
              /\ \A i \in 1..frames[r][f].opened : i \in 1..new.opened
            BY <4>1, <4>3
        <5>2. Node(r, f)' = Node(r, f) /\ new.phase = "branches"
            BY <1>10, <5>1 DEF Node
        <5>3. t[2] = 0
            BY <4>1, <4>3, <5>1 DEF Calls
        <5>4. /\ \E i \in 1..frames[r][f].opened : t[1] = Node(r, f).branches[i]
              /\ Node(r, f).mode = "Collect" => frames[r][Append(h, t)].sheltered
            BY <4>1, <4>3, <5>3 DEF Calls
        <5>5. \E i \in 1..new.opened : t[1] = Node(r, f).branches[i]
            BY <5>1, <5>4
        <5>6. frames'[r][Append(h, t)].sheltered = frames[r][Append(h, t)].sheltered
            BY <1>9, <4>1
        <5> QED
            BY <1>3, <4>3, <5>2, <5>3, <5>4, <5>5, <5>6 DEF Calls
      <4> QED
          BY <4>2, <4>3
    <3> QED
        BY <3>2, <3>3
  <2>3. ASSUME NEW h \in {g} \cup F, frames'[r][h].phase = "branches"
        PROVE  Cardinality(Children(r, h)') <= Node(r, h)'.width
    <3>1. h \in F
        BY <1>3, <2>3
    <3>2. CASE h # f
      <4>1. Children(r, h)' = Children(r, h)
        <5>1. ~(Len(g) = Len(h) + 1 /\ IsPrefix(h, g))
            BY <1>1, <1>2, <1>5, <3>1, <3>2, OneStep
        <5> QED
            BY <1>3, <5>1 DEF Children
      <4> QED
          BY <1>1, <1>3, <1>11, <2>3, <3>1, <3>2, <4>1 DEF Tree
    <3>3. CASE h = f
      <4>1. s[2] = 0 /\ Cardinality(Children(r, f)) < node.width /\ node.width \in Nat
          BY <1>3, <2>3, <3>3
      <4>2. Children(r, f)' \subseteq Children(r, f) \cup {g}
          BY <1>3 DEF Children
      <4>3. IsFiniteSet(Children(r, f))
          BY <1>1, FS_Subset DEF Tree, Children
      <4>4. IsFiniteSet(Children(r, f) \cup {g}) /\ Cardinality(Children(r, f)) \in Nat
            /\ Cardinality(Children(r, f) \cup {g}) <= Cardinality(Children(r, f)) + 1
        <5>1. g \notin Children(r, f)
            BY <1>2 DEF Children
        <5>2. /\ IsFiniteSet(Children(r, f) \cup {g})
              /\ Cardinality(Children(r, f) \cup {g}) = Cardinality(Children(r, f)) + 1
            BY <4>3, <5>1, FS_AddElement
        <5>3. Cardinality(Children(r, f)) \in Nat
            BY <4>3, FS_CardinalityType
        <5> QED
            BY <5>2, <5>3
      <4>5. /\ Cardinality(Children(r, f)') <= Cardinality(Children(r, f) \cup {g})
            /\ Cardinality(Children(r, f)') \in Nat /\ Cardinality(Children(r, f) \cup {g}) \in Nat
          BY <4>2, <4>4, FS_Subset, FS_CardinalityType
      <4> QED
          BY <1>10, <3>3, <4>1, <4>4, <4>5
    <3> QED
        BY <3>2, <3>3
  <2>4. << >> \in F /\ frames'[r][<< >>].stop = None
      BY <1>1, <1>9 DEF Tree
  <2> QED
      BY <1>3, <1>8, <2>1, <2>2, <2>3, <2>4 DEF Tree
<1>14. Verdict(r)'
  <2>1. fatal[r] => \E h \in DOMAIN frames'[r] : Doomed(frames'[r][h])
    <3>1. ASSUME fatal[r]
          PROVE  \E h \in DOMAIN frames'[r] : Doomed(frames'[r][h])
      <4>1. PICK h \in F : Doomed(frames[r][h])
          BY <1>1, <3>1 DEF Verdict
      <4> QED
          BY <1>3, <4>1
    <3> QED
        BY <3>1
  <2>2. frames'[r][<< >>].phase = "done" => frames[r][<< >>].phase = "done"
      BY <1>1, <1>3 DEF Tree
  <2> QED
      BY <1>1, <2>1, <2>2 DEF Verdict, Stopping
<1>15. ASSUME NEW q \in Runs, q # r
       PROVE  Walks(q)' /\ Tree(q)' /\ Verdict(q)'
    BY <1>15, Elsewhere DEF Opens
<1> QED
    BY <1>12, <1>13, <1>14, <1>15 DEF Walk, Opens

-----------------------------------------------------------------------------
(* The steps of the engine *)

\* Where a frame is.
LEMMA At ==
    ASSUME Walk, NEW r \in Runs, NEW f \in DOMAIN frames[r]
    PROVE  /\ frames[r][f] \in FramesOver(plan[r]) /\ frames[r][f] \in FrameRecords
           /\ plan[r] \in Blueprints[r] /\ f \in Paths /\ status[r] = "running"
           /\ frames[r][f].graph \in DOMAIN plan[r].graphs
           /\ frames[r][f].at \in DOMAIN plan[r].graphs[frames[r][f].graph].nodes
           /\ DOMAIN plan[r].graphs[frames[r][f].graph].nodes \subseteq NodeNames
           /\ Node(r, f) = plan[r].graphs[frames[r][f].graph].nodes[frames[r][f].at]
           /\ frames[r][f].phase \in LoopPhases => Node(r, f).kind = "loop" /\ frames[r][f].iteration > 0
<1>1. /\ frames[r][f] \in FramesOver(plan[r]) /\ plan[r] \in Blueprints[r] /\ f \in Paths
      /\ status[r] = "running"
    BY Live
<1>2. /\ frames[r][f].graph \in DOMAIN plan[r].graphs
      /\ frames[r][f].at \in DOMAIN plan[r].graphs[frames[r][f].graph].nodes
      /\ frames[r][f].phase \in LoopPhases =>
            /\ plan[r].graphs[frames[r][f].graph].nodes[frames[r][f].at].kind = "loop"
            /\ frames[r][f].iteration > 0
    BY <1>1, FrameFields
<1>3. DOMAIN plan[r].graphs[frames[r][f].graph].nodes \subseteq NodeNames
    BY <1>1, <1>2, Entries
<1>4. frames[r][f] \in FrameRecords
    BY <1>1 DEF FramesOver
<1> QED
    BY <1>1, <1>2, <1>3, <1>4 DEF Node

\* A frame that waits for no callee goes on.
LEMMA GoesOn ==
    ASSUME Walk, NEW r \in Runs, NEW f \in DOMAIN frames[r], NEW new \in FramesOver(plan[r]),
           Set(r, f, new), InPlace(new, frames[r][f]),
           frames[r][f].phase \notin {"branches", "body", "failed"},
           ~(frames[r][f].phase = "restoring" /\ frames[r][f].error),
           f = << >> /\ new.phase = "done" => ~Stopping(r),
           UNCHANGED <<status, plan, cancelled, expired, stopped, fatal>>
    PROVE  Walk'
<1>1. ~Doomed(frames[r][f])
    BY DEF Doomed
<1>2. \A s \in Steps : Append(f, s) \notin DOMAIN frames[r]
    BY Leaf
<1> QED
    BY <1>1, <1>2, Progresses

\* The frame's own steps that end in no error and call nothing.
Advances(r, f) ==
    \/ ReachJoin(r, f) \/ EnterWork(r, f) \/ AgentReturns(r, f) \/ GateEvaluates(r, f)
    \/ EnterLoop(r, f) \/ Exhaust(r, f) \/ IterationPasses(r, f) \/ BeginCheckpoint(r, f)
    \/ EndReturns(r, f) \/ BeginArtifact(r, f) \/ ArtifactStored(r, f)

\* They preserve what is said of the engine.
LEMMA AdvancesWalk ==
    ASSUME Walk, NEW r \in Runs, NEW f \in DOMAIN frames[r], Advances(r, f)
    PROVE  Walk'
<1> DEFINE old == frames[r][f]
           b == plan[r]
           N == DOMAIN b.graphs[old.graph].nodes
<1>1. /\ old \in FramesOver(b) /\ old \in FrameRecords /\ b \in Blueprints[r]
      /\ old.graph \in DOMAIN b.graphs /\ old.at \in N /\ N \subseteq NodeNames
      /\ Node(r, f) = b.graphs[old.graph].nodes[old.at]
      /\ old.phase \in LoopPhases => Node(r, f).kind = "loop" /\ old.iteration > 0
    BY At
<1>2. UNCHANGED <<status, plan, cancelled, expired>> /\ UNCHANGED <<stopped, fatal>>
    BY DEF Advances, ReachJoin, EnterWork, AgentReturns, GateEvaluates, EnterLoop, Exhaust,
           IterationPasses, BeginCheckpoint, EndReturns, BeginArtifact, ArtifactStored, FrameOnly,
           outside, historyVars
<1>3. ASSUME NEW n \in N
      PROVE  /\ Go(old, n) \in FramesOver(b) /\ Record(old, n) \in FramesOver(b)
             /\ InPlace(Go(old, n), old) /\ Go(old, n).phase = "enter"
             /\ InPlace(Record(old, n), old) /\ Record(old, n).phase = "enter"
  <2>1. Go(old, n) \in FramesOver(b) /\ Record(old, n) \in FramesOver(b)
      BY <1>1, FrameGoes
  <2> QED
      BY <1>1, <2>1 DEF Go, Record, InPlace, FrameRecords
<1>4. ASSUME ReachJoin(r, f)
      PROVE  Walk'
  <2> DEFINE new == [old EXCEPT !.phase = "done"]
  <2>1. new \in FramesOver(b)
      BY <1>1, FrameReturns
  <2>2. InPlace(new, old)
      BY <1>1 DEF InPlace, FrameRecords
  <2>3. Set(r, f, new) /\ old.phase = "enter" /\ old.at = old.stop
      BY <1>4 DEF ReachJoin, In
  <2>4. old.at # None
      BY <1>1, NestedAssumption
  <2>5. f # << >>
      BY <1>1, <2>3, <2>4, At DEF Walk, Tree
  <2> HIDE DEF new
  <2> QED
      BY <1>2, <2>1, <2>2, <2>3, <2>5, GoesOn
<1>5. ASSUME EnterWork(r, f)
      PROVE  Walk'
  <2>1. PICK step \in {<<"agent", "agent">>, <<"parallel", "branches">>, <<"gate", "gate">>} :
           Entering(r, f, step[1]) /\ Set(r, f, [old EXCEPT !.phase = step[2], !.opened = 0])
      BY <1>5 DEF EnterWork
  <2> DEFINE new == [old EXCEPT !.phase = step[2], !.opened = 0]
  <2>2. old.phase = "enter" /\ Node(r, f).kind = step[1]
      BY <2>1 DEF Entering, IsAt, In
  <2>3. step[2] \in {"agent", "gate"} \/ (step[2] = "branches" /\ step[1] = "parallel")
      BY <2>1
  <2>4. new \in FramesOver(b)
      BY <1>1, <2>2, <2>3, FrameGoes
  <2>5. InPlace(new, old) /\ new.phase # "done"
      BY <1>1, <2>3 DEF InPlace, FrameRecords
  <2> HIDE DEF new
  <2> QED
      BY <1>2, <2>1, <2>2, <2>4, <2>5, GoesOn DEF new
<1>6. ASSUME AgentReturns(r, f)
      PROVE  Walk'
  <2>1. old.phase = "agent" /\ Node(r, f).kind = "agent" /\ Set(r, f, Record(old, Node(r, f).next))
      BY <1>6 DEF AgentReturns, IsAt, In
  <2>2. Node(r, f).next \in N
      BY <1>1, <2>1, Targets
  <2> QED
      BY <1>2, <1>3, <2>1, <2>2, GoesOn
<1>7. ASSUME GateEvaluates(r, f)
      PROVE  Walk'
  <2>1. PICK n \in {Node(r, f).pass, Node(r, f).fail, Node(r, f).unsure} : Set(r, f, Go(old, n))
      BY <1>7 DEF GateEvaluates
  <2>2. old.phase = "gate" /\ Node(r, f).kind = "gate"
      BY <1>7 DEF GateEvaluates, IsAt, In
  <2>3. n \in N
    <3>1. Node(r, f).pass \in N /\ Node(r, f).fail \in N /\ Node(r, f).unsure \in N
        BY <1>1, <2>2, Targets
    <3> QED
        BY <2>1, <3>1
  <2> QED
      BY <1>2, <1>3, <2>1, <2>2, <2>3, GoesOn
<1>8. ASSUME EnterLoop(r, f)
      PROVE  Walk'
  <2> DEFINE new == [old EXCEPT !.phase = "iterate", !.iteration = 1]
  <2>1. Set(r, f, new) /\ old.phase = "enter" /\ Node(r, f).kind = "loop"
      BY <1>8 DEF EnterLoop, Entering, IsAt, In
  <2>2. new \in FramesOver(b)
      BY <1>1, <2>1, FrameLoops
  <2>3. InPlace(new, old) /\ new.phase = "iterate"
      BY <1>1 DEF InPlace, FrameRecords
  <2> HIDE DEF new
  <2> QED
      BY <1>2, <2>1, <2>2, <2>3, GoesOn
<1>9. ASSUME Exhaust(r, f) \/ IterationPasses(r, f)
      PROVE  Walk'
  <2>1. old.phase \in {"iterate", "evaluate"}
      BY <1>9 DEF Exhaust, IterationPasses, IsAt, In
  <2>2. PICK n \in {Node(r, f).satisfied, Node(r, f).exhausted} : Set(r, f, Go(old, n))
      BY <1>9 DEF Exhaust, IterationPasses
  <2>3. Node(r, f).kind = "loop"
      BY <1>1, <2>1 DEF LoopPhases
  <2>4. n \in N
      BY <1>1, <2>2, <2>3, Targets
  <2> QED
      BY <1>2, <1>3, <2>1, <2>2, <2>4, GoesOn
<1>10. ASSUME BeginCheckpoint(r, f)
       PROVE  Walk'
  <2> DEFINE new == [old EXCEPT !.phase = "checkpointing", !.reply = "none"]
  <2>1. Set(r, f, new) /\ old.phase = "iterate"
      BY <1>10 DEF BeginCheckpoint, Iterating, IsAt, In
  <2>2. new \in FramesOver(b)
      BY <1>1, <2>1, FrameLoops DEF LoopPhases
  <2>3. InPlace(new, old) /\ new.phase = "checkpointing"
      BY <1>1 DEF InPlace, FrameRecords
  <2> HIDE DEF new
  <2> QED
      BY <1>2, <2>1, <2>2, <2>3, GoesOn
<1>11. ASSUME EndReturns(r, f) \/ ArtifactStored(r, f)
       PROVE  Walk'
  <2> DEFINE new == [old EXCEPT !.phase = "done", !.results = @ \cup {old.at}]
  <2>1. Set(r, f, new) /\ old.phase \in {"enter", "storing"} /\ ~Stopping(r)
      BY <1>11 DEF EndReturns, ArtifactStored, Entering, IsAt, In
  <2>2. new \in FramesOver(b)
      BY <1>1, FrameReturns
  <2>3. InPlace(new, old)
      BY <1>1 DEF InPlace, FrameRecords
  <2> HIDE DEF new
  <2> QED
      BY <1>2, <2>1, <2>2, <2>3, GoesOn
<1>12. ASSUME BeginArtifact(r, f)
       PROVE  Walk'
  <2> DEFINE new == [old EXCEPT !.phase = "storing", !.reply = "none"]
  <2>1. Set(r, f, new) /\ old.phase = "enter"
      BY <1>12 DEF BeginArtifact, Entering, IsAt, In
  <2>2. new \in FramesOver(b)
      BY <1>1, FrameReturns
  <2>3. InPlace(new, old) /\ new.phase = "storing"
      BY <1>1 DEF InPlace, FrameRecords
  <2> HIDE DEF new
  <2> QED
      BY <1>2, <2>1, <2>2, <2>3, GoesOn
<1> QED
    BY <1>4, <1>5, <1>6, <1>7, <1>8, <1>9, <1>10, <1>11, <1>12 DEF Advances

\* The steps of a frame that return an error.
FailSteps(r, f) ==
    \/ EnterStopped(r, f) \/ AgentFails(r, f) \/ AgentStops(r, f) \/ GateFails(r, f) \/ GateStops(r, f)
    \/ \E g \in Children(r, f) : BranchFailsFast(r, f, g)
    \/ IterateCancelled(r, f) \/ CheckpointFails(r, f) \/ MissingResult(r, f) \/ ArtifactFails(r, f)
    \/ RestoreFails(r, f)

\* They preserve what is said of the engine.
LEMMA FailStepsWalk ==
    ASSUME Walk, NEW r \in Runs, NEW f \in DOMAIN frames[r], FailSteps(r, f),
           stopped \in [Runs -> BOOLEAN], fatal \in [Runs -> BOOLEAN]
    PROVE  Walk'
<1>1. \E why : Fails(r, f, why) /\ (why = "stop" => Stopping(r))
               /\ UNCHANGED <<status, plan, cancelled, expired>>
  <2>1. CASE \E w \in {"stop"} : FailsOnly(r, f, w) /\ Stopping(r)
      BY <2>1 DEF FailsOnly, outside
  <2>2. CASE FailsOnly(r, f, "error")
      BY <2>2 DEF FailsOnly, outside
  <2>3. CASE RestoreFails(r, f)
      BY <2>3 DEF RestoreFails, outside
  <2>4. \/ \E w \in {"stop"} : FailsOnly(r, f, w) /\ Stopping(r)
        \/ FailsOnly(r, f, "error") \/ RestoreFails(r, f)
      BY DEF FailSteps, EnterStopped, AgentFails, AgentStops, GateFails, GateStops, BranchFailsFast,
             IterateCancelled, CheckpointFails, MissingResult, ArtifactFails, Stopping
  <2> QED
      BY <2>1, <2>2, <2>3, <2>4
<1> QED
    BY <1>1, Failing

\* The loop restores its checkpoint.
LEMMA RestoringWalk ==
    ASSUME Walk, NEW r \in Runs, NEW f \in DOMAIN frames[r], NEW error \in BOOLEAN, Restoring(r, f, error),
           frames[r][f].phase \in {"body", "evaluate"}, ~error => frames[r][f].phase = "evaluate",
           \A q \in Runs \ {r} : stopped'[q] = stopped[q],
           stopped'[r] => stopped[r] \/ Stopping(r)
    PROVE  Walk'
<1> DEFINE old == frames[r][f]
           new == [old EXCEPT !.phase = "restoring", !.reply = "none", !.error = error]
<1>1. /\ old \in FramesOver(plan[r]) /\ old \in FrameRecords
      /\ DOMAIN plan[r].graphs[old.graph].nodes \subseteq NodeNames
      /\ Node(r, f) = plan[r].graphs[old.graph].nodes[old.at]
      /\ Node(r, f).kind = "loop" /\ old.iteration > 0
    BY At DEF LoopPhases
<1>2. new \in FramesOver(plan[r])
    BY <1>1, FrameLoops
<1>3. InPlace(new, old) /\ new.phase = "restoring" /\ new.error = error
    BY <1>1 DEF InPlace, FrameRecords
<1>4. error => (~old.sheltered => Doomed(new))
    BY <1>3 DEF Doomed, InPlace
<1>5. ~error => \A h \in DOMAIN frames[r] : IsPrefix(f, h) => ~Doomed(frames[r][h])
    BY Leaf DEF Doomed
<1>6. OnlyOf(r) /\ (fatal'[r] => fatal[r] \/ Doomed(new)) /\ Collapse(r, f, new)
    BY DEF OnlyOf, Restoring, outside
<1> HIDE DEF new
<1> QED
    BY <1>2, <1>3, <1>4, <1>5, <1>6, Collapses

\* An iteration ends in an error.
LEMMA IterationFailsWalk ==
    ASSUME Walk, NEW r \in Runs, NEW f \in DOMAIN frames[r], NEW why, IterationFails(r, f, why),
           frames[r][f].phase \in {"body", "evaluate"}, why = "stop" => Stopping(r),
           stopped \in [Runs -> BOOLEAN], fatal \in [Runs -> BOOLEAN]
    PROVE  Walk'
<1>1. CASE FailsOnly(r, f, why)
    BY <1>1, Failing DEF FailsOnly, outside
<1>2. CASE Restoring(r, f, TRUE) /\ stopped' = [stopped EXCEPT ![r] = @ \/ why = "stop"]
    BY <1>2, RestoringWalk
<1> QED
    BY <1>1, <1>2 DEF IterationFails

\* The steps of a loop's frame after its body.
LoopSteps(r, f) ==
    \/ BodyReturns(r, f) \/ BodyFails(r, f) \/ EvaluationFails(r, f) \/ EvaluationStops(r, f)
    \/ IterationRejected(r, f) \/ RestoreReturns(r, f)

\* They preserve what is said of the engine.
LEMMA LoopStepsWalk ==
    ASSUME Walk, NEW r \in Runs, NEW f \in DOMAIN frames[r], LoopSteps(r, f),
           stopped \in [Runs -> BOOLEAN], fatal \in [Runs -> BOOLEAN]
    PROVE  Walk'
<1> DEFINE old == frames[r][f]
           b == plan[r]
<1>1. /\ old \in FramesOver(b) /\ old \in FrameRecords
      /\ DOMAIN b.graphs[old.graph].nodes \subseteq NodeNames
      /\ Node(r, f) = b.graphs[old.graph].nodes[old.at] /\ f \in Paths
      /\ old.phase \in LoopPhases => Node(r, f).kind = "loop" /\ old.iteration > 0
    BY At
<1>2. CASE BodyReturns(r, f)
  <2> DEFINE new == [old EXCEPT !.phase = "evaluate", !.results = @ \cup {old.at}]
             body == Append(f, <<old.at, old.iteration>>)
  <2>1. /\ old.phase = "body" /\ frames[r][body].phase = "done" /\ Collapse(r, f, new)
        /\ UNCHANGED <<status, plan, cancelled, expired>> /\ UNCHANGED <<stopped, fatal>>
      BY <1>2 DEF BodyReturns, In, BodyOf, FrameOnly, outside, historyVars
  <2>2. new \in FramesOver(b)
      BY <1>1, <2>1, FrameLoops DEF LoopPhases
  <2>3. InPlace(new, old) /\ new.phase = "evaluate"
      BY <1>1 DEF InPlace, FrameRecords
  <2>4. ASSUME NEW h \in DOMAIN frames[r], IsPrefix(f, h)
        PROVE  ~Doomed(frames[r][h])
    <3>1. CASE h = f
        BY <2>1, <3>1 DEF Doomed
    <3>2. CASE h # f
      <4>1. h \in Paths
          BY Live
      <4>2. PICK s \in Steps : IsPrefix(Append(f, s), h)
          BY <1>1, <2>4, <3>2, <4>1, PrefixNext DEF Paths
      <4>3. Append(f, s) \in Paths
          BY <1>1 DEF Paths
      <4>4. Append(f, s) \in DOMAIN frames[r]
          BY <4>2, <4>3 DEF Walk, Tree
      <4>5. Calls(r, f, s)
          BY <4>4 DEF Walk, Tree
      <4>6. Append(f, s) = body
          BY <2>1, <4>5 DEF Calls
      <4>7. frames[r][Append(f, s)].phase = "done"
          BY <2>1, <4>6
      <4>8. h = Append(f, s)
          BY <4>2, <4>4, <4>7, Leaf
      <4> QED
          BY <4>7, <4>8 DEF Doomed
    <3> QED
        BY <3>1, <3>2
  <2>5. OnlyOf(r)
      BY <2>1 DEF OnlyOf
  <2> HIDE DEF new
  <2> QED
      BY <2>1, <2>2, <2>3, <2>4, <2>5, Collapses
<1>3. CASE BodyFails(r, f) \/ EvaluationFails(r, f)
    BY <1>3, IterationFailsWalk DEF BodyFails, EvaluationFails, In
<1>4. CASE EvaluationStops(r, f)
    BY <1>4, IterationFailsWalk DEF EvaluationStops, In
<1>5. ASSUME old.phase \in {"evaluate", "restoring"}, ~(old.phase = "restoring" /\ old.error),
             Set(r, f, Again(old)), FrameOnly
      PROVE  Walk'
  <2>1. Again(old) \in FramesOver(b)
      BY <1>1, <1>5, FrameLoops DEF LoopPhases
  <2>2. InPlace(Again(old), old) /\ Again(old).phase = "iterate"
      BY <1>1 DEF InPlace, FrameRecords, Again
  <2>3. UNCHANGED <<status, plan, cancelled, expired, stopped, fatal>>
      BY <1>5 DEF FrameOnly, outside, historyVars
  <2> QED
      BY <1>5, <2>1, <2>2, <2>3, GoesOn
<1>6. CASE IterationRejected(r, f)
  <2>1. old.phase = "evaluate"
      BY <1>6 DEF IterationRejected, In
  <2>2. CASE Restoring(r, f, FALSE) /\ UNCHANGED stopped
      BY <2>1, <2>2, RestoringWalk
  <2>3. CASE Set(r, f, Again(old)) /\ FrameOnly
      BY <1>5, <2>1, <2>3
  <2> QED
      BY <1>6, <2>2, <2>3 DEF IterationRejected
<1>7. CASE RestoreReturns(r, f)
  <2>1. old.phase = "restoring"
      BY <1>7 DEF RestoreReturns, In
  <2>2. CASE FailsOnly(r, f, "error")
      BY <2>2, Failing DEF FailsOnly, outside
  <2>3. CASE ~old.error /\ Set(r, f, Again(old)) /\ FrameOnly
      BY <1>5, <2>1, <2>3
  <2> QED
      BY <1>7, <2>2, <2>3 DEF RestoreReturns
<1> QED
    BY <1>2, <1>3, <1>4, <1>6, <1>7 DEF LoopSteps

\* A parallel node opens its next branch: the branches differ, so it is not one
\* that is still there.
LEMMA OpenBranchWalk ==
    ASSUME Walk, NEW r \in Runs, NEW f \in DOMAIN frames[r], OpenBranch(r, f)
    PROVE  Walk'
<1> DEFINE old == frames[r][f]
           b == plan[r]
           N == DOMAIN b.graphs[old.graph].nodes
           node == Node(r, f)
           i == old.opened + 1
           branch == node.branches[i]
           s == <<branch, 0>>
           new == [old EXCEPT !.opened = i]
           sheltered == old.sheltered \/ node.mode = "Collect"
           frame == NewFrame(old.graph, branch, node.join, old.under, sheltered)
<1>1. /\ old \in FramesOver(b) /\ old \in FrameRecords /\ b \in Blueprints[r]
      /\ old.graph \in DOMAIN b.graphs /\ old.at \in N /\ N \subseteq NodeNames
      /\ node = b.graphs[old.graph].nodes[old.at] /\ f \in Paths
    BY At
<1>2. /\ old.phase = "branches" /\ node.kind = "parallel" /\ i <= Len(node.branches)
      /\ Cardinality(Children(r, f)) < node.width /\ Call(r, f, new, Append(f, s), frame)
      /\ UNCHANGED <<status, plan, cancelled, expired, stopped, fatal>>
    BY DEF OpenBranch, IsAt, In, FrameOnly, outside, historyVars
<1>3. node.branches \in Seq(N) /\ node.width \in Nat
    BY <1>1, <1>2, NestedAssumption
<1>4. old.opened \in Nat /\ old.under \in SUBSET Paths /\ old.sheltered \in BOOLEAN
    BY <1>1 DEF FrameRecords
<1>5. i \in 1..Len(node.branches) /\ i \in Nat
    BY <1>2, <1>3, <1>4
<1>6. branch \in N /\ branch \in NodeNames /\ node.join \in NodeNames
  <2>1. branch \in N
      BY <1>3, <1>5
  <2>2. node.join \in N
      BY <1>1, <1>2, Targets
  <2> QED
      BY <1>1, <2>1, <2>2
<1>7. s \in Steps /\ s[1] = branch /\ s[2] = 0
    BY <1>6 DEF Steps
<1>8. \A j \in 1..old.opened : node.branches[j] # branch
  <2>1. ValidNode(b, b.graphs[old.graph], node)
      BY <1>1, ValidatedAssumption DEF ValidBlueprint, ValidGraph
  <2>2. \A j, k \in DOMAIN node.branches : node.branches[j] = node.branches[k] => j = k
      BY <1>2, <2>1 DEF ValidNode
  <2>3. DOMAIN node.branches = 1..Len(node.branches)
      BY <1>3
  <2>4. \A j \in 1..old.opened : j \in 1..Len(node.branches) /\ j # i
      BY <1>3, <1>4, <1>5
  <2> QED
      BY <1>5, <2>2, <2>3, <2>4
<1>9. Append(f, s) \notin DOMAIN frames[r]
  <2>1. SUFFICES ASSUME Append(f, s) \in DOMAIN frames[r]
                 PROVE  FALSE
      OBVIOUS
  <2>2. Calls(r, f, s)
      BY <1>7, <2>1 DEF Walk, Tree
  <2> QED
      BY <1>7, <1>8, <2>2 DEF Calls
<1>10. new \in FramesOver(b)
    BY <1>1, <1>5, FrameReturns
<1>11. /\ InPlace(new, old) /\ new.phase = old.phase /\ new.graph = old.graph /\ new.at = old.at
       /\ new.opened = i
    BY <1>1 DEF InPlace, FrameRecords
<1>12. old.graph \in GraphNames /\ sheltered \in BOOLEAN
    BY <1>1, <1>4 DEF FrameRecords
<1>13. frame \in FramesOver(b) /\ frame.phase = "enter" /\ frame.sheltered = sheltered
  <2> HIDE DEF branch, node, sheltered
  <2> QED
      BY <1>1, <1>4, <1>6, <1>12 DEF NewFrame, FramesOver, FrameRecords, Phases, LoopPhases
<1>14. ~Doomed(old)
    BY <1>2 DEF Doomed
<1>15. \A j \in 1..old.opened : j \in 1..i
    BY <1>4
<1>16. i \in 1..i
    BY <1>5
<1> HIDE DEF s, new, frame, node
<1>17. Opens(r, f, new, s, frame)
    BY <1>2, <1>7, <1>9, CallOpens
<1>18. node = b.graphs[new.graph].nodes[new.at]
    BY <1>1, <1>11
<1>19. /\ new.phase = "branches" /\ (\E j \in 1..new.opened : s[1] = node.branches[j])
       /\ (node.mode = "Collect" => frame.sheltered)
    BY <1>2, <1>7, <1>11, <1>13, <1>16
<1>20. old.sheltered => frame.sheltered
    BY <1>13
<1> HIDE DEF i, branch
<1> QED
    BY <1>2, <1>3, <1>7, <1>9, <1>10, <1>11, <1>13, <1>14, <1>15, <1>17, <1>18, <1>19, <1>20, Calling

\* A loop node runs its body.
LEMMA RunBodyWalk ==
    ASSUME Walk, NEW r \in Runs, NEW f \in DOMAIN frames[r], RunBody(r, f),
           frames[r][f].phase \in {"iterate", "checkpointing"},
           UNCHANGED <<status, plan, cancelled, expired, stopped, fatal>>
    PROVE  Walk'
<1> DEFINE old == frames[r][f]
           b == plan[r]
           N == DOMAIN b.graphs[old.graph].nodes
           node == Node(r, f)
           s == <<old.at, old.iteration>>
           under == old.under \cup (IF node.checkpoint THEN {Append(f, s)} ELSE {})
           new == [old EXCEPT !.phase = "body", !.reply = "none"]
           entry == b.graphs[node.body].entry
           frame == NewFrame(node.body, entry, None, under, old.sheltered)
<1>1. /\ old \in FramesOver(b) /\ old \in FrameRecords /\ b \in Blueprints[r]
      /\ old.graph \in DOMAIN b.graphs /\ old.at \in N /\ N \subseteq NodeNames
      /\ node = b.graphs[old.graph].nodes[old.at] /\ f \in Paths
      /\ node.kind = "loop" /\ old.iteration > 0
    BY At DEF LoopPhases
<1>2. Call(r, f, new, Append(f, s), frame)
    BY DEF RunBody, BodyOf
<1>3. s \in Steps /\ s[2] # 0 /\ old.sheltered \in BOOLEAN
  <2>0. old.at \in NodeNames /\ old.iteration \in Nat
      BY <1>1 DEF FrameRecords
  <2>1. old.iteration # 0
      BY <1>1, <2>0
  <2>2. old.sheltered \in BOOLEAN
      BY <1>1 DEF FrameRecords
  <2> QED
      BY <2>0, <2>1, <2>2 DEF Steps
<1>4. \A t \in Steps : Append(f, t) \notin DOMAIN frames[r]
    BY Leaf
<1>5. Append(f, s) \notin DOMAIN frames[r]
    BY <1>3, <1>4
<1>6. new \in FramesOver(b)
    BY <1>1, FrameLoops
<1>7. /\ InPlace(new, old) /\ new.phase = "body" /\ new.graph = old.graph /\ new.at = old.at
      /\ new.iteration = old.iteration
    BY <1>1 DEF InPlace, FrameRecords
<1>8. under \in SUBSET Paths
  <2>1. Append(f, s) \in Paths
    <3> HIDE DEF s
    <3> QED
        BY <1>1, <1>3, PrefixOfAppend DEF Paths
  <2>2. old.under \in SUBSET Paths
      BY <1>1 DEF FrameRecords
  <2> QED
      BY <2>1, <2>2
<1>9. /\ node.body \in DOMAIN b.graphs /\ node.body \in GraphNames
      /\ entry \in DOMAIN b.graphs[node.body].nodes /\ entry \in NodeNames
  <2>1. node.body \in DOMAIN b.graphs
      BY <1>1, Entries
  <2>2. node.body \in GraphNames /\ entry \in DOMAIN b.graphs[node.body].nodes
        /\ DOMAIN b.graphs[node.body].nodes \subseteq NodeNames
      BY <1>1, <2>1, Entries
  <2> QED
      BY <2>1, <2>2
<1> HIDE DEF node, entry, under
<1>10. frame \in FramesOver(b) /\ frame.phase = "enter" /\ frame.sheltered = old.sheltered
  <2>1. None \in NodeNames \cup {None}
      OBVIOUS
  <2> QED
      BY <1>3, <1>8, <1>9, <2>1 DEF NewFrame, FramesOver, FrameRecords, Phases, LoopPhases
<1>11. ~Doomed(old)
    BY DEF Doomed
<1>12. s = <<new.at, new.iteration>>
    BY <1>7
<1> HIDE DEF s, new, frame
<1>13. Opens(r, f, new, s, frame)
    BY <1>2, <1>3, <1>5, CallOpens
<1> QED
    BY <1>1, <1>3, <1>4, <1>5, <1>6, <1>7, <1>10, <1>11, <1>12, <1>13, Calling

\* The finished branch is taken, or the node joined.
LEMMA TakeBranchWalk ==
    ASSUME Walk, NEW r \in Runs, NEW f \in DOMAIN frames[r], NEW g \in Children(r, f), TakeBranch(r, f, g)
    PROVE  Walk'
<1> DEFINE old == frames[r][f]
           b == plan[r]
           F == DOMAIN frames[r]
           D == {h \in F : ~IsPrefix(g, h)}
           new == IF frames[r][g].phase = "done"
                  THEN [old EXCEPT !.results = @ \cup frames[r][g].results] ELSE old
<1>1. /\ old \in FramesOver(b) /\ old \in FrameRecords /\ f \in Paths
      /\ DOMAIN b.graphs[old.graph].nodes \subseteq NodeNames
    BY At
<1>2. F \subseteq Paths /\ g \in F /\ g \in Paths /\ Tree(r)
    BY DEF Walk, Walks, Children
<1>3. /\ old.phase = "branches"
      /\ frames[r][g].phase = "done" \/ (frames[r][g].phase = "failed" /\ Node(r, f).mode = "Collect")
      /\ UNCHANGED <<status, plan, cancelled, expired>> /\ UNCHANGED <<stopped, fatal>>
    BY DEF TakeBranch, IsAt, In, FrameOnly, outside, historyVars
<1>4. /\ DOMAIN frames' = Runs /\ \A q \in Runs \ {r} : frames'[q] = frames[q]
      /\ DOMAIN frames'[r] = D
      /\ \A h \in D : frames'[r][h] = IF h = f THEN new ELSE frames[r][h]
    BY DEF TakeBranch, Walk
<1>5. ~IsPrefix(g, f)
  <2>1. Len(g) = Len(f) + 1 /\ Len(f) \in Nat
      BY <1>1 DEF Children, Paths
  <2>2. IsPrefix(g, f) => Len(g) <= Len(f)
      BY <1>1, <1>2, PrefixMeans DEF Paths
  <2> QED
      BY <2>1, <2>2
<1>6. ASSUME NEW h \in D, NEW e \in Paths, IsPrefix(e, h)
      PROVE  e \in D
  <2>1. e \in F
      BY <1>2, <1>6 DEF Tree
  <2>2. IsPrefix(g, e) => IsPrefix(g, h)
      BY <1>2, <1>6, PrefixTransitive DEF Paths
  <2> QED
      BY <1>6, <2>1, <2>2
<1>7. Becomes(r, f, new, D)
    BY <1>4, <1>5, <1>6 DEF Becomes
<1>8. new \in FramesOver(b)
  <2>1. frames[r][g].results \in SUBSET NodeNames
      BY <1>2, At DEF FrameRecords
  <2> QED
      BY <1>1, <2>1, FrameReturns
<1>9. InPlace(new, old) /\ Kept(new, old)
    BY <1>1 DEF InPlace, Kept, FrameRecords
<1>10. ASSUME NEW h \in F, IsPrefix(g, h)
       PROVE  ~Doomed(frames[r][h])
  <2>1. CASE frames[r][g].phase = "done"
    <3>1. h = g
        BY <1>2, <1>10, <2>1, Leaf
    <3> QED
        BY <2>1, <3>1 DEF Doomed
  <2>2. CASE frames[r][g].phase = "failed" /\ Node(r, f).mode = "Collect"
    <3>1. PICK s \in Steps : g = Append(f, s)
        BY ChildrenAre
    <3>2. Calls(r, f, s)
        BY <1>2, <3>1 DEF Tree
    <3>3. frames[r][g].sheltered
        BY <1>3, <2>2, <3>1, <3>2 DEF Calls
    <3>4. frames[r][h].sheltered
        BY <1>2, <1>10, <3>3 DEF Tree
    <3> QED
        BY <3>4 DEF Doomed
  <2> QED
      BY <1>3, <2>1, <2>2
<1>11. ~Doomed(old) /\ new.phase # "done"
    BY <1>3, <1>9 DEF Doomed, Kept
<1>12. OnlyOf(r)
    BY <1>3 DEF OnlyOf
<1> HIDE DEF new
<1>13. \A h \in F : Doomed(frames[r][h]) => (h \in D /\ h # f) \/ Doomed(new)
    BY <1>10, <1>11
<1> QED
    BY <1>3, <1>7, <1>8, <1>9, <1>11, <1>12, <1>13, BecomesWalk

\* The results of all branches are there.
LEMMA JoinWalk ==
    ASSUME Walk, NEW r \in Runs, NEW f \in DOMAIN frames[r], Join(r, f)
    PROVE  Walk'
<1> DEFINE old == frames[r][f]
           b == plan[r]
           N == DOMAIN b.graphs[old.graph].nodes
           new == Record(old, Node(r, f).join)
<1>1. /\ old \in FramesOver(b) /\ old \in FrameRecords /\ b \in Blueprints[r]
      /\ old.graph \in DOMAIN b.graphs /\ old.at \in N /\ N \subseteq NodeNames
      /\ Node(r, f) = b.graphs[old.graph].nodes[old.at]
    BY At
<1>2. /\ old.phase = "branches" /\ Node(r, f).kind = "parallel" /\ Children(r, f) = {} /\ Set(r, f, new)
      /\ UNCHANGED <<status, plan, cancelled, expired, stopped, fatal>>
    BY DEF Join, IsAt, In, FrameOnly, outside, historyVars
<1>3. Node(r, f).join \in N
    BY <1>1, <1>2, Targets
<1>4. new \in FramesOver(b)
    BY <1>1, <1>3, FrameGoes
<1>5. InPlace(new, old) /\ new.phase = "enter"
    BY <1>1 DEF InPlace, FrameRecords, Record, Go
<1>6. \A s \in Steps : Append(f, s) \notin DOMAIN frames[r]
    BY <1>2, ChildrenAre
<1>7. ~Doomed(old)
    BY <1>2 DEF Doomed
<1> HIDE DEF new
<1> QED
    BY <1>2, <1>4, <1>5, <1>6, <1>7, Progresses

-----------------------------------------------------------------------------
(* The steps of a run *)

\* Nothing happens to the frames.
LEMMA SameWalk ==
    ASSUME Walk, UNCHANGED <<frames, status, plan, cancelled, expired, stopped, fatal>>
    PROVE  Walk'
BY Elsewhere DEF Walk

\* A worker reports to its frame.
LEMMA ReportWalk ==
    ASSUME Walk, NEW r \in Runs, NEW w, NEW y \in {"ok", "err"}, Report(r, w, y),
           UNCHANGED <<status, plan, cancelled, expired, stopped, fatal>>
    PROVE  Walk'
<1>1. CASE w.frame \in DOMAIN frames[r]
    BY <1>1, Answered DEF Report
<1>2. CASE w.frame \notin DOMAIN frames[r]
    BY <1>2, SameWalk DEF Report
<1> QED
    BY <1>1, <1>2

\* A run begins with its root.
LEMMA StartRunWalk ==
    ASSUME Walk, status \in [Runs -> {"idle", "running", "committed", "failed", "dirty", "crashed"}],
           plan \in [Runs -> Every \cup {None}],
           NEW r \in Runs, NEW b \in Blueprints[r], StartRun(r, b)
    PROVE  Walk'
<1> DEFINE entry == b.graphs[b.root].entry
           root == NewFrame(b.root, entry, None, {}, FALSE)
<1>1. /\ status[r] = "idle" /\ status' = [status EXCEPT ![r] = "running"]
      /\ plan' = [plan EXCEPT ![r] = b] /\ frames' = [frames EXCEPT ![r] = [f \in {<< >>} |-> root]]
      /\ UNCHANGED <<cancelled, expired, stopped, fatal>>
    BY DEF StartRun, historyVars
<1>2. DOMAIN frames' = Runs /\ DOMAIN frames'[r] = {<< >>} /\ frames'[r][<< >>] = root
      /\ plan'[r] = b /\ status'[r] = "running"
    BY <1>1 DEF Walk
<1>3. /\ b.root \in DOMAIN b.graphs /\ b.root \in GraphNames
      /\ entry \in DOMAIN b.graphs[b.root].nodes /\ entry \in NodeNames
    BY Entries
<1> HIDE DEF entry
<1>4. root \in FramesOver(b) /\ root.phase = "enter" /\ root.stop = None /\ ~root.sheltered
    BY <1>3 DEF NewFrame, FramesOver, FrameRecords, Phases, LoopPhases
<1> HIDE DEF root
<1>5. << >> \in Paths
    BY DEF Paths
<1>6. Walks(r)'
    BY <1>2, <1>4, <1>5 DEF Walks
<1>7. Tree(r)'
  <2>1. IsFiniteSet({<< >>})
      BY FS_Singleton
  <2>2. ASSUME NEW f \in Paths, IsPrefix(f, << >>)
        PROVE  f = << >>
    <3>1. \A e \in Paths : IsPrefix(f, e) => Len(f) <= Len(e)
        BY PrefixMeans DEF Paths
    <3>2. Len(f) <= Len(<< >>)
        BY <1>5, <2>2, <3>1
    <3> QED
        BY <3>2 DEF Paths
  <2>3. \A s \in Steps : Append(<< >>, s) # << >>
      OBVIOUS
  <2> QED
      BY <1>2, <1>4, <2>1, <2>2, <2>3 DEF Tree
<1>8. Verdict(r)'
    BY <1>1, <1>2, <1>4 DEF Walk, Verdict
<1>9. ASSUME NEW q \in Runs, q # r
      PROVE  Walks(q)' /\ Tree(q)' /\ Verdict(q)'
    BY <1>1, <1>9, Elsewhere DEF Walk
<1> QED
    BY <1>2, <1>6, <1>7, <1>8, <1>9 DEF Walk

\* A run is told to stop.
LEMMA StopWalk ==
    ASSUME Walk, cancelled \in [Runs -> BOOLEAN], expired \in [Runs -> BOOLEAN],
           NEW r \in Runs, Cancel(r) \/ Expire(r)
    PROVE  Walk'
<1>1. /\ UNCHANGED <<frames, status, plan, stopped, fatal>>
      /\ \A q \in Runs : Stopping(q) => Stopping(q)'
    BY DEF Cancel, Expire, runVars, historyVars, Stopping
<1>2. status[r] = "running" /\ ~(frames[r][<< >>].phase = "done" /\ stopped[r])
    BY DEF Walk, Verdict, Cancel, Expire
<1>3. ASSUME NEW q \in Runs
      PROVE  Verdict(q)'
    BY <1>1 DEF Walk, Verdict
<1> QED
    BY <1>1, <1>3, SameFrames DEF Walk

\* A run without frames is a tree of none.
LEMMA NoFrames ==
    ASSUME NEW r \in Runs, frames'[r] = << >>, status'[r] # "running"
    PROVE  Walks(r)' /\ Tree(r)'
<1>1. DOMAIN frames'[r] = {}
    OBVIOUS
<1>2. IsFiniteSet({})
    BY FS_EmptySet
<1> QED
    BY <1>1, <1>2 DEF Walks, Tree

\* A run ends: its root has returned, and failed if anything was fatal.
LEMMA CleanupWalk ==
    ASSUME Walk, status \in [Runs -> {"idle", "running", "committed", "failed", "dirty", "crashed"}],
           plan \in [Runs -> Every \cup {None}],
           cancelled \in [Runs -> BOOLEAN], expired \in [Runs -> BOOLEAN],
           NEW r \in Runs, NEW keys, NEW names, Finalizing(r), Cleanup(r, keys, names),
           NEW outcome \in {"committed", "failed", "dirty"},
           status' = [status EXCEPT ![r] = outcome],
           outcome = "committed" => frames[r][<< >>].phase # "failed"
    PROVE  Walk'
<1>1. /\ frames' = [frames EXCEPT ![r] = << >>] /\ plan' = [plan EXCEPT ![r] = None]
      /\ cancelled' = [cancelled EXCEPT ![r] = FALSE] /\ expired' = [expired EXCEPT ![r] = FALSE]
      /\ UNCHANGED <<stopped, fatal>>
    BY DEF Cleanup, historyVars
<1>2. Walks(r)' /\ Tree(r)'
    BY <1>1, NoFrames DEF Walk
<1>3. Verdict(r)'
  <2>1. SUFFICES ASSUME outcome = "committed"
                 PROVE  ~stopped[r] /\ ~fatal[r]
      BY <1>1 DEF Verdict
  <2>2. status[r] = "running" /\ Returned(r, << >>) /\ frames[r][<< >>].phase = "done"
      BY <2>1 DEF Finalizing, Returned
  <2>3. ~stopped[r]
      BY <2>2 DEF Walk, Verdict
  <2>4. ASSUME fatal[r]
        PROVE  FALSE
    <3>1. PICK f \in DOMAIN frames[r] : Doomed(frames[r][f])
        BY <2>2, <2>4 DEF Walk, Verdict
    <3>2. f = << >>
        BY <2>2, RootAlone
    <3> QED
        BY <2>2, <3>1, <3>2 DEF Doomed
  <2> QED
      BY <2>3, <2>4
<1>4. ASSUME NEW q \in Runs, q # r
      PROVE  Walks(q)' /\ Tree(q)' /\ Verdict(q)'
    BY <1>1, <1>4, Elsewhere DEF Walk
<1> QED
    BY <1>1, <1>2, <1>3, <1>4 DEF Walk

\* The server dies.
LEMMA CrashWalk ==
    ASSUME Walk, status \in [Runs -> {"idle", "running", "committed", "failed", "dirty", "crashed"}], Crash
    PROVE  Walk'
<1>1. /\ frames' = [r \in Runs |-> << >>] /\ UNCHANGED <<stopped, fatal>>
      /\ status' = [r \in Runs |-> IF status[r] = "running" THEN "crashed" ELSE status[r]]
    BY DEF Crash, historyVars
<1>2. ASSUME NEW r \in Runs
      PROVE  Walks(r)' /\ Tree(r)' /\ Verdict(r)'
  <2>1. Walks(r)' /\ Tree(r)'
      BY <1>1, NoFrames
  <2>2. Verdict(r)'
      BY <1>1 DEF Walk, Verdict
  <2> QED
      BY <2>1, <2>2
<1> QED
    BY <1>1, <1>2 DEF Walk

\* There is no run yet.
LEMMA InitWalk ==
    ASSUME Init
    PROVE  Walk
<1>1. /\ DOMAIN frames = Runs
      /\ \A r \in Runs : frames[r] = << >> /\ status[r] = "idle" /\ ~stopped[r] /\ ~fatal[r]
    BY DEF Init
<1>2. \A r \in Runs : DOMAIN frames[r] = {}
    BY <1>1
<1>3. IsFiniteSet({})
    BY FS_EmptySet
<1>4. ASSUME NEW r \in Runs
      PROVE  Walks(r) /\ Tree(r) /\ Verdict(r)
    BY <1>1, <1>2, <1>3 DEF Walks, Tree, Verdict
<1> QED
    BY <1>1, <1>4 DEF Walk

-----------------------------------------------------------------------------
(* The books of the capability host *)

\* The engine changes nothing in them.
LEMMA SameBooks ==
    ASSUME Books, UNCHANGED <<status, plan, cancelled, expired, crashes, checkpoints, partials, artifacts>>,
           UNCHANGED <<workers, made>>,
           stopped' \in [Runs -> BOOLEAN], fatal' \in [Runs -> BOOLEAN], broken' \in [Runs -> BOOLEAN]
    PROVE  Books'
<1>1. Shapes'
    BY DEF Books, Shapes
<1>2. \A q \in Runs : Registered(q)'
    BY DEF Books, Registered
<1>3. (\A n \in DOMAIN artifacts : Written(n))'
    BY DEF Books, Written
<1>4. Checkpointed'
    BY DEF Books, Checkpointed
<1> QED
    BY <1>1, <1>2, <1>3, <1>4 DEF Books

\* A worker is spawned, and what it writes was registered before.
LEMMA SpawnBooks ==
    ASSUME Books, NEW r \in Runs, NEW kind \in {"checkpoint", "restore", "artifact"}, NEW f \in Paths,
           NEW key \in Keys \cup ArtifactNames, Spawn(r, kind, f, key), status[r] = "running",
           made' \in [Runs -> [checkpoints : SUBSET Keys, artifacts : SUBSET ArtifactNames]],
           \A q \in Runs \ {r} : made'[q] = made[q],
           made[r].checkpoints \subseteq made'[r].checkpoints,
           made[r].artifacts \subseteq made'[r].artifacts,
           made'[r].artifacts \subseteq NamesOf(r),
           kind = "artifact" => key \in made'[r].artifacts,
           kind = "checkpoint" => key \in made'[r].checkpoints,
           UNCHANGED <<status, plan, cancelled, expired, crashes, checkpoints, partials, artifacts>>,
           stopped' \in [Runs -> BOOLEAN], fatal' \in [Runs -> BOOLEAN], broken' \in [Runs -> BOOLEAN]
    PROVE  Books'
<1> DEFINE w == [kind |-> kind, frame |-> f, key |-> key, step |-> "begin"]
<1>1. w \in WorkerRecords /\ w.kind = kind /\ w.key = key
    BY DEF WorkerRecords
<1>2. Shapes /\ \A q \in Runs : Registered(q)
    BY DEF Books
<1>3. workers' = [workers EXCEPT ![r] = @ \cup {w}] /\ workers \in [Runs -> SUBSET WorkerRecords]
    BY <1>2 DEF Spawn, Shapes
<1> HIDE DEF w
<1>4. workers' \in [Runs -> SUBSET WorkerRecords] /\ workers'[r] = workers[r] \cup {w}
      /\ \A q \in Runs \ {r} : workers'[q] = workers[q]
    BY <1>1, <1>3
<1>5. Shapes'
    BY <1>2, <1>4 DEF Shapes
<1>6. ASSUME NEW q \in Runs
      PROVE  Registered(q)'
  <2>1. CASE q = r
      BY <1>1, <1>2, <1>4, <2>1 DEF Registered
  <2>2. CASE q # r
      BY <1>2, <1>4, <2>2 DEF Registered
  <2> QED
      BY <2>1, <2>2
<1>7. ASSUME NEW n \in DOMAIN artifacts'
      PROVE  Written(n)'
    BY DEF Books, Written
<1>8. Checkpointed'
    BY DEF Books, Checkpointed
<1> QED
    BY <1>5, <1>6, <1>7, <1>8 DEF Books

\* A loop asks for a checkpoint.
LEMMA BeginCheckpointBooks ==
    ASSUME IndInv, NEW r \in Runs, NEW f \in DOMAIN frames[r], BeginCheckpoint(r, f)
    PROVE  Books'
<1>1. /\ f \in Paths /\ status[r] = "running" /\ frames[r][f] \in FrameRecords
    BY At DEF IndInv
<1>2. Key(r, f) \in Keys
    BY <1>1 DEF Key, Keys, FrameRecords
<1>3. Books /\ Shapes /\ Registered(r)
    BY DEF IndInv, Books
<1>4. /\ made' = [made EXCEPT ![r].checkpoints = @ \cup {Key(r, f)}] /\ Spawn(r, "checkpoint", f, Key(r, f))
      /\ UNCHANGED <<status, plan, cancelled, expired, crashes, checkpoints, partials, artifacts>>
      /\ UNCHANGED <<stopped, fatal, broken>>
    BY DEF BeginCheckpoint, outside, diskVars, historyVars
<1> DEFINE key == Key(r, f)
<1> HIDE DEF key
<1>5. /\ made' \in [Runs -> [checkpoints : SUBSET Keys, artifacts : SUBSET ArtifactNames]]
      /\ \A q \in Runs \ {r} : made'[q] = made[q]
      /\ made'[r].checkpoints = made[r].checkpoints \cup {key}
      /\ made'[r].artifacts = made[r].artifacts
  <2>1. key \in Keys /\ made' = [made EXCEPT ![r].checkpoints = @ \cup {key}]
      BY <1>2, <1>4 DEF key
  <2>2. made \in [Runs -> [checkpoints : SUBSET Keys, artifacts : SUBSET ArtifactNames]]
      BY <1>3 DEF Shapes
  <2> QED
      BY <2>1, <2>2
<1>6. key \in Keys /\ Spawn(r, "checkpoint", f, key)
    BY <1>2, <1>4 DEF key
<1>7. stopped' \in [Runs -> BOOLEAN] /\ fatal' \in [Runs -> BOOLEAN] /\ broken' \in [Runs -> BOOLEAN]
    BY <1>3, <1>4 DEF Shapes
<1>8. made'[r].artifacts \subseteq NamesOf(r)
    BY <1>3, <1>5 DEF Registered
<1> QED
    BY <1>1, <1>3, <1>4, <1>5, <1>6, <1>7, <1>8, SpawnBooks

\* An end node stores an artifact.
LEMMA BeginArtifactBooks ==
    ASSUME IndInv, NEW r \in Runs, NEW f \in DOMAIN frames[r], BeginArtifact(r, f)
    PROVE  Books'
<1> DEFINE name == Node(r, f).name
<1>1. /\ f \in Paths /\ status[r] = "running" /\ plan[r] \in Blueprints[r]
      /\ frames[r][f].graph \in DOMAIN plan[r].graphs
      /\ frames[r][f].at \in DOMAIN plan[r].graphs[frames[r][f].graph].nodes
      /\ Node(r, f) = plan[r].graphs[frames[r][f].graph].nodes[frames[r][f].at]
    BY At DEF IndInv
<1>2. Node(r, f).kind = "end"
    BY DEF BeginArtifact, Entering, IsAt
<1>3. name \in NamesOf(r) /\ name \in ArtifactNames
  <2>1. name \in NamesOf(r)
      BY <1>1, <1>2, Entries
  <2> QED
      BY <2>1 DEF ArtifactNames
<1>4. Books /\ Shapes /\ Registered(r)
    BY DEF IndInv, Books
<1>5. /\ made' = [made EXCEPT ![r].artifacts = @ \cup {name}] /\ Spawn(r, "artifact", f, name)
      /\ UNCHANGED <<status, plan, cancelled, expired, crashes, checkpoints, partials, artifacts>>
      /\ UNCHANGED <<stopped, fatal, broken>>
    BY DEF BeginArtifact, outside, diskVars, historyVars
<1> HIDE DEF name
<1>6. /\ made' \in [Runs -> [checkpoints : SUBSET Keys, artifacts : SUBSET ArtifactNames]]
      /\ \A q \in Runs \ {r} : made'[q] = made[q]
      /\ made'[r].artifacts = made[r].artifacts \cup {name}
      /\ made'[r].checkpoints = made[r].checkpoints
  <2>1. made \in [Runs -> [checkpoints : SUBSET Keys, artifacts : SUBSET ArtifactNames]]
      BY <1>4 DEF Shapes
  <2> QED
      BY <1>3, <1>5, <2>1
<1>7. stopped' \in [Runs -> BOOLEAN] /\ fatal' \in [Runs -> BOOLEAN] /\ broken' \in [Runs -> BOOLEAN]
    BY <1>4, <1>5 DEF Shapes
<1>8. made'[r].artifacts \subseteq NamesOf(r)
    BY <1>3, <1>4, <1>6 DEF Registered
<1> QED
    BY <1>1, <1>3, <1>4, <1>5, <1>6, <1>7, <1>8, SpawnBooks

\* A loop asks for a restore.
LEMMA RestoringBooks ==
    ASSUME IndInv, NEW r \in Runs, NEW f \in DOMAIN frames[r], NEW error, Restoring(r, f, error),
           stopped' \in [Runs -> BOOLEAN]
    PROVE  Books'
<1>1. /\ f \in Paths /\ status[r] = "running" /\ frames[r][f] \in FrameRecords
    BY At DEF IndInv
<1>2. Key(r, f) \in Keys
    BY <1>1 DEF Key, Keys, FrameRecords
<1>3. Books /\ Shapes /\ Registered(r)
    BY DEF IndInv, Books
<1>4. /\ made' = made /\ Spawn(r, "restore", f, Key(r, f))
      /\ UNCHANGED <<status, plan, cancelled, expired, crashes, checkpoints, partials, artifacts>>
      /\ UNCHANGED <<fatal, broken>>
    BY DEF Restoring, outside, diskVars
<1>5. fatal' \in [Runs -> BOOLEAN] /\ broken' \in [Runs -> BOOLEAN]
      /\ made' \in [Runs -> [checkpoints : SUBSET Keys, artifacts : SUBSET ArtifactNames]]
      /\ made'[r].artifacts \subseteq NamesOf(r)
    BY <1>3, <1>4 DEF Shapes, Registered
<1> QED
    BY <1>1, <1>2, <1>3, <1>4, <1>5, SpawnBooks

\* A worker goes on or reports.
Works(r, w) == \E y \in {"ok", "err"} : Advance(r, w) \/ Report(r, w, y)

\* A worker only writes what its run has registered.
LEMMA WorkerBooks ==
    ASSUME Books, NEW r \in Runs, NEW w \in workers[r], Works(r, w), WorkerOnly,
           partials' \cap DOMAIN artifacts' = {},
           \/ DOMAIN checkpoints' \subseteq DOMAIN checkpoints
           \/ w.kind = "checkpoint" /\ DOMAIN checkpoints' \subseteq DOMAIN checkpoints \cup {w.key},
           artifacts' = artifacts \/ (w.kind = "artifact" /\ artifacts' = With(artifacts, w.key, r))
    PROVE  Books'
<1>1. Shapes /\ (\A q \in Runs : Registered(q)) /\ w \in WorkerRecords
    BY DEF Books, Shapes
<1>2. UNCHANGED <<status, plan, cancelled, expired, crashes, made>> /\ UNCHANGED <<stopped, fatal, broken>>
    BY DEF WorkerOnly, outside, historyVars
<1> DEFINE u == [w EXCEPT !.step = "write"]
<1>3. u \in WorkerRecords /\ u.kind = w.kind /\ u.key = w.key
    BY <1>1 DEF WorkerRecords
<1>4. /\ workers' \in [Runs -> SUBSET WorkerRecords] /\ workers'[r] \subseteq workers[r] \cup {u}
      /\ \A q \in Runs \ {r} : workers'[q] = workers[q]
  <2>1. workers \in [Runs -> SUBSET WorkerRecords]
      BY <1>1 DEF Shapes
  <2>2. \/ workers' = [workers EXCEPT ![r] = @ \ {w}]
        \/ workers' = [workers EXCEPT ![r] = (@ \ {w}) \cup {u}]
      BY DEF Works, Advance, Report
  <2> HIDE DEF u
  <2> QED
      BY <1>3, <2>1, <2>2
<1> HIDE DEF u
<1>5. Shapes'
    BY <1>1, <1>2, <1>4 DEF Shapes
<1>6. ASSUME NEW q \in Runs
      PROVE  Registered(q)'
  <2>1. CASE q = r
    <3>1. status[r] = "running"
        BY <1>1 DEF Registered
    <3>2. \A v \in workers'[r] : /\ v.kind = "artifact" => v.key \in made[r].artifacts
                                 /\ v.kind = "checkpoint" => v.key \in made[r].checkpoints
        BY <1>1, <1>3, <1>4 DEF Registered
    <3> QED
        BY <1>1, <1>2, <2>1, <3>1, <3>2 DEF Registered
  <2>2. CASE q # r
      BY <1>1, <1>2, <1>4, <2>2 DEF Registered
  <2> QED
      BY <2>1, <2>2
<1>7. ASSUME NEW n \in DOMAIN artifacts'
      PROVE  Written(n)'
  <2>1. CASE n \in DOMAIN artifacts /\ artifacts'[n] = artifacts[n]
      BY <1>2, <2>1 DEF Books, Written
  <2>2. CASE w.kind = "artifact" /\ n = w.key /\ artifacts'[n] = r
    <3>1. status[r] = "running" /\ n \in made[r].artifacts /\ n \in NamesOf(r)
        BY <1>1, <2>2 DEF Registered
    <3> QED
        BY <1>2, <2>2, <3>1 DEF Written
  <2> QED
      BY <2>1, <2>2 DEF With
<1>8. Checkpointed'
  <2>1. ASSUME NEW k \in DOMAIN checkpoints', \A q \in Runs : status[q] \notin {"dirty", "crashed"}
        PROVE  \E q \in Runs : k \in made[q].checkpoints
    <3>1. CASE k \in DOMAIN checkpoints
        BY <2>1, <3>1 DEF Books, Checkpointed
    <3>2. CASE w.kind = "checkpoint" /\ k = w.key
        BY <1>1, <3>2 DEF Registered
    <3> QED
        BY <2>1, <3>1, <3>2
  <2> QED
      BY <1>2, <2>1 DEF Checkpointed
<1> QED
    BY <1>5, <1>6, <1>7, <1>8 DEF Books

\* The steps of a worker.
LEMMA WorkerStepInd ==
    ASSUME IndInv, NEW r \in Runs, WorkerStep(r)
    PROVE  IndInv'
<1>1. PICK w \in workers[r] :
         \/ CheckpointBegins(r, w) \/ CheckpointCopies(r, w) \/ RestoreClears(r, w)
         \/ RestoreCopies(r, w) \/ ArtifactBegins(r, w) \/ ArtifactRenames(r, w)
    BY DEF WorkerStep
<1>2. Books /\ Walk /\ partials \cap DOMAIN artifacts = {}
    BY DEF IndInv, Books, Shapes
<1>3. Works(r, w) /\ WorkerOnly
    BY <1>1 DEF CheckpointBegins, CheckpointCopies, RestoreClears, RestoreCopies, ArtifactBegins,
                ArtifactRenames, Works
<1>4. Walk'
  <2>1. UNCHANGED <<status, plan, cancelled, expired, stopped, fatal>>
      BY <1>3 DEF WorkerOnly, outside, historyVars
  <2>2. CASE Advance(r, w)
      BY <1>2, <2>1, <2>2, SameWalk DEF Advance
  <2>3. CASE \E y \in {"ok", "err"} : Report(r, w, y)
      BY <1>2, <2>1, <2>3, ReportWalk
  <2> QED
      BY <1>3, <2>2, <2>3 DEF Works
<1>5. CASE CheckpointBegins(r, w) \/ CheckpointCopies(r, w)
  <2>1. /\ w.kind = "checkpoint" /\ UNCHANGED <<partials, artifacts>>
        /\ DOMAIN checkpoints' \subseteq DOMAIN checkpoints \cup {w.key}
      BY <1>5 DEF CheckpointBegins, CheckpointCopies, With
  <2> QED
      BY <1>2, <1>3, <1>4, <2>1, WorkerBooks DEF IndInv
<1>6. CASE RestoreClears(r, w) \/ RestoreCopies(r, w)
  <2>1. UNCHANGED <<checkpoints, partials, artifacts>>
      BY <1>6 DEF RestoreClears, RestoreCopies
  <2> QED
      BY <1>2, <1>3, <1>4, <2>1, WorkerBooks DEF IndInv
<1>7. CASE ArtifactBegins(r, w)
  <2>1. UNCHANGED <<checkpoints, artifacts>> /\ partials' \cap DOMAIN artifacts' = {}
      BY <1>2, <1>7 DEF ArtifactBegins
  <2> QED
      BY <1>2, <1>3, <1>4, <2>1, WorkerBooks DEF IndInv
<1>8. CASE ArtifactRenames(r, w)
  <2>1. /\ UNCHANGED checkpoints /\ w.kind = "artifact"
        /\ artifacts' = artifacts \/ artifacts' = With(artifacts, w.key, r)
        /\ partials' = partials \ {w.key}
      BY <1>8 DEF ArtifactRenames
  <2>2. partials' \cap DOMAIN artifacts' = {}
      BY <1>2, <2>1 DEF With
  <2> QED
      BY <1>2, <1>3, <1>4, <2>1, <2>2, WorkerBooks DEF IndInv
<1> QED
    BY <1>1, <1>5, <1>6, <1>7, <1>8

\* A run begins, or is told to stop.
LEMMA StartInd ==
    ASSUME IndInv, NEW r \in Runs, (\E b \in Blueprints[r] : StartRun(r, b)) \/ Cancel(r) \/ Expire(r)
    PROVE  IndInv'
<1>1. Books /\ Walk /\ Shapes
    BY DEF IndInv, Books
<1>2. CASE \E b \in Blueprints[r] : StartRun(r, b)
  <2>1. PICK b \in Blueprints[r] : StartRun(r, b)
      BY <1>2
  <2>2. Walk'
      BY <1>1, <2>1, StartRunWalk DEF Shapes
  <2>3. /\ status[r] = "idle" /\ status' = [status EXCEPT ![r] = "running"]
        /\ plan' = [plan EXCEPT ![r] = b]
        /\ UNCHANGED <<cancelled, expired, crashes, checkpoints, partials, artifacts>>
        /\ UNCHANGED <<workers, made, stopped, fatal, broken>>
      BY <2>1 DEF StartRun, diskAndMade, historyVars
  <2>4. Shapes'
    <3>1. b \in Every
        BY DEF Every
    <3> QED
        BY <1>1, <2>3, <3>1 DEF Shapes
  <2>5. status'[r] = "running" /\ \A q \in Runs : q # r => status'[q] = status[q]
      BY <1>1, <2>3 DEF Shapes
  <2>6. ASSUME NEW q \in Runs
        PROVE  Registered(q)'
      BY <1>1, <2>3, <2>5 DEF Books, Registered
  <2>7. ASSUME NEW n \in DOMAIN artifacts'
        PROVE  Written(n)'
      BY <1>1, <2>3, <2>5 DEF Books, Written
  <2>8. Checkpointed'
      BY <1>1, <2>3, <2>5 DEF Books, Checkpointed
  <2> QED
      BY <2>2, <2>4, <2>6, <2>7, <2>8 DEF IndInv, Books
<1>3. CASE Cancel(r) \/ Expire(r)
  <2>1. Walk'
      BY <1>1, <1>3, StopWalk DEF Shapes
  <2>2. /\ UNCHANGED <<status, plan, crashes, checkpoints, partials, artifacts>>
        /\ UNCHANGED <<workers, made, stopped, fatal, broken>>
        /\ cancelled' \in [Runs -> BOOLEAN] /\ expired' \in [Runs -> BOOLEAN]
      BY <1>1, <1>3 DEF Cancel, Expire, runVars, diskAndMade, historyVars, Shapes
  <2>3. Shapes'
      BY <1>1, <2>2 DEF Shapes
  <2>4. ASSUME NEW q \in Runs
        PROVE  Registered(q)'
      BY <1>1, <2>2 DEF Books, Registered
  <2>5. ASSUME NEW n \in DOMAIN artifacts'
        PROVE  Written(n)'
      BY <1>1, <2>2 DEF Books, Written
  <2>6. Checkpointed'
      BY <1>1, <2>2 DEF Books, Checkpointed
  <2> QED
      BY <2>1, <2>3, <2>4, <2>5, <2>6 DEF IndInv, Books
<1> QED
    BY <1>2, <1>3

\* What finalize leaves is nobody's to remove, or still another run's.
LEMMA CleanupBooks ==
    ASSUME IndInv, NEW r \in Runs, NEW keys, NEW names, Finalizing(r), Cleanup(r, keys, names),
           NEW outcome \in {"committed", "failed", "dirty"},
           status' = [status EXCEPT ![r] = outcome],
           outcome # "dirty" => keys = made[r].checkpoints,
           outcome = "failed" => names = made[r].artifacts
    PROVE  Books'
<1>1. Books /\ Shapes
    BY DEF IndInv, Books
<1>2. /\ checkpoints' = [k \in (DOMAIN checkpoints) \ keys |-> checkpoints[k]]
      /\ artifacts' = [n \in (DOMAIN artifacts) \ names |-> artifacts[n]]
      /\ made' = [made EXCEPT ![r] = [checkpoints |-> {}, artifacts |-> {}]]
      /\ plan' = [plan EXCEPT ![r] = None]
      /\ cancelled' = [cancelled EXCEPT ![r] = FALSE] /\ expired' = [expired EXCEPT ![r] = FALSE]
      /\ UNCHANGED <<workers, partials, stopped, fatal, broken, crashes>>
    BY DEF Cleanup, historyVars
<1>3. status[r] = "running" /\ workers[r] = {}
    BY DEF Finalizing
<1>4. status'[r] = outcome /\ \A q \in Runs : q # r => status'[q] = status[q]
    BY <1>1 DEF Shapes
<1>5. made'[r] = [checkpoints |-> {}, artifacts |-> {}] /\ \A q \in Runs : q # r => made'[q] = made[q]
    BY <1>1, <1>2 DEF Shapes
<1>6. Shapes'
    BY <1>1, <1>2 DEF Shapes
<1>7. ASSUME NEW q \in Runs
      PROVE  Registered(q)'
    BY <1>1, <1>2, <1>3, <1>4, <1>5 DEF Books, Registered
<1>8. ASSUME NEW n \in DOMAIN artifacts'
      PROVE  Written(n)'
  <2>1. n \in DOMAIN artifacts /\ n \notin names /\ artifacts'[n] = artifacts[n] /\ Written(n)
      BY <1>1, <1>2 DEF Books
  <2>2. CASE artifacts[n] = r
    <3>1. n \in made[r].artifacts
        BY <1>3, <2>1, <2>2 DEF Written
    <3> QED
        BY <1>4, <2>1, <2>2, <3>1 DEF Written
  <2>3. CASE artifacts[n] # r
      BY <1>4, <1>5, <2>1, <2>3 DEF Written
  <2> QED
      BY <2>2, <2>3
<1>9. Checkpointed'
  <2>1. SUFFICES ASSUME \A q \in Runs : status'[q] \notin {"dirty", "crashed"}, NEW k \in DOMAIN checkpoints'
                 PROVE  \E q \in Runs : k \in made'[q].checkpoints
      BY DEF Checkpointed
  <2>2. \A q \in Runs : status[q] \notin {"dirty", "crashed"}
      BY <1>3, <1>4, <2>1
  <2>3. k \in DOMAIN checkpoints /\ k \notin made[r].checkpoints
      BY <1>2, <1>4, <2>1
  <2>4. PICK q \in Runs : k \in made[q].checkpoints
      BY <1>1, <2>2, <2>3 DEF Books, Checkpointed
  <2> QED
      BY <1>5, <2>3, <2>4
<1> QED
    BY <1>6, <1>7, <1>8, <1>9 DEF Books

\* A run ends.
LEMMA FinalizeInd ==
    ASSUME IndInv, NEW r \in Runs,
           Finalize(r) \/ \E keys \in SUBSET made[r].checkpoints, names \in SUBSET made[r].artifacts :
                              FinalizeFails(r, keys, names)
    PROVE  IndInv'
<1>1. Books /\ Walk /\ Shapes
    BY DEF IndInv, Books
<1>2. CASE Finalize(r)
  <2> DEFINE outcome == IF frames[r][<< >>].phase = "failed" THEN "failed" ELSE "committed"
  <2>1. /\ Finalizing(r) /\ Cleanup(r, made[r].checkpoints, Rolled(r))
        /\ status' = [status EXCEPT ![r] = outcome]
      BY <1>2 DEF Finalize
  <2>2. /\ outcome \in {"committed", "failed", "dirty"}
        /\ outcome = "committed" => frames[r][<< >>].phase # "failed"
        /\ outcome = "failed" => Rolled(r) = made[r].artifacts
      BY DEF Rolled
  <2> HIDE DEF outcome
  <2>3. Walk'
      BY <1>1, <2>1, <2>2, CleanupWalk DEF Shapes
  <2>4. Books'
      BY <2>1, <2>2, CleanupBooks
  <2> QED
      BY <2>3, <2>4 DEF IndInv
<1>3. ASSUME NEW keys, NEW names, FinalizeFails(r, keys, names)
      PROVE  IndInv'
  <2>1. /\ Finalizing(r) /\ Cleanup(r, made[r].checkpoints \ keys, Rolled(r) \ names)
        /\ status' = [status EXCEPT ![r] = "dirty"]
      BY <1>3 DEF FinalizeFails
  <2>2. Walk'
      BY <1>1, <2>1, CleanupWalk DEF Shapes
  <2>3. Books'
      BY <2>1, CleanupBooks
  <2> QED
      BY <2>2, <2>3 DEF IndInv
<1> QED
    BY <1>2, <1>3

\* The server dies.
LEMMA CrashInd ==
    ASSUME IndInv, Crash
    PROVE  IndInv'
<1>1. Books /\ Walk /\ Shapes
    BY DEF IndInv, Books
<1>2. Walk'
    BY <1>1, CrashWalk DEF Shapes
<1>3. /\ crashes < MaxCrashes /\ crashes' = crashes + 1
      /\ status' = [r \in Runs |-> IF status[r] = "running" THEN "crashed" ELSE status[r]]
      /\ plan' = [r \in Runs |-> None] /\ workers' = [r \in Runs |-> {}]
      /\ made' = [r \in Runs |-> [checkpoints |-> {}, artifacts |-> {}]]
      /\ cancelled' = [r \in Runs |-> FALSE] /\ expired' = [r \in Runs |-> FALSE]
      /\ UNCHANGED <<checkpoints, partials, artifacts, stopped, fatal, broken>>
    BY DEF Crash, diskVars, historyVars
<1>4. Shapes'
  <2>1. crashes' \in 0 .. MaxCrashes
      BY <1>1, <1>3, RunsAssumption DEF Shapes
  <2> QED
      BY <1>1, <1>3, <2>1 DEF Shapes
<1>5. ASSUME NEW q \in Runs
      PROVE  Registered(q)'
    BY <1>1, <1>3 DEF Registered
<1>6. ASSUME NEW n \in DOMAIN artifacts'
      PROVE  Written(n)'
    BY <1>1, <1>3 DEF Books, Written
<1>7. Checkpointed'
  <2>1. PICK r \in Runs : status[r] = "running"
      BY DEF Crash
  <2> QED
      BY <1>3, <2>1 DEF Checkpointed
<1> QED
    BY <1>2, <1>4, <1>5, <1>6, <1>7 DEF IndInv, Books

\* Nothing is there yet.
LEMMA InitInd ==
    ASSUME Init
    PROVE  IndInv
<1>1. Walk
    BY InitWalk
<1>2. /\ status = [r \in Runs |-> "idle"] /\ plan = [r \in Runs |-> None]
      /\ workers = [r \in Runs |-> {}]
      /\ made = [r \in Runs |-> [checkpoints |-> {}, artifacts |-> {}]]
      /\ cancelled = [r \in Runs |-> FALSE] /\ expired = [r \in Runs |-> FALSE]
      /\ DOMAIN checkpoints = {} /\ partials = {} /\ DOMAIN artifacts = {}
      /\ stopped = [r \in Runs |-> FALSE] /\ fatal = [r \in Runs |-> FALSE]
      /\ broken = [r \in Runs |-> FALSE] /\ crashes = 0
    BY DEF Init
<1>3. Shapes
    BY <1>2, RunsAssumption DEF Shapes
<1>4. (\A r \in Runs : Registered(r)) /\ (\A n \in DOMAIN artifacts : Written(n)) /\ Checkpointed
    BY <1>2 DEF Registered, Written, Checkpointed
<1> QED
    BY <1>1, <1>3, <1>4 DEF IndInv, Books

\* The steps of the engine.
LEMMA FrameInd ==
    ASSUME IndInv, NEW r \in Runs, EngineStep(r) \/ Outcome(r)
    PROVE  IndInv'
<1>1. Books /\ Walk /\ Shapes
    BY DEF IndInv, Books
<1>2. stopped \in [Runs -> BOOLEAN] /\ fatal \in [Runs -> BOOLEAN] /\ broken \in [Runs -> BOOLEAN]
    BY <1>1 DEF Shapes
<1>3. ASSUME FrameOnly
      PROVE  Books'
    BY <1>1, <1>2, <1>3, SameBooks DEF FrameOnly, outside, diskAndMade, historyVars
<1>4. ASSUME NEW f, NEW why, Fails(r, f, why)
      PROVE  stopped' \in [Runs -> BOOLEAN] /\ fatal' \in [Runs -> BOOLEAN]
    BY <1>2, <1>4 DEF Fails
<1>5. ASSUME NEW f, NEW why, FailsOnly(r, f, why)
      PROVE  Books'
  <2>1. stopped' \in [Runs -> BOOLEAN] /\ fatal' \in [Runs -> BOOLEAN] /\ broken' = broken
      BY <1>4, <1>5 DEF FailsOnly
  <2> QED
      BY <1>1, <1>2, <1>5, <2>1, SameBooks DEF FailsOnly, outside, diskAndMade
<1>6. ASSUME NEW f \in DOMAIN frames[r], Advances(r, f)
      PROVE  Books'
  <2>1. CASE BeginCheckpoint(r, f)
      BY <2>1, BeginCheckpointBooks
  <2>2. CASE BeginArtifact(r, f)
      BY <2>2, BeginArtifactBooks
  <2>3. CASE IterationPasses(r, f)
      BY <1>1, <1>2, <2>3, SameBooks DEF IterationPasses, outside, diskAndMade
  <2>4. FrameOnly \/ BeginCheckpoint(r, f) \/ BeginArtifact(r, f) \/ IterationPasses(r, f)
      BY <1>6 DEF Advances, ReachJoin, EnterWork, AgentReturns, GateEvaluates, EnterLoop, Exhaust,
                  EndReturns, ArtifactStored
  <2> QED
      BY <1>3, <2>1, <2>2, <2>3, <2>4
<1>7. ASSUME NEW f \in DOMAIN frames[r], FailSteps(r, f)
      PROVE  Books'
  <2>1. CASE RestoreFails(r, f)
    <3>1. broken' \in [Runs -> BOOLEAN] /\ Fails(r, f, "error") /\ UNCHANGED <<outside, diskAndMade>>
        BY <1>2, <2>1 DEF RestoreFails
    <3>2. stopped' \in [Runs -> BOOLEAN] /\ fatal' \in [Runs -> BOOLEAN]
        BY <1>4, <3>1
    <3> QED
        BY <1>1, <3>1, <3>2, SameBooks DEF outside, diskAndMade
  <2>2. FailsOnly(r, f, "stop") \/ FailsOnly(r, f, "error") \/ RestoreFails(r, f)
      BY <1>7 DEF FailSteps, EnterStopped, AgentFails, AgentStops, GateFails, GateStops, BranchFailsFast,
                  IterateCancelled, CheckpointFails, MissingResult, ArtifactFails
  <2> QED
      BY <1>5, <2>1, <2>2
<1>8. ASSUME NEW f \in DOMAIN frames[r], NEW why, IterationFails(r, f, why)
      PROVE  Books'
  <2>1. CASE FailsOnly(r, f, why)
      BY <1>5, <2>1
  <2>2. CASE Restoring(r, f, TRUE) /\ stopped' = [stopped EXCEPT ![r] = @ \/ why = "stop"]
      BY <1>2, <2>2, RestoringBooks
  <2> QED
      BY <1>8, <2>1, <2>2 DEF IterationFails
<1>9. ASSUME NEW f \in DOMAIN frames[r], LoopSteps(r, f)
      PROVE  Books'
  <2>1. CASE BodyFails(r, f) \/ EvaluationFails(r, f) \/ EvaluationStops(r, f)
      BY <1>8, <2>1 DEF BodyFails, EvaluationFails, EvaluationStops
  <2>2. CASE Restoring(r, f, FALSE) /\ UNCHANGED stopped
      BY <1>2, <2>2, RestoringBooks
  <2>3. CASE FailsOnly(r, f, "error")
      BY <1>5, <2>3
  <2>4. \/ BodyFails(r, f) \/ EvaluationFails(r, f) \/ EvaluationStops(r, f) \/ FrameOnly
        \/ (Restoring(r, f, FALSE) /\ UNCHANGED stopped) \/ FailsOnly(r, f, "error")
      BY <1>9 DEF LoopSteps, BodyReturns, IterationRejected, RestoreReturns
  <2> QED
      BY <1>3, <2>1, <2>2, <2>3, <2>4
<1>10. ASSUME NEW f \in DOMAIN frames[r],
              \/ Advances(r, f) \/ FailSteps(r, f) \/ LoopSteps(r, f)
       PROVE  IndInv'
    BY <1>1, <1>2, <1>6, <1>7, <1>9, <1>10, AdvancesWalk, FailStepsWalk, LoopStepsWalk DEF IndInv
<1>11. ASSUME NEW f \in DOMAIN frames[r],
              \/ OpenBranch(r, f) \/ Join(r, f) \/ IteratePlain(r, f) \/ CheckpointTaken(r, f)
              \/ \E g \in Children(r, f) : TakeBranch(r, f, g)
       PROVE  IndInv'
  <2>1. FrameOnly
      BY <1>11 DEF OpenBranch, Join, IteratePlain, CheckpointTaken, TakeBranch
  <2>2. UNCHANGED <<status, plan, cancelled, expired, stopped, fatal>>
      BY <2>1 DEF FrameOnly, outside, historyVars
  <2>3. CASE IteratePlain(r, f) \/ CheckpointTaken(r, f)
    <3>1. RunBody(r, f) /\ frames[r][f].phase \in {"iterate", "checkpointing"}
        BY <2>3 DEF IteratePlain, CheckpointTaken, Iterating, IsAt, In
    <3> QED
        BY <1>1, <1>3, <2>1, <2>2, <3>1, RunBodyWalk DEF IndInv
  <2> QED
      BY <1>1, <1>3, <1>11, <2>1, <2>3, OpenBranchWalk, JoinWalk, TakeBranchWalk DEF IndInv
<1>12. ASSUME NEW f \in DOMAIN frames[r], AgentEdits(r, f)
       PROVE  IndInv'
  <2>1. /\ UNCHANGED <<status, plan, cancelled, expired, crashes, checkpoints, partials, artifacts>>
        /\ UNCHANGED <<frames, workers, made, stopped, fatal, broken>>
      BY <1>12 DEF AgentEdits, outside, historyVars
  <2> QED
      BY <1>1, <1>2, <2>1, SameBooks, SameWalk DEF IndInv
<1>13. CASE EngineStep(r)
    BY <1>10, <1>11, <1>13, FinalizeInd DEF EngineStep, Advances, FailSteps, LoopSteps
<1>14. CASE Outcome(r)
    BY <1>10, <1>12, <1>14 DEF Outcome, Advances, FailSteps, LoopSteps
<1> QED
    BY <1>13, <1>14

\* A stuttering step.
LEMMA StutterInd ==
    ASSUME IndInv, UNCHANGED vars
    PROVE  IndInv'
<1>1. Books'
    BY SameBooks DEF IndInv, Books, Shapes, vars
<1>2. Walk'
    BY SameWalk DEF IndInv, vars
<1> QED
    BY <1>1, <1>2 DEF IndInv

\* The invariant holds throughout.
LEMMA Inductive == Spec => []IndInv
<1>1. Init => IndInv
    BY InitInd
<1>2. IndInv /\ [Next]_vars => IndInv'
    BY WorkerStepInd, StartInd, FrameInd, CrashInd, StutterInd DEF Next
<1> QED
    BY <1>1, <1>2, PTL DEF Spec

-----------------------------------------------------------------------------
(* The theorems *)

\* execute_graph and the capability host: at every moment every frame is at a
\* node of its graph and runs inside its caller, at most max_parallelism
\* branches of a parallel node at a time, and a run commits only if it was not
\* stopped and no failure went unabsorbed.
THEOREM SchedulerSoundHolds == Spec => []SchedulerSound
<1>1. ASSUME IndInv
      PROVE  SchedulerSound
  <2>1. Shapes /\ Walk
      BY <1>1 DEF IndInv, Books
  <2>2. TypeOK
    <3>1. ASSUME NEW r \in Runs, NEW f \in DOMAIN frames[r]
          PROVE  /\ frames[r][f].phase \in Phases
                 /\ frames[r][f].graph \in DOMAIN plan[r].graphs
                 /\ frames[r][f].at \in DOMAIN plan[r].graphs[frames[r][f].graph].nodes
        BY <2>1, At DEF FrameRecords
    <3>2. ASSUME NEW r \in Runs, NEW w \in workers[r]
          PROVE  w.kind \in {"checkpoint", "restore", "artifact"} /\ w.step \in {"begin", "write"}
        BY <2>1 DEF Shapes, WorkerRecords
    <3> QED
        BY <2>1, <3>1, <3>2 DEF TypeOK, Shapes
  <2>3. ASSUME NEW r \in Runs, NEW g \in DOMAIN frames[r], g # << >>
        PROVE  LET f == Front(g)
               IN  /\ In(r, f, IF Last(g)[2] = 0 THEN "branches" ELSE "body")
                   /\ Last(g)[2] = 0 => Cardinality(Children(r, f)) <= Node(r, f).width
    <3> DEFINE f == Front(g)
               s == Last(g)
    <3>1. g \in Paths /\ Tree(r)
        BY <2>1, At DEF Walk
    <3>2. f \in Paths /\ s \in Steps /\ g = Append(f, s)
        BY <2>3, <3>1, PathParts DEF Paths
    <3> HIDE DEF f, s
    <3>3. IsPrefix(f, g)
        BY <3>1, <3>2, OneStep
    <3>4. f \in DOMAIN frames[r]
        BY <3>1, <3>2, <3>3 DEF Tree
    <3>5. Calls(r, f, s)
        BY <3>1, <3>2, <3>4 DEF Tree
    <3>6. frames[r][f].phase = IF s[2] = 0 THEN "branches" ELSE "body"
        BY <3>5 DEF Calls
    <3>7. s[2] = 0 => Cardinality(Children(r, f)) <= Node(r, f).width
        BY <3>1, <3>4, <3>6 DEF Tree
    <3> QED
        BY <3>4, <3>6, <3>7 DEF In, f, s
  <2>4. FramesAreNested
      BY <2>3 DEF FramesAreNested
  <2>5. CommitMeansSuccess
      BY <2>1 DEF CommitMeansSuccess, Walk, Verdict
  <2> QED
      BY <2>2, <2>4, <2>5 DEF SchedulerSound
<1> QED
    BY <1>1, Inductive, PTL

\* SchedulerEngine::run with finalize: a run that is over has no worker and no
\* frame, a failed one no artifact, and when no run was cut short or is under
\* way there is no checkpoint left.
THEOREM EndedRunLeavesNothingHolds == Spec => []EndedRunLeavesNothing
<1>1. ASSUME IndInv
      PROVE  EndedRunLeavesNothing
  <2>1. SUFFICES ASSUME NEW r \in Runs, Ended(r)
                 PROVE  /\ workers[r] = {} /\ DOMAIN frames[r] = {}
                        /\ status[r] = "failed" => \A n \in DOMAIN artifacts : artifacts[n] # r
                        /\ (\A q \in Runs : status[q] \in {"idle", "committed", "failed"})
                              => DOMAIN checkpoints = {}
      BY DEF EndedRunLeavesNothing
  <2>2. status[r] \in {"committed", "failed"} /\ Books /\ Walk
      BY <1>1, <2>1 DEF Ended, IndInv
  <2>3. workers[r] = {} /\ DOMAIN frames[r] = {}
      BY <2>2 DEF Books, Registered, Walk, Walks
  <2>4. status[r] = "failed" => \A n \in DOMAIN artifacts : artifacts[n] # r
      BY <2>2 DEF Books, Written
  <2>5. ASSUME \A q \in Runs : status[q] \in {"idle", "committed", "failed"}
        PROVE  DOMAIN checkpoints = {}
    <3>1. \A q \in Runs : made[q].checkpoints = {}
        BY <2>2, <2>5 DEF Books, Registered
    <3>2. \A k \in DOMAIN checkpoints : \E q \in Runs : k \in made[q].checkpoints
        BY <2>2, <2>5 DEF Books, Checkpointed
    <3> QED
        BY <3>1, <3>2
  <2> QED
      BY <2>3, <2>4, <2>5
<1> QED
    BY <1>1, Inductive, PTL

\* The blueprints of different runs name different artifacts.  The code does not
\* see to it: a run that reuses a name rolls back what another has published.
NamesApart == \A q, r \in Runs : q # r => NamesOf(q) \cap NamesOf(r) = {}

\* The refinement mapping.
Phase == [r \in Runs |-> IF status[r] = "running" THEN "open" ELSE status[r]]

Published == {<<n, artifacts[n]>> : n \in {m \in DOMAIN artifacts : status[artifacts[m]] # "running"}}

\* Of the artifacts, a step of r writes what a worker of r was to write.
Writes(r) ==
    \/ UNCHANGED artifacts
    \/ \E w \in workers[r] : w.kind = "artifact" /\ artifacts' = With(artifacts, w.key, r)

\* A step of a run ends it, or writes and leaves its status alone.
LEMMA RunSteps ==
    ASSUME NEW r \in Runs, EngineStep(r) \/ Outcome(r) \/ WorkerStep(r) \/ Cancel(r) \/ Expire(r)
    PROVE  \/ Finalize(r) \/ \E keys, names : FinalizeFails(r, keys, names)
           \/ UNCHANGED status /\ Writes(r)
<1>1. ASSUME WorkerStep(r)
      PROVE  UNCHANGED status /\ Writes(r)
    BY <1>1 DEF WorkerStep, CheckpointBegins, CheckpointCopies, RestoreClears, RestoreCopies,
                ArtifactBegins, ArtifactRenames, Writes, WorkerOnly, outside
<1>2. ASSUME Cancel(r) \/ Expire(r)
      PROVE  UNCHANGED <<status, artifacts>>
    BY <1>2 DEF Cancel, Expire, runVars, diskAndMade
<1>3. ASSUME NEW f, NEW why, FailsOnly(r, f, why)
      PROVE  UNCHANGED <<status, artifacts>>
    BY <1>3 DEF FailsOnly, outside, diskAndMade
<1>4. ASSUME FrameOnly
      PROVE  UNCHANGED <<status, artifacts>>
    BY <1>4 DEF FrameOnly, outside, diskAndMade
<1>5. ASSUME NEW f, Advances(r, f)
      PROVE  UNCHANGED <<status, artifacts>>
    BY <1>4, <1>5 DEF Advances, ReachJoin, EnterWork, AgentReturns, GateEvaluates, EnterLoop, Exhaust,
                      EndReturns, ArtifactStored, IterationPasses, BeginCheckpoint, BeginArtifact,
                      outside, diskVars, diskAndMade
<1>6. ASSUME NEW f, FailSteps(r, f)
      PROVE  UNCHANGED <<status, artifacts>>
    BY <1>3, <1>6 DEF FailSteps, EnterStopped, AgentFails, AgentStops, GateFails, GateStops, BranchFailsFast,
                      IterateCancelled, CheckpointFails, MissingResult, ArtifactFails, RestoreFails,
                      outside, diskAndMade
<1>7. ASSUME NEW f, NEW error, Restoring(r, f, error)
      PROVE  UNCHANGED <<status, artifacts>>
    BY <1>7 DEF Restoring, outside, diskVars
<1>8. ASSUME NEW f, LoopSteps(r, f)
      PROVE  UNCHANGED <<status, artifacts>>
    BY <1>3, <1>4, <1>7, <1>8 DEF LoopSteps, BodyReturns, BodyFails, EvaluationFails, EvaluationStops,
                                  IterationFails, IterationRejected, RestoreReturns
<1>9. ASSUME NEW f, \/ OpenBranch(r, f) \/ Join(r, f) \/ IteratePlain(r, f) \/ CheckpointTaken(r, f)
                    \/ \E g \in Children(r, f) : TakeBranch(r, f, g)
      PROVE  UNCHANGED <<status, artifacts>>
    BY <1>4, <1>9 DEF OpenBranch, Join, IteratePlain, CheckpointTaken, TakeBranch
<1>10. ASSUME NEW f, AgentEdits(r, f)
       PROVE  UNCHANGED <<status, artifacts>>
    BY <1>10 DEF AgentEdits, outside
<1>11. ASSUME EngineStep(r)
       PROVE  \/ Finalize(r) \/ \E keys, names : FinalizeFails(r, keys, names)
              \/ UNCHANGED <<status, artifacts>>
    BY <1>5, <1>6, <1>8, <1>9, <1>11 DEF EngineStep, Advances, FailSteps, LoopSteps
<1>12. ASSUME Outcome(r)
       PROVE  UNCHANGED <<status, artifacts>>
    BY <1>5, <1>6, <1>8, <1>10, <1>12 DEF Outcome, Advances, FailSteps, LoopSteps
<1> QED
    BY <1>1, <1>2, <1>11, <1>12 DEF Writes

\* A step that neither starts nor ends a run changes nothing to be seen: the
\* artifact a worker renames into place replaces none of another run.
LEMMA HiddenStep ==
    ASSUME NamesApart, IndInv, NEW r \in Runs,
           UNCHANGED status, Writes(r)
    PROVE  Phase' = Phase /\ Published' = Published
<1>1. Phase' = Phase
    BY DEF Phase
<1>2. CASE UNCHANGED artifacts
  <2>1. {m \in DOMAIN artifacts' : status'[artifacts'[m]] # "running"}
           = {m \in DOMAIN artifacts : status[artifacts[m]] # "running"}
      BY <1>2
  <2> QED
      BY <1>1, <1>2, <2>1 DEF Published
<1>3. CASE \E w \in workers[r] : w.kind = "artifact" /\ artifacts' = With(artifacts, w.key, r)
  <2>1. PICK w \in workers[r] : w.kind = "artifact" /\ artifacts' = With(artifacts, w.key, r)
      BY <1>3
  <2>2. Registered(r) /\ \A n \in DOMAIN artifacts : Written(n)
      BY DEF IndInv, Books
  <2>3. status[r] = "running" /\ w.key \in NamesOf(r)
      BY <2>1, <2>2 DEF Registered
  <2>4. w.key \in DOMAIN artifacts => artifacts[w.key] = r
      BY <2>2, <2>3 DEF Written, NamesApart
  <2>5. /\ DOMAIN artifacts' = DOMAIN artifacts \cup {w.key} /\ artifacts'[w.key] = r
        /\ \A n \in DOMAIN artifacts : n # w.key => artifacts'[n] = artifacts[n]
      BY <2>1 DEF With
  <2>6. {m \in DOMAIN artifacts' : status'[artifacts'[m]] # "running"}
           = {m \in DOMAIN artifacts : status[artifacts[m]] # "running"}
      BY <2>3, <2>4, <2>5
  <2>7. \A m \in {k \in DOMAIN artifacts : status[artifacts[k]] # "running"} : artifacts'[m] = artifacts[m]
      BY <2>3, <2>4, <2>5
  <2> QED
      BY <1>1, <2>6, <2>7 DEF Published
<1> QED
    BY <1>1, <1>2, <1>3 DEF Writes

\* A run begins with nothing published.
LEMMA BeginStep ==
    ASSUME IndInv, NEW r \in Runs, NEW b \in Blueprints[r], StartRun(r, b)
    PROVE  Transaction!Begin(r)
<1>1. /\ status[r] = "idle" /\ status' = [status EXCEPT ![r] = "running"] /\ UNCHANGED artifacts
      /\ status \in [Runs -> {"idle", "running", "committed", "failed", "dirty", "crashed"}]
    BY DEF StartRun, diskAndMade, IndInv, Books, Shapes
<1>2. Phase[r] = "idle" /\ Phase' = [Phase EXCEPT ![r] = "open"]
    BY <1>1 DEF Phase
<1>3. \A n \in DOMAIN artifacts : artifacts[n] \in Runs /\ artifacts[n] # r
    BY <1>1 DEF IndInv, Books, Written
<1>4. \A n \in DOMAIN artifacts : status'[artifacts[n]] = status[artifacts[n]]
    BY <1>1, <1>3
<1>5. {m \in DOMAIN artifacts' : status'[artifacts'[m]] # "running"}
         = {m \in DOMAIN artifacts : status[artifacts[m]] # "running"}
    BY <1>1, <1>4
<1>6. Published' = Published
    BY <1>1, <1>5 DEF Published
<1> QED
    BY <1>2, <1>6 DEF Transaction!Begin, Phase, Published

\* A run ends: what it leaves is published, and nothing of another run is taken.
LEMMA CloseStep ==
    ASSUME NamesApart, IndInv, NEW r \in Runs, NEW keys, NEW names, Finalizing(r), Cleanup(r, keys, names),
           names \subseteq made[r].artifacts,
           NEW outcome \in {"committed", "failed", "dirty"},
           status' = [status EXCEPT ![r] = outcome],
           outcome = "failed" => names = made[r].artifacts
    PROVE  \E left \in SUBSET UNION {NamesOf(q) : q \in Runs} : Transaction!Close(r, outcome, left)
<1> DEFINE left == {n \in (DOMAIN artifacts) \ names : artifacts[n] = r}
<1>1. /\ status[r] = "running"
      /\ status \in [Runs -> {"idle", "running", "committed", "failed", "dirty", "crashed"}]
      /\ Registered(r) /\ \A n \in DOMAIN artifacts : Written(n)
    BY DEF Finalizing, IndInv, Books, Shapes
<1>2. artifacts' = [n \in (DOMAIN artifacts) \ names |-> artifacts[n]]
    BY DEF Cleanup
<1>3. Phase[r] = "open" /\ Phase' = [Phase EXCEPT ![r] = outcome]
    BY <1>1 DEF Phase
<1>4. left \subseteq UNION {NamesOf(q) : q \in Runs}
    BY <1>1 DEF Written
<1>5. outcome = "failed" => left = {}
    BY <1>1 DEF Written
<1>6. \A n \in DOMAIN artifacts : artifacts[n] # r => n \notin names
    BY <1>1 DEF Written, Registered, NamesApart
<1>7. /\ status'[r] = outcome /\ outcome # "running"
      /\ \A n \in DOMAIN artifacts : artifacts[n] # r => status'[artifacts[n]] = status[artifacts[n]]
    BY <1>1 DEF Written
<1>8. Published' = Published \cup {<<n, r>> : n \in left}
  <2>1. ASSUME NEW x \in Published'
        PROVE  x \in Published \cup {<<n, r>> : n \in left}
    <3>1. PICK n \in DOMAIN artifacts' : status'[artifacts'[n]] # "running" /\ x = <<n, artifacts'[n]>>
        BY <2>1 DEF Published
    <3>2. n \in (DOMAIN artifacts) \ names /\ artifacts'[n] = artifacts[n]
        BY <1>2, <3>1
    <3> QED
        BY <1>7, <3>1, <3>2 DEF Published
  <2>2. ASSUME NEW x \in Published
        PROVE  x \in Published'
    <3>1. PICK n \in DOMAIN artifacts : status[artifacts[n]] # "running" /\ x = <<n, artifacts[n]>>
        BY <2>2 DEF Published
    <3>2. artifacts[n] # r /\ n \in DOMAIN artifacts' /\ artifacts'[n] = artifacts[n]
        BY <1>1, <1>2, <1>6, <3>1
    <3> QED
        BY <1>7, <3>1, <3>2 DEF Published
  <2>3. ASSUME NEW n \in left
        PROVE  <<n, r>> \in Published'
    <3>1. n \in DOMAIN artifacts' /\ artifacts'[n] = r
        BY <1>2, <2>3
    <3> QED
        BY <1>7, <3>1 DEF Published
  <2> QED
      BY <2>1, <2>2, <2>3
<1> HIDE DEF left
<1>9. PICK L : L = left
    OBVIOUS
<1>10. Transaction!Close(r, outcome, L)
    BY <1>3, <1>5, <1>8, <1>9 DEF Transaction!Close, Phase, Published
<1>11. L \in SUBSET UNION {NamesOf(q) : q \in Runs}
    BY <1>4, <1>9
<1> QED
    BY <1>10, <1>11

\* The server dies: what the runs under way have written stays.
LEMMA DieStep ==
    ASSUME IndInv, Crash
    PROVE  \E left \in SUBSET ((UNION {NamesOf(q) : q \in Runs}) \X Runs) : Transaction!Die(left)
<1> DEFINE left == {<<n, artifacts[n]>> : n \in {m \in DOMAIN artifacts : status[artifacts[m]] = "running"}}
<1>1. /\ status \in [Runs -> {"idle", "running", "committed", "failed", "dirty", "crashed"}]
      /\ \A n \in DOMAIN artifacts : Written(n)
    BY DEF IndInv, Books, Shapes
<1>2. /\ UNCHANGED artifacts /\ \E r \in Runs : status[r] = "running"
      /\ status' = [r \in Runs |-> IF status[r] = "running" THEN "crashed" ELSE status[r]]
    BY DEF Crash, diskVars
<1>3. /\ \E r \in Runs : Phase[r] = "open"
      /\ Phase' = [r \in Runs |-> IF Phase[r] = "open" THEN "crashed" ELSE Phase[r]]
    BY <1>1, <1>2 DEF Phase
<1>4. left \in SUBSET ((UNION {NamesOf(q) : q \in Runs}) \X Runs)
    BY <1>1 DEF Written
<1>5. \A x \in left : Phase[x[2]] = "open"
    BY <1>1 DEF Written, Phase
<1>6. Published' = Published \cup left
  <2>1. \A n \in DOMAIN artifacts : status'[artifacts[n]] # "running"
      BY <1>1, <1>2 DEF Written
  <2>2. Published' = {<<n, artifacts[n]>> : n \in DOMAIN artifacts}
      BY <1>2, <2>1 DEF Published
  <2> QED
      BY <2>2 DEF Published
<1> HIDE DEF left
<1>7. PICK L : L = left
    OBVIOUS
<1>8. Transaction!Die(L)
    BY <1>3, <1>5, <1>6, <1>7 DEF Transaction!Die, Phase, Published
<1>9. L \in SUBSET ((UNION {NamesOf(q) : q \in Runs}) \X Runs)
    BY <1>4, <1>7
<1> QED
    BY <1>8, <1>9

\* The scheduler implements RunTransaction: seen through the artifacts of the
\* runs that are over, a run publishes when it ends, a failing one nothing, and
\* no run takes or replaces what another has published, if they use different
\* names.
THEOREM TransactionRefined ==
    ASSUME NamesApart
    PROVE  Spec => ArtifactsAreTransactional
<1>1. Init => Transaction!Init
    BY DEF Init, Transaction!Init
<1>2. ASSUME IndInv, [Next]_vars
      PROVE  [Transaction!Next]_(Transaction!tvars)
  <2>1. CASE UNCHANGED <<status, artifacts>>
      BY <2>1 DEF Transaction!tvars
  <2>2. CASE Crash
      BY <1>2, <2>2, DieStep DEF Transaction!Next
  <2>3. ASSUME NEW r \in Runs, NEW b \in Blueprints[r], StartRun(r, b)
        PROVE  Transaction!Next
      BY <1>2, <2>3, BeginStep DEF Transaction!Next
  <2>4. ASSUME NEW r \in Runs, Finalize(r)
        PROVE  Transaction!Next
    <3> DEFINE outcome == IF frames[r][<< >>].phase = "failed" THEN "failed" ELSE "committed"
    <3>1. /\ Finalizing(r) /\ Cleanup(r, made[r].checkpoints, Rolled(r))
          /\ status' = [status EXCEPT ![r] = outcome]
        BY <2>4 DEF Finalize
    <3>2. /\ outcome \in {"committed", "failed", "dirty"} /\ Rolled(r) \subseteq made[r].artifacts
          /\ outcome = "failed" => Rolled(r) = made[r].artifacts
        BY DEF Rolled
    <3> HIDE DEF outcome
    <3>3. PICK left \in SUBSET UNION {NamesOf(q) : q \in Runs} : Transaction!Close(r, outcome, left)
        BY <1>2, <3>1, <3>2, CloseStep
    <3> QED
        BY <3>2, <3>3 DEF Transaction!Next
  <2>5. ASSUME NEW r \in Runs, NEW keys, NEW names, FinalizeFails(r, keys, names)
        PROVE  Transaction!Next
    <3>1. /\ Finalizing(r) /\ Cleanup(r, made[r].checkpoints \ keys, Rolled(r) \ names)
          /\ status' = [status EXCEPT ![r] = "dirty"]
        BY <2>5 DEF FinalizeFails
    <3>2. Rolled(r) \ names \subseteq made[r].artifacts
        BY DEF Rolled
    <3>3. PICK left \in SUBSET UNION {NamesOf(q) : q \in Runs} : Transaction!Close(r, "dirty", left)
        BY <1>2, <3>1, <3>2, CloseStep
    <3> QED
        BY <3>3 DEF Transaction!Next
  <2>6. ASSUME NEW r \in Runs, UNCHANGED status, Writes(r)
        PROVE  UNCHANGED (Transaction!tvars)
      BY <1>2, <2>6, HiddenStep DEF Transaction!tvars, Phase, Published
  <2> QED
      BY <1>2, <2>1, <2>2, <2>3, <2>4, <2>5, <2>6, RunSteps DEF Next, vars
<1> QED
    BY <1>1, <1>2, Inductive, PTL DEF Spec, ArtifactsAreTransactional, Transaction!Spec

=============================================================================
