------------------------- MODULE SchedulerBlueprint -------------------------
(***************************************************************************)
(* Scheduler blueprints and their validation: blueprint/types.rs and       *)
(* blueprint/validate.rs.                                                  *)
(*                                                                         *)
(* A blueprint is [root, graphs, limits]; graphs maps a graph's name to    *)
(* [entry, nodes], and a loop node names the graph of its body, which the  *)
(* code nests.  Agents, tools, skills, evaluators and capabilities are the *)
(* catalog's and exist; what remains of the validation is about shape.     *)
(***************************************************************************)
EXTENDS Integers, Sequences, FiniteSets, FiniteSetsExt

\* The targets of a node, in the order the engine names them.
Outgoing(node) ==
    CASE node.kind = "agent"    -> {node.next}
      [] node.kind = "parallel" -> {node.branches[i] : i \in DOMAIN node.branches} \cup {node.join}
      [] node.kind = "gate"     -> {node.pass, node.fail, node.unsure}
      [] node.kind = "loop"     -> {node.satisfied, node.exhausted}
      [] node.kind = "end"      -> {}

\* The nodes a walk along outgoing edges meets within k edges of S.
Within(graph, S) ==
    LET met[k \in Nat] ==
            IF k = 0 THEN S
            ELSE met[k - 1] \cup UNION {Outgoing(graph.nodes[n]) : n \in met[k - 1] \cap DOMAIN graph.nodes}
    IN  met[Cardinality(DOMAIN graph.nodes)]

ReachableFrom(graph, start) == Within(graph, {start})

PathExists(graph, start, target) == target \in ReachableFrom(graph, start)

Acyclic(graph) ==
    \A n \in DOMAIN graph.nodes : n \notin Within(graph, Outgoing(graph.nodes[n]))

ValidNode(blueprint, graph, node) ==
    CASE node.kind = "agent" -> TRUE
      [] node.kind = "parallel" ->
            /\ Len(node.branches) >= 2
            /\ \A i, j \in DOMAIN node.branches : node.branches[i] = node.branches[j] => i = j
            /\ node.width \in 1 .. Min({blueprint.limits.parallelism, Len(node.branches)})
            /\ \A i \in DOMAIN node.branches : PathExists(graph, node.branches[i], node.join)
      [] node.kind = "gate" -> TRUE
      [] node.kind = "loop" -> node.max \in 1 .. blueprint.limits.iterations
      [] node.kind = "end" -> node.source = "named" => node.name \in DOMAIN graph.nodes

ValidGraph(blueprint, graph) ==
    /\ graph.entry \in DOMAIN graph.nodes
    /\ \A n \in DOMAIN graph.nodes :
          /\ ValidNode(blueprint, graph, graph.nodes[n])
          /\ Outgoing(graph.nodes[n]) \subseteq DOMAIN graph.nodes
    /\ Acyclic(graph)
    /\ ReachableFrom(graph, graph.entry) = DOMAIN graph.nodes
    /\ \E n \in DOMAIN graph.nodes : graph.nodes[n].kind = "end"

\* Nodes of the graph and, recursively, of the bodies of its loops: every graph
\* of a blueprint is the root or the body of one loop node.
RecursiveNodeCount(blueprint) ==
    MapThenSumSet(LAMBDA g : Cardinality(DOMAIN blueprint.graphs[g].nodes), DOMAIN blueprint.graphs)

\* The longest chain of nodes from the entry, a loop counting its body's.
GraphDepth(blueprint) ==
    LET depth[x \in (DOMAIN blueprint.graphs) \X UNION {DOMAIN blueprint.graphs[g].nodes : g \in DOMAIN blueprint.graphs}] ==
            LET node == blueprint.graphs[x[1]].nodes[x[2]]
            IN  1 + (IF node.kind = "loop" THEN depth[<<node.body, blueprint.graphs[node.body].entry>>] ELSE 0)
                  + Max({0} \cup {depth[<<x[1], n>>] : n \in Outgoing(node)})
    IN  depth[<<blueprint.root, blueprint.graphs[blueprint.root].entry>>]

ValidBlueprint(blueprint) ==
    /\ \A l \in DOMAIN blueprint.limits : blueprint.limits[l] > 0
    /\ \A g \in DOMAIN blueprint.graphs : ValidGraph(blueprint, blueprint.graphs[g])
    /\ RecursiveNodeCount(blueprint) <= blueprint.limits.nodes
    /\ GraphDepth(blueprint) <= blueprint.limits.depth
=============================================================================
