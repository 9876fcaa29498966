------------------------- MODULE MCSchedulerEngine --------------------------
(***************************************************************************)
(* SchedulerEngine on small blueprints.                                    *)
(***************************************************************************)
EXTENDS SchedulerEngine

Limits == [parallelism |-> 2, iterations |-> 2, nodes |-> 8, depth |-> 6]

Agent(next) == [kind |-> "agent", next |-> next]

Parallel(branches, join, width, mode) ==
    [kind |-> "parallel", branches |-> branches, join |-> join, width |-> width, mode |-> mode]

Gate(pass, fail, unsure) == [kind |-> "gate", pass |-> pass, fail |-> fail, unsure |-> unsure]

Loop(body, max, checkpoint, satisfied, exhausted) ==
    [kind |-> "loop", body |-> body, max |-> max, checkpoint |-> checkpoint,
     satisfied |-> satisfied, exhausted |-> exhausted]

End(source, name) == [kind |-> "end", source |-> source, name |-> name]

Graph(entry, nodes) == [entry |-> entry, nodes |-> nodes]

Blueprint(graphs) == [root |-> "root", graphs |-> graphs, limits |-> Limits]

Body == Graph("work", [work |-> Agent("fin"), fin |-> End("last", "none")])

\* A checkpointed loop, then an artifact.
Research(name) ==
    Blueprint([root |-> Graph("try", [try |-> Loop("body", 2, TRUE, "keep", "keep"),
                                      keep |-> End("artifact", name)]),
               body |-> Body])

\* Two branches, one of which may end in an artifact of its own.
Fork(mode, name) ==
    Blueprint([root |-> Graph("both", [both |-> Parallel(<<"plan", "check">>, "fin", 2, mode),
                                       plan |-> Agent("fin"),
                                       check |-> Gate("keep", "fin", "fin"),
                                       keep |-> End("artifact", name),
                                       fin |-> End("named", "plan")])])

\* A loop without a checkpoint within one that has one.
Nested ==
    Blueprint([root |-> Graph("outer", [outer |-> Loop("middle", 1, TRUE, "fin", "fin"),
                                        fin |-> End("last", "none")]),
               middle |-> Graph("work", [work |-> Agent("inner"),
                                         inner |-> Loop("body", 2, FALSE, "fin", "fin"),
                                         fin |-> End("last", "none")]),
               body |-> Graph("fin", [fin |-> End("last", "none")])])

TwoSessions == [r \in Runs |-> r]

OneSession == [r \in Runs |-> "session"]

Distinct == <<{Research("report"), Fork("FailFast", "report"), Fork("Collect", "report"), Nested},
              {Research("summary")}>>

\* Checkpointed loops in the branches of a parallel node.
Loops(mode) ==
    Blueprint([root |-> Graph("both", [both |-> Parallel(<<"a", "b">>, "fin", 2, mode),
                                       a |-> Loop("body", 1, TRUE, "fin", "fin"),
                                       b |-> IF mode = "Collect" THEN Loop("body", 1, TRUE, "fin", "fin") ELSE Agent("fin"),
                                       fin |-> End("last", "none")]),
               body |-> Body])

ParallelLoops == <<{Loops("FailFast"), Loops("Collect")}>>

Research2 == [r \in Runs |-> {Research("report")}]

\* Test commits_successful_artifacts_and_removes_rolled_back_artifacts: a
\* committed artifact is kept, a rolled-back one removed.  What a committed run
\* has stored stays when a later run of the session fails.
CommittedArtifactsStay ==
    [][\A n \in DOMAIN artifacts :
          status[artifacts[n]] = "committed" => n \in DOMAIN artifacts']_vars

\* Test isolates_checkpoints_by_scope_at_the_same_iteration: checkpoints do not
\* get into each other's way.  A loop's checkpoint is there while it iterates.
CheckpointStays ==
    \A r \in Runs : \A f \in DOMAIN frames[r] :
        IsAt(r, f, "evaluate", "loop") /\ Node(r, f).checkpoint => Key(r, f) \in DOMAIN checkpoints
=============================================================================
