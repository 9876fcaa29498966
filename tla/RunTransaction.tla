--------------------------- MODULE RunTransaction ---------------------------
(***************************************************************************)
(* What a scheduler run promises of the artifacts of its directory: they   *)
(* appear when the run commits, a run that fails leaves none, and nothing  *)
(* a run does touches what others have published.  Only a run whose        *)
(* cleanup failed, or that the server's death cut short, may leave some.   *)
(***************************************************************************)
CONSTANTS Runs, Names

VARIABLES
    phase,      \* of each run: idle, open, committed, failed, dirty, crashed
    published   \* <<name, run>>: the artifacts of runs that are over

tvars == <<phase, published>>

Init ==
    /\ phase = [r \in Runs |-> "idle"]
    /\ published = {}

Begin(r) ==
    /\ phase[r] = "idle"
    /\ phase' = [phase EXCEPT ![r] = "open"]
    /\ UNCHANGED published

Close(r, outcome, names) ==
    /\ phase[r] = "open"
    /\ outcome = "failed" => names = {}
    /\ phase' = [phase EXCEPT ![r] = outcome]
    /\ published' = published \cup {<<n, r>> : n \in names}

\* The server dies with every open run.
Die(left) ==
    /\ \E r \in Runs : phase[r] = "open"
    /\ \A x \in left : phase[x[2]] = "open"
    /\ phase' = [r \in Runs |-> IF phase[r] = "open" THEN "crashed" ELSE phase[r]]
    /\ published' = published \cup left

Next ==
    \/ \E r \in Runs :
          \/ Begin(r)
          \/ \E outcome \in {"committed", "failed", "dirty"}, names \in SUBSET Names : Close(r, outcome, names)
    \/ \E left \in SUBSET (Names \X Runs) : Die(left)

Spec == Init /\ [][Next]_tvars
=============================================================================
