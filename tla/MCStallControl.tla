--------------------------- MODULE MCStallControl ---------------------------
(***************************************************************************)
(* StallControl on small instances, and what a comment says of an empty    *)
(* window.                                                                 *)
(***************************************************************************)
EXTENDS StallControl

CONSTANTS a1, a2

OneReplan == <<"r1">>

TwoReplans == <<"r1", "r2">>

\* StallWindow: "an empty window simply re-baselines".  The ledger is blocked
\* only after attempts, or when a deadline that was set has passed.
BlockIsEarned ==
    \A a \in Actors : seam[a].action = "block" => control.set \/ control.attempts = MaxReplans
=============================================================================
