------------------------------ MODULE MCBoard ------------------------------
(* Constant values for model checking Board.                                *)
EXTENDS Board, TLC

\* Two columns stand for a status, one does not; "planned" can be made again
\* after it was deleted, and "open" has no column.
MCStatuses == {"open", "planned", "completed"}
MCKeys     == {"planned", "completed", "backlog"}
CONSTANTS c1, c2, c3
MCSeed == (c1 :> "planned") @@ (c2 :> "completed") @@ (c3 :> "none")

Symmetry == Permutations(Procs) \cup Permutations(Posts) \cup Permutations(Items)
=============================================================================
