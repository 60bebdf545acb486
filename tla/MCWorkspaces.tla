---------------------------- MODULE MCWorkspaces ----------------------------
(* Constant values for model checking Workspaces: a free plan with room for  *)
(* one workspace, one member and one membership, and a paid plan with two.   *)
EXTENDS Workspaces, TLC

MCPlans == {"free", "pro"}
MCLimit == [free |-> 1, pro |-> 2]

Symmetry == Permutations(Procs) \cup Permutations(Accounts)
              \cup Permutations(Tenants) \cup Permutations(Invites)
=============================================================================
