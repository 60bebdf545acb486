----------------------------- MODULE MCAccounts -----------------------------
(***************************************************************************)
(* One account with up to two users rows, three sessions and two links.    *)
(***************************************************************************)
EXTENDS Accounts, TLC

Symmetry == Permutations(Procs) \cup Permutations(Rows) \cup Permutations(Sids)
              \cup Permutations(Links)
=============================================================================
