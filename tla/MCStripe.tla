------------------------------ MODULE MCStripe ------------------------------
(***************************************************************************)
(* One account with up to two subscriptions and customers, three prices.   *)
(***************************************************************************)
EXTENDS StripeBilling, TLC

Ids == {1, 2}
ThreePrices == {[plan |-> "pro", interval |-> "month"],
                [plan |-> "business", interval |-> "month"],
                [plan |-> "business", interval |-> "year"]}
BusinessYear == {[plan |-> "business", interval |-> "year"]}

Symmetry == Permutations(Procs) \cup Permutations(Customers)
=============================================================================
