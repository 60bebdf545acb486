-------------------------- MODULE MCPaddleBilling --------------------------
(* Constant values for model checking PaddleBilling.                        *)
EXTENDS PaddleBilling, TLC

\* A month is two ticks, so that the sweep's lead (one tick) and its tolerance
\* (one tick) both fall inside a period; a year is three, longer than a month.
MCLength == [month |-> 2, year |-> 3]

MonthlyPrices == [plan : {"pro", "business"}, interval : {"month"}]
WithYearly == MonthlyPrices \cup {[plan |-> "business", interval |-> "year"]}

Symmetry == Permutations(Procs)
=============================================================================
