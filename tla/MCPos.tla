-------------------------------- MODULE MCPos --------------------------------
(* Instances of Pos for TLC. *)
EXTENDS Pos, TLC

CONSTANTS r1, r2, r3, r4, r5, p1, p2

Symmetry == Permutations(Requests)

OneUnit == {<<[product |-> p1, quantity |-> 1]>>}
TwiceTheSame == {<<[product |-> p1, quantity |-> 1], [product |-> p1, quantity |-> 1]>>}

\* A unit written off; a recount that changes nothing (delta 0 is accepted).
Recount == {0}
LossOrRecount == {-1, 0}

OneMonth == <<2026>>
\* December and January.
TwoYears == <<2025, 2026>>
OwnSeries == [s \in Series |-> {s}]

Unlimited == {[status |-> "Active", limit |-> 0]}
=============================================================================
