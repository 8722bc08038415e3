------------------------------ MODULE MCBilling ------------------------------
(* Instances of Billing for TLC. *)
EXTENDS Billing, TLC

CONSTANTS r1, r2, r3, r4, r5, p1, p2

Symmetry == Permutations(Requests)

OneUnit == {<<[product |-> p1, quantity |-> 1]>>}
TwiceTheSame == {<<[product |-> p1, quantity |-> 1], [product |-> p1, quantity |-> 1]>>}

\* December and January.
TwoYears == <<2025, 2026>>
OneYear == <<2026, 2026>>
OneMonth == <<2026>>

\* A LIKE pattern matches its own series only.
OwnSeries == [s \in Series |-> {s}]
\* INV-2026-% also matches all numbers of the prefix INV-2026.
Overlapping == [s \in Series |->
  {s} \cup (IF s = <<"INV", 2026>> THEN {t \in Series : t[1] = "INV-2026"} ELSE {})]

Unlimited == {[status |-> "Active", limit |-> 0]}
OneBillOrSuspended == {[status |-> "Active", limit |-> 1], [status |-> "Suspended", limit |-> 1]}
=============================================================================
