----------------------------- MODULE MCCostGuard -----------------------------
(* Instances of CostGuard for TLC. *)
EXTENDS CostGuard, TLC

CONSTANTS b1, b2

\* Two calls that share two budgets, in the same order.
SameOrder == 1 :> <<b1, b2>> @@ 2 :> <<b1, b2>>

MaxCostOne == [c \in Calls |-> IF c = 1 THEN 1 ELSE None]

TwoAndOne == b1 :> 2 @@ b2 :> 1
AddOne == {-1, 1}

\* What SomeoneWins is proved under: some call, and one order for all of them.
ASSUME RaceAssumption == NCalls > 0 /\ InOrder(b1 :> 1 @@ b2 :> 2)
=============================================================================
