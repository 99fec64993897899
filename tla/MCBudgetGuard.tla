--------------------------- MODULE MCBudgetGuard ----------------------------
(* Constants of BudgetGuard for TLC. *)
EXTENDS BudgetGuard, TLC

CONSTANTS a, b, c3

MCCalls == {a, b, c3}
MCCost == a :> 2 @@ b :> 1 @@ c3 :> 2
=============================================================================
