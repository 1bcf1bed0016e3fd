--------------------------- MODULE MCBudgetGuard ----------------------------
(* BudgetGuard with two workers, in one process or in two.                 *)
EXTENDS BudgetGuard, TLC

CONSTANTS w1, w2, p1, p2

MCUsage == {[input |-> 10, cached |-> 5, output |-> 1]}
MCHomes == {[w \in Worker |-> p1], (w1 :> p1) @@ (w2 :> p2)}
MCDirectories == <<w1, w2>>

=============================================================================
