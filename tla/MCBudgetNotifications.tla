----------------------- MODULE MCBudgetNotifications -----------------------
(* Instances of BudgetNotifications for TLC. *)
EXTENDS BudgetNotifications, TLC

Symmetry == Permutations(Dispatches) \cup Permutations(Viewers)
=============================================================================
