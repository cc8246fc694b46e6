----------------------------- MODULE MCCostState -----------------------------
(* Instances of CostState for TLC. *)
EXTENDS CostState, TLC

Symmetry == Permutations(Procs) \cup Permutations(Sessions)
=============================================================================
