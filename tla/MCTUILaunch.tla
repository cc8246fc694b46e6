---------------------------- MODULE MCTUILaunch ----------------------------
(***************************************************************************)
(* Instances of TUILaunch for TLC: launchers and PIDs are model values no  *)
(* definition names, so the safety runs may permute both.                  *)
(***************************************************************************)
EXTENDS TUILaunch, TLC

Symmetry == Permutations(Launchers) \cup Permutations(PIDs)
=============================================================================
