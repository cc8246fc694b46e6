------------------------- MODULE MCDaemonLifecycle -------------------------
(***************************************************************************)
(* Instances of DaemonLifecycle for TLC. Processes and inodes are model    *)
(* values that only the configuration names, so both sets are symmetric.   *)
(***************************************************************************)
EXTENDS DaemonLifecycle, TLC

\* Sound for the safety runs, which name no process and no inode.
Symmetry == Permutations(Daemons) \cup Permutations(Inodes)
=============================================================================
