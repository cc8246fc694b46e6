---------------------------- MODULE MCMigration ----------------------------
(***************************************************************************)
(* Instances of Migration for TLC: migrations are model values no          *)
(* definition names, so the runs may permute them.                         *)
(***************************************************************************)
EXTENDS Migration, TLC

Symmetry == Permutations(Migrators)
=============================================================================
