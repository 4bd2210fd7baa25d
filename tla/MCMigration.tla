---------------------------- MODULE MCMigration ----------------------------
(* Instances of Migration for TLC: two or three nodes, one of them full. *)
EXTENDS Migration

CONSTANTS m, a, b, f
=============================================================================
