---------------------------- MODULE MCMigration ----------------------------
(* A migration of three functions, which may be finished in any order and    *)
(* taken back before integration begins.                                     *)
EXTENDS Migration

ThreeFuncs == {"fwd", "bwd", "update"}
============================================================================
