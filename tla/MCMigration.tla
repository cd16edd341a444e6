---------------------------- MODULE MCMigration ----------------------------
(* Instance for TLC of the revisions by themselves: two deployments of one *)
(* build, of two components on two repositories.                           *)
EXTENDS Migration
=============================================================================
