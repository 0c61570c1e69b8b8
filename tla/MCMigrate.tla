------------------------------ MODULE MCMigrate ------------------------------
(***************************************************************************)
(* Instances of Migrate for TLC: the configuration names the processes and *)
(* says how many files there are, two as in internal/db/migrations.        *)
(***************************************************************************)
EXTENDS Migrate

==============================================================================
