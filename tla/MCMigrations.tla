---------------------------- MODULE MCMigrations ----------------------------
(* Migrations with two processes on one file, and a provider that is there   *)
(* beside one that is created while a process serves.                        *)
EXTENDS Migrations
=============================================================================
