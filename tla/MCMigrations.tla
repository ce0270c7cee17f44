---------------------------- MODULE MCMigrations ----------------------------
(***************************************************************************)
(* An instance of Migrations for TLC: the service and a console instance   *)
(* on one database, 001_initial.sql and two later files of two statements. *)
(***************************************************************************)
EXTENDS Migrations

TwoProcs == {"service", "console"}
=============================================================================
