---------------------------- MODULE MCMigrations ----------------------------
(***************************************************************************)
(* The root module of the run of Migrations: its constants are numbers,    *)
(* given in the configuration.                                             *)
(***************************************************************************)
EXTENDS Migrations, RevisionPaths
=============================================================================
