---------------------------- MODULE MCMigrations ----------------------------
(* Runners and rows for the small instance of Migrations. *)
EXTENDS Migrations

=============================================================================
