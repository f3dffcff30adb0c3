---------------------------- MODULE MCMigrations ----------------------------
(***************************************************************************)
(* Instances of Migrations for TLC.                                        *)
(***************************************************************************)
EXTENDS Migrations

\* An empty database, and one deployed at each of the revisions.
AnyRevision == 0 .. HeadRevision
==============================================================================
