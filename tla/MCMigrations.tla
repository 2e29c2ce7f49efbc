----------------------------- MODULE MCMigrations -----------------------------
(* Migrations with two releases: see the README for the bounds. *)
EXTENDS Migrations

M(version, name) == [ version |-> version, name |-> name ]

\* Below, between and above the default migrations, and in the place of one of them.
MCMigration == { M(5, "early"), M(15, "between"), M(15, "other"), M(20, "instead"), M(25, "late") }
MCDefaults  == { << M(10, "init") >>, << M(10, "init"), M(20, "alter") >> }
=============================================================================
