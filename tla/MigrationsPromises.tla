-------------------------- MODULE MigrationsPromises --------------------------
(***************************************************************************)
(* What a comment in `connect` says of a connection without migrations,    *)
(* and the code departs from.                                              *)
(***************************************************************************)
EXTENDS MCMigrations

\* "Connecting with migrations disabled should fail if the database is not already
\* up to date" (sql.rs:1480; "Abort if the DB is not already up to date", sql.rs:545):
\* whoever has connected finds every migration that it expects.  Only the last one is
\* compared, so a custom migration that was added below it is not missed.
ConnectedIsUpToDate == result = "ok" => Range(Expected) \subseteq Range(applied)
=============================================================================
