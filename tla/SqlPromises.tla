------------------------------ MODULE SqlPromises ------------------------------
(***************************************************************************)
(* What comments, tests and documentation say of the SQL data source and   *)
(* its behaviour contradicts.                                              *)
(***************************************************************************)
EXTENDS MCSql

\* A subscription while nothing is uncommitted.
OfCommitted(sub) == sub.seen = sub.kept

\* A commit that returns without an error has committed all outstanding changes
\* (the documentation of `commit`, update.rs:105), so what it announces to the
\* subscribers of leaves is in the database.  The COMMIT of an aborted transaction
\* rolls back without failing, and the leaves inserted before the failure are
\* announced.
StreamedIsCommitted ==
  \A sub \in asked : sub.stream = "leaves" /\ OfCommitted(sub) => Range(Received(ds, sub)) \subseteq db.leaf

\* A stream of leaves or blocks starts at the height that was asked for
\* (availability.toml:59 and 116).  The rows that there are do; what is announced
\* afterwards is given to every subscriber, so that one who asks for a height above
\* the block height is first given the objects below it.
StreamsStartAtHeight ==
  \A sub \in asked : OfCommitted(sub) => \A h \in Range(Received(ds, sub)) \ {Missing} : h >= sub.from
=============================================================================
