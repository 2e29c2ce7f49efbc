---------------------------- MODULE VersionedStore ----------------------------
(***************************************************************************)
(* What the VersionedDataSource trait (data_source/update.rs) promises,    *)
(* for any set of objects: changes are visible at once, a commit saves all *)
(* of them, a revert erases all that are not saved, and a restart does     *)
(* too.  A failed commit does nothing.  `Base` is what is always there:    *)
(* the genesis objects, which HotShot does not announce.                   *)
(***************************************************************************)
CONSTANTS Objects, Base

VARIABLES
  current,  \* the objects that can be read
  saved     \* the objects in the version on storage

vsVars == << current, saved >>

Init == current = Base /\ saved = {}

Modify ==
  /\ current' \in SUBSET Objects
  /\ current \subseteq current'
  /\ UNCHANGED saved

Commit == saved' = current /\ UNCHANGED current

Revert  == current' = saved \cup Base /\ UNCHANGED saved
Restart == current' = saved \cup Base /\ UNCHANGED saved

Next == Modify \/ Commit \/ Revert \/ Restart

Spec == Init /\ [][Next]_vsVars
=============================================================================
