------------------------- MODULE FileSystemPromises -------------------------
(***************************************************************************)
(* What the documentation, the comments and the tests of the data sources  *)
(* say of them, as properties of the file system data source.  Each is     *)
(* stated as it is written; the README tells under which conditions the    *)
(* code departs from it.                                                   *)
(***************************************************************************)
EXTENDS MCFileSystem

\* "If this method fails, outstanding changes are left unmodified. The caller may
\* opt to retry or to erase outstanding changes with revert" (update.rs, commit):
\* after a revert, only what is recorded can be seen, whether a commit failed
\* before it or not.
FailedCommitCanBeReverted ==
  [][ Revert => Visible(ds') \subseteq Recorded' \cup ({"leaf", "block"} \X {0}) ]_vars

\* "assert_eq!(block.height(), i as u64)" (data_source.rs, validate): the block
\* read at a height is the block of that height.
BlocksAreAtTheirHeight ==
  \A h \in Heights : GetBlock(ds, h) \in Nat => GetBlock(ds, h) = h
=============================================================================
