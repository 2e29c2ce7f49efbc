------------------------ MODULE FileSystemDataSource ------------------------
(***************************************************************************)
(* The behaviour of the file system data source (FileSystemOps): updated   *)
(* by decide events (data_source/update.rs), committed and reverted by its *)
(* owner, and reopened from the version its AtomicStore recorded.          *)
(***************************************************************************)
EXTENDS FileSystemOps

CONSTANTS
  MaxPending,      \* bound: updates leave at most so many leaves uncommitted
  MaxRevert,       \* bound: most entries of a log that a revert ever drops
  MaxProposals,    \* bound: most proposals indexed for one proposer
  OutOfOrder,      \* whether decide events may overlap, repeat or leave gaps
  OwnStore,        \* whether top_storage is there (create, open) or its
                   \* owner synchronises (create_with_store, open_with_store)
  CommitFailures,  \* at which steps a commit may fail: "blocks", "top"
  WriteFailures,   \* whether an update may fail at one of its writes
  LoadFailures     \* sets of heights whose entries may fail to load

ASSUME FailuresAssumption ==
  /\ CommitFailures \subseteq {"blocks", "top"}
  /\ {OutOfOrder, OwnStore, WriteFailures} \subseteq BOOLEAN

ASSUME BoundsAssumption == {MaxPending, MaxRevert, MaxProposals} \subseteq Nat

VARIABLES
  ds,      \* the data source
  durable  \* the numbers of entries in the version the AtomicStore recorded

vars == << ds, durable >>

-----------------------------------------------------------------------------
(* Behaviour *)

Init ==
  /\ ds = InsertGenesis(EmptyDataSource)
  /\ durable = [ leaves |-> 0, blocks |-> 0 ]

\* The events the data source may be updated with.
MayHappen(e) ==
  /\ OutOfOrder \/ e.first = NextPos(ds.leaf_storage)
  /\ e.last + 1 - Len(ds.leaf_storage.store) <= MaxPending
  /\ \A p \in Proposers : CountProposals(ds, p) + MaxChain <= MaxProposals

Update(e) ==
  /\ MayHappen(e)
  /\ ds' = UpdateFrom(ds, e)
  /\ UNCHANGED durable

UpdateFails(e) ==
  /\ WriteFailures
  /\ MayHappen(e)
  /\ ds' \in FailedUpdates(ds, e)
  /\ UNCHANGED durable

\* `commit`: the leaves, the blocks, then the version of both.
Commit ==
  /\ ds' = CommitBlocks(CommitLeaves(ds))
  /\ durable' = IF OwnStore THEN Lengths(ds') ELSE durable

\* Mutant: the blocks are committed before the leaves.
CommitFailsBlocksFirst(step) ==
  /\ step = "top" => OwnStore
  /\ ds' = IF step = "blocks" THEN CommitBlocks(ds) ELSE CommitBlocks(CommitLeaves(ds))
  /\ UNCHANGED durable

\* A `commit` that fails at its second or its third step.
CommitFails(step) ==
  /\ step = "top" => OwnStore
  /\ ds' = IF step = "blocks" THEN CommitLeaves(ds) ELSE CommitBlocks(CommitLeaves(ds))
  /\ UNCHANGED durable

\* `revert`: the two logs.
Revert ==
  /\ ds.leaf_storage.pending_inserts <= MaxRevert
  /\ ds.block_storage.pending_inserts <= MaxRevert
  /\ ds' = [ ds EXCEPT !.leaf_storage = RevertVersion(@), !.block_storage = RevertVersion(@) ]
  /\ UNCHANGED durable

\* `skip_version`, for when there are no outstanding changes.
SkipVersion ==
  /\ Uncommitted(ds.leaf_storage) = 0 /\ Uncommitted(ds.block_storage) = 0
  /\ durable' = IF OwnStore THEN Lengths(ds) ELSE durable
  /\ UNCHANGED ds

\* An owner that manages the AtomicStore itself records the committed version.
OwnerSynchronises ==
  /\ ~ OwnStore
  /\ durable' = Lengths(ds)
  /\ UNCHANGED ds

\* The process stops, at any point, and opens the data source again; some of
\* the entries may not be readable.
Reopen(unreadable) ==
  /\ ds' = OpenDataSource(Loaded(ds.leaf_storage, durable.leaves, unreadable),
                          Loaded(ds.block_storage, durable.blocks, unreadable))
  /\ UNCHANGED durable

Next ==
  \/ \E e \in Event : Update(e) \/ UpdateFails(e)
  \/ Commit
  \/ \E step \in CommitFailures : CommitFails(step)
  \/ Revert
  \/ SkipVersion
  \/ OwnerSynchronises
  \/ \E unreadable \in LoadFailures : Reopen(unreadable)

Spec == Init /\ [][Next]_vars
-----------------------------------------------------------------------------
(* Properties *)

TypeOK ==
  /\ ds \in DataSource
  /\ durable \in [ leaves : Nat, blocks : Nat ]

\* The QC that `update` inserts with a leaf references that leaf: the pairing of
\* two reversed, shifted iterators, on which the `expect`s of update.rs rely.
UpdateNeverPanics ==
  \A e \in Event : MayHappen(e) =>
    /\ \A i \in DOMAIN UpdatePairs(e) : Consistent(UpdatePairs(e)[i].leaf, UpdatePairs(e)[i].qc)
    /\ [ i \in DOMAIN UpdatePairs(e) |-> UpdatePairs(e)[i].leaf ] =
         [ i \in 1 .. e.last - e.first + 1 |-> e.first + i - 1 ]

\* No query ever answers with the wrong object, whatever was reverted, failed to
\* be written or to load since the indices were filled: what is found under a
\* hash has that hash, a found transaction is in the block at the index given,
\* and the proposals of a proposer are its own.  The genesis objects, which no event
\* brings, are always found, even after a crash before anything was recorded.
AnswersAreRight ==
  /\ \A h \in Heights : /\ GetLeaf(ds, h) \in {h, NotFound, Missing}
                         /\ GetBlock(ds, h) \in {h, NotFound, Missing}
                         /\ GetLeafByHash(ds, h) \in {h, NotFound, Missing}
  /\ GetLeaf(ds, 0) = 0 /\ GetBlock(ds, 0) = 0
  /\ \A x \in Hashes : GetBlockByHash(ds, x) \in Nat => BlockHash[GetBlockByHash(ds, x)] = x
  /\ \A t \in Transactions : LET found == GetBlockWithTransaction(ds, t) IN
       found \in Seq(Nat) => Payload[found[1]][found[2]] = t
  /\ \A p \in Proposers : LET found == GetProposals(ds, p, MaxProposals) IN
       found \in Seq(Nat) => \A i \in DOMAIN found : Proposer[found[i]] = p

\* Whatever can be read by its height is in every index, and an index names no
\* later position than the first one that can be read.
IndicesCoverLogs ==
  /\ \A h \in Heights : Available(ds.leaf_storage, h) =>
       /\ h \in ds.index_by_leaf_hash
       /\ ds.index_by_block_hash[BlockHash[h]] \in { << g >> : g \in 0 .. h }
       /\ h \in Range(ds.index_by_proposer_id[Proposer[h]])
  /\ \A h \in Heights : Available(ds.block_storage, h) =>
       \A i \in DOMAIN Payload[h] : LET place == ds.index_by_txn_hash[Payload[h][i]] IN
         place # None /\ ~ PlaceBefore(<< h, i >>, place)

\* There is never a block beyond the last leaf, in memory or on storage: not
\* after a failed update, a failed commit, a revert or a restart.
BlocksHaveLeaves ==
  /\ NextPos(ds.block_storage) <= NextPos(ds.leaf_storage)
  /\ durable.blocks <= durable.leaves

\* An object of the recorded version stays readable, a leaf by its hash too,
\* across updates, failures, reverts and restarts.
DurableStaysReadable ==
  [][ /\ \A h \in 0 .. durable.leaves - 1 :
           ds.leaf_storage.store[h + 1] = h /\ h \notin UNION LoadFailures
           => GetLeaf(ds', h) = h /\ GetLeafByHash(ds', h) = h
      /\ \A h \in 0 .. durable.blocks - 1 :
           ds.block_storage.store[h + 1] = h /\ h \notin UNION LoadFailures
           => GetBlock(ds', h) = h ]_vars

\* A range query yields what the point queries of its positions answer, in
\* order, up to the end of the range or of the log (as long as every uncommitted
\* entry is cached), wherever the iterator passes from the store to the cache.
RangesMatchGets ==
  \A start, end \in Bound :
    LET inside(log) == { n \in 0 .. IterLen(log) - 1 :
                           /\ start.kind = "included" => n >= start.n
                           /\ start.kind = "excluded" => n > start.n
                           /\ ~ ReachedEnd(end, n) }
        gets(log) == [ i \in 1 .. Cardinality(inside(log)) |-> Nth(log, Min(inside(log)) + i - 1) ]
        cached(log) == log.pending_inserts <= CacheSize
    IN  /\ cached(ds.leaf_storage)  => GetLeafRange(ds, start, end)  = gets(ds.leaf_storage)
        /\ cached(ds.block_storage) => GetBlockRange(ds, start, end) = gets(ds.block_storage)

\* The data source is a versioned data source: the objects it shows and those of
\* the recorded version behave as the trait promises.
Recorded ==
  { << "leaf", h >>  : h \in { n \in 0 .. durable.leaves - 1 : ds.leaf_storage.store[n + 1] = n } } \cup
  { << "block", h >> : h \in { n \in 0 .. durable.blocks - 1 : ds.block_storage.store[n + 1] = n } }

Versions == INSTANCE VersionedStore WITH
  Objects <- {"leaf", "block"} \X Heights,
  Base    <- {"leaf", "block"} \X {0},
  current <- Visible(ds),
  saved   <- Recorded

ImplementsVersionedStore == Versions!Spec
=============================================================================
