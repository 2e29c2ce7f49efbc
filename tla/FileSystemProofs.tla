--------------------------- MODULE FileSystemProofs ---------------------------
(***************************************************************************)
(* Machine-checked proofs about FileSystemDataSource, for every ledger,    *)
(* every size of the caches and every choice of failures.                  *)
(***************************************************************************)
EXTENDS FileSystemDataSource, FileSystemLemmas, FiniteSetTheorems

-----------------------------------------------------------------------------
(* The inductive invariant *)

FileInv == SourceInv(ds) /\ HasGenesis(ds) /\ RecordedIn(ds, durable)

LEMMA FileInit == Init => FileInv /\ GenesisStored(ds)
<1> SUFFICES ASSUME Init PROVE FileInv /\ GenesisStored(ds)
  OBVIOUS
<1>1. SourceInv(ds) /\ HasGenesis(ds) /\ GenesisStored(ds)
  BY EmptySourceInv, GenesisInserted DEF Init, GenesisOnly
<1>2. RecordedIn(ds, durable)
  BY <1>1, LengthsAre DEF Init, RecordedIn, SourceInv
<1>3. QED BY <1>1, <1>2 DEF FileInv

\* A restart, and every other step, keeps the invariant.
LEMMA ReopenKeeps ==
  ASSUME FileInv, NEW bad, Reopen(bad)
  PROVE  /\ FileInv'
         /\ \/ durable.leaves = 0 /\ durable.blocks = 0 /\ GenesisStored(ds')
            \/ /\ durable.leaves >= 1 /\ durable.blocks >= 1
               /\ ds'.leaf_storage.store = Loaded(ds.leaf_storage, durable.leaves, bad)
               /\ ds'.block_storage.store = Loaded(ds.block_storage, durable.blocks, bad)
<1>1. /\ SourceInv(ds) /\ RecordedIn(ds, durable) /\ durable' = durable
      /\ ds' = OpenDataSource(Loaded(ds.leaf_storage, durable.leaves, bad),
                              Loaded(ds.block_storage, durable.blocks, bad))
  BY DEF FileInv, Reopen
<1> DEFINE Opened(n) ==
      /\ SourceInv(n) /\ HasGenesis(n) /\ RecordedIn(n, durable)
      /\ \/ durable.leaves = 0 /\ durable.blocks = 0 /\ GenesisStored(n)
         \/ /\ durable.leaves >= 1 /\ durable.blocks >= 1
            /\ n.leaf_storage.store = Loaded(ds.leaf_storage, durable.leaves, bad)
            /\ n.block_storage.store = Loaded(ds.block_storage, durable.blocks, bad)
<1>2. Opened(ds')
  BY <1>1, OpenedFromRecord DEF GenesisOnly
<1>3. FileInv'
  BY <1>1, <1>2 DEF FileInv, SourceInv, HasGenesis, RecordedIn
<1>4. QED BY <1>2, <1>3

LEMMA GrowsKeeps ==
  ASSUME FileInv, SourceInv(ds'), StoresGrow(ds, ds'), durable' \in {durable, Lengths(ds')}
  PROVE  FileInv'
<1>1. HasGenesis(ds') /\ RecordedIn(ds', durable')
  BY GrownRecord DEF FileInv
<1>2. QED BY <1>1 DEF FileInv, SourceInv, HasGenesis, RecordedIn

LEMMA StepIs ==
  ASSUME MaxRevert \in 0 .. CacheSize, FileInv, [Next]_vars
  PROVE  \/ SourceInv(ds') /\ StoresGrow(ds, ds') /\ durable' \in {durable, Lengths(ds')}
         \/ \E bad \in LoadFailures : Reopen(bad)
<1>1. SourceInv(ds) /\ LogsInv(ds)
  BY DEF FileInv, SourceInv
<1>2. ASSUME SourceInv(ds'), SameStores(ds, ds') PROVE StoresGrow(ds, ds')
  BY <1>1, <1>2, ExtendsItself
<1>3. ASSUME NEW e \in Event, Update(e) PROVE SourceInv(ds') /\ StoresGrow(ds, ds') /\ durable' = durable
  <2>1. SourceInv(ds') /\ SameStores(ds, ds')
    BY <1>1, <1>3, UpdateKeeps DEF Update
  <2>2. QED BY <1>2, <1>3, <2>1 DEF Update
<1>4. ASSUME NEW e \in Event, UpdateFails(e) PROVE SourceInv(ds') /\ StoresGrow(ds, ds') /\ durable' = durable
  <2>1. SourceInv(ds') /\ SameStores(ds, ds')
    BY <1>1, <1>4, UpdateFailsKeeps DEF UpdateFails
  <2>2. QED BY <1>2, <1>4, <2>1 DEF UpdateFails
<1>5. ASSUME Commit PROVE SourceInv(ds') /\ StoresGrow(ds, ds') /\ durable' \in {durable, Lengths(ds')}
  BY <1>1, <1>5, CommitKeeps DEF Commit
<1>6. ASSUME NEW step, CommitFails(step) PROVE SourceInv(ds') /\ StoresGrow(ds, ds') /\ durable' = durable
  <2>1. ds' = CommitLeaves(ds) \/ ds' = CommitBlocks(CommitLeaves(ds))
    BY <1>6 DEF CommitFails
  <2>2. SourceInv(ds') /\ StoresGrow(ds, ds')
    BY <1>1, <2>1, CommitKeeps
  <2>3. QED BY <1>6, <2>2 DEF CommitFails
<1>7. ASSUME Revert PROVE SourceInv(ds') /\ StoresGrow(ds, ds') /\ durable' = durable
  <2>1. ds.leaf_storage.pending_inserts \in Nat /\ ds.block_storage.pending_inserts \in Nat /\ CacheSize \in Nat
    BY <1>1, LogParts DEF LogsInv
  <2>2. ds.leaf_storage.pending_inserts <= CacheSize /\ ds.block_storage.pending_inserts <= CacheSize
    BY <1>7, <2>1 DEF Revert
  <2>3. ds' = RevertBoth(ds)
    BY <1>7 DEF Revert, RevertBoth
  <2>4. SourceInv(ds') /\ SameStores(ds, ds')
    BY <1>1, <2>2, <2>3, RevertKeeps
  <2>5. QED BY <1>2, <1>7, <2>4 DEF Revert
<1>8. ASSUME ds' = ds PROVE SourceInv(ds') /\ StoresGrow(ds, ds')
  <2>1. SameStores(ds, ds') /\ SourceInv(ds')
    BY <1>1, <1>8 DEF SameStores
  <2>2. QED BY <1>2, <2>1
<1>9. ASSUME SkipVersion \/ OwnerSynchronises \/ UNCHANGED vars
      PROVE  SourceInv(ds') /\ StoresGrow(ds, ds') /\ durable' \in {durable, Lengths(ds')}
  <2>1. ds' = ds /\ durable' \in {durable, Lengths(ds')}
    BY <1>9 DEF SkipVersion, OwnerSynchronises, vars
  <2>2. QED BY <1>8, <2>1
<1>10. QED BY <1>3, <1>4, <1>5, <1>6, <1>7, <1>9 DEF Next

LEMMA FileStep ==
  ASSUME MaxRevert \in 0 .. CacheSize, FileInv, [Next]_vars
  PROVE  FileInv'
BY StepIs, GrowsKeeps, ReopenKeeps

\* The invariant, for every ledger and every choice of failures, as long as no revert
\* drops more than the cache holds (which the code would panic on).
THEOREM FileInvariance ==
  ASSUME MaxRevert \in 0 .. CacheSize
  PROVE  Spec => []FileInv
<1>1. Init => FileInv
  BY FileInit
<1>2. FileInv /\ [Next]_vars => FileInv'
  BY FileStep
<1>3. QED BY <1>1, <1>2, PTL DEF Spec

\* The data source and what is recorded have their types.
THEOREM TypeCorrect ==
  ASSUME MaxRevert \in 0 .. CacheSize
  PROVE  Spec => []TypeOK
<1>1. FileInv => TypeOK
  BY DEF FileInv, SourceInv, RecordedIn, TypeOK
<1>2. QED BY <1>1, FileInvariance, PTL

\* There is never a block beyond the last leaf, in memory or on storage: `insert_leaf`
\* before `insert_block`, `commit_version` of the leaves before that of the blocks, and
\* no failure between them lets the block log get ahead.
THEOREM BlocksNeverAhead ==
  ASSUME MaxRevert \in 0 .. CacheSize
  PROVE  Spec => []BlocksHaveLeaves
<1>1. FileInv => BlocksHaveLeaves
  BY DEF FileInv, SourceInv, LogsInv, RecordedIn, BlocksHaveLeaves
<1>2. QED BY <1>1, FileInvariance, PTL

\* The QC that `update` pairs with a leaf references it: its `expect`s never fail, for
\* any event of any ledger.
THEOREM PairsConsistent == Spec => []UpdateNeverPanics
<1>1. UpdateNeverPanics
  <2>1. SUFFICES ASSUME NEW e \in Event
                 PROVE  /\ \A i \in DOMAIN UpdatePairs(e) : Consistent(UpdatePairs(e)[i].leaf, UpdatePairs(e)[i].qc)
                        /\ [ i \in DOMAIN UpdatePairs(e) |-> UpdatePairs(e)[i].leaf ] =
                             [ i \in 1 .. e.last - e.first + 1 |-> e.first + i - 1 ]
    BY DEF UpdateNeverPanics
  <2> DEFINE m == e.last - e.first + 1
             pairs == UpdatePairs(e)
  <2>2. pairs = [ i \in 1 .. m |-> [ leaf |-> e.first + i - 1, qc |-> e.first + i - 1 ] ]
    BY PairsAre
  <2> HIDE DEF pairs, m
  <2>3. DOMAIN pairs = 1 .. m /\ \A i \in 1 .. m : pairs[i].leaf = e.first + i - 1 /\ pairs[i].qc = pairs[i].leaf
    BY <2>2
  <2>4. QED BY <2>3 DEF Consistent, pairs, m
<1>2. QED BY <1>1, PTL

-----------------------------------------------------------------------------
(* Queries *)

\* Whatever can be read is in every index: a consequence of the invariant, which says it
\* of everything the logs hold.
THEOREM LogsAreIndexed ==
  ASSUME MaxRevert \in 0 .. CacheSize
  PROVE  Spec => []IndicesCoverLogs
<1>1. FileInv => IndicesCoverLogs
  <2> SUFFICES ASSUME FileInv PROVE IndicesCoverLogs
    OBVIOUS
  <2>1. /\ LogInv(ds.leaf_storage) /\ LogInv(ds.block_storage) /\ HeldIndexed(ds)
        /\ ds.index_by_proposer_id \in ProposerIndex
    BY DEF FileInv, SourceInv, LogsInv, DataSource, ProposerIndex
  <2>2. ASSUME NEW h \in Heights, Available(ds.leaf_storage, h)
        PROVE  /\ h \in ds.index_by_leaf_hash
               /\ ds.index_by_block_hash[BlockHash[h]] \in { << g >> : g \in 0 .. h }
               /\ h \in Range(ds.index_by_proposer_id[Proposer[h]])
    <3>1. h \in Held(ds.leaf_storage) /\ h # None
      BY <2>1, <2>2, AvailableHeld, HeightsAreNatural, NoneAssumption
    <3>2. LeafIndexed(ds, h)
      BY <2>1, <3>1 DEF HeldIndexed
    <3> DEFINE ids == ds.index_by_proposer_id[Proposer[h]]
    <3>3. ids \in Seq(Heights)
      BY <2>1 DEF ProposerIndex, Proposers
    <3>4. h \in Entries(ids)
      BY <3>2 DEF LeafIndexed
    <3> HIDE DEF ids
    <3>5. DOMAIN ids = 1 .. Len(ids)
      BY <3>3, LenProperties
    <3>6. h \in Range(ids)
      BY <3>4, <3>5 DEF Entries, Range
    <3>7. QED BY <3>2, <3>6 DEF LeafIndexed, HashCovered, ids
  <2>3. ASSUME NEW h \in Heights, Available(ds.block_storage, h), NEW i \in DOMAIN Payload[h]
        PROVE  ds.index_by_txn_hash[Payload[h][i]] # None /\ ~ PlaceBefore(<< h, i >>, ds.index_by_txn_hash[Payload[h][i]])
    <3>1. h \in Held(ds.block_storage) /\ h # None
      BY <2>1, <2>3, AvailableHeld, HeightsAreNatural, NoneAssumption
    <3>2. QED BY <2>1, <3>1 DEF HeldIndexed, BlockIndexed, TransactionCovered
  <2>4. QED BY <2>2, <2>3 DEF IndicesCoverLogs
<1>2. QED BY <1>1, FileInvariance, PTL

\* The genesis entries stay in both stores, unless they cannot be loaded.
THEOREM GenesisStays ==
  ASSUME MaxRevert \in 0 .. CacheSize, \A bad \in LoadFailures : 0 \notin bad
  PROVE  Spec => [](FileInv /\ GenesisStored(ds))
<1>1. Init => FileInv /\ GenesisStored(ds)
  BY FileInit
<1>2. ASSUME FileInv, GenesisStored(ds), [Next]_vars PROVE FileInv' /\ GenesisStored(ds)'
  <2>1. FileInv'
    BY <1>2, FileStep
  <2>2. CASE StoresGrow(ds, ds')
    <3>1. /\ Len(ds.leaf_storage.store) \in Nat /\ Len(ds.leaf_storage.store) >= 1
          /\ Len(ds.block_storage.store) \in Nat /\ Len(ds.block_storage.store) >= 1
      BY <1>2, LengthsAre DEF FileInv, SourceInv, HasGenesis
    <3>2. 1 \in 1 .. Len(ds.leaf_storage.store) /\ 1 \in 1 .. Len(ds.block_storage.store)
      BY <3>1
    <3>3. QED BY <1>2, <2>1, <2>2, <3>2 DEF StoresGrow, Extends, GenesisStored
  <2>3. CASE \E bad \in LoadFailures : Reopen(bad)
    <3>1. PICK bad \in LoadFailures : Reopen(bad)
      BY <2>3
    <3>2. CASE GenesisStored(ds')
      BY <2>1, <3>2 DEF GenesisStored
    <3>3. CASE /\ durable.leaves >= 1 /\ durable.blocks >= 1
               /\ ds'.leaf_storage.store = Loaded(ds.leaf_storage, durable.leaves, bad)
               /\ ds'.block_storage.store = Loaded(ds.block_storage, durable.blocks, bad)
      <4>1. durable.leaves \in Nat /\ durable.blocks \in Nat /\ 1 - 1 = 0 /\ 0 \notin bad
        BY <1>2, <3>1 DEF FileInv, RecordedIn
      <4>2. 1 \in 1 .. durable.leaves /\ 1 \in 1 .. durable.blocks
        BY <3>3, <4>1
      <4>3. /\ Loaded(ds.leaf_storage, durable.leaves, bad)[1] = ds.leaf_storage.store[1]
            /\ Loaded(ds.block_storage, durable.blocks, bad)[1] = ds.block_storage.store[1]
        BY <4>1, <4>2 DEF Loaded
      <4>4. QED BY <1>2, <2>1, <3>3, <4>3 DEF GenesisStored
    <3>4. QED BY <1>2, <3>1, <3>2, <3>3, ReopenKeeps
  <2>4. QED BY <1>2, <2>2, <2>3, StepIs
<1>3. QED BY <1>1, <1>2, PTL DEF Spec

\* No query answers with the wrong object, whatever was reverted, failed to be written or
\* to load since the indices were filled: the position found in an index is checked by the
\* object read there, or it is an error.
THEOREM AnswersCorrect ==
  ASSUME MaxRevert \in 0 .. CacheSize, \A bad \in LoadFailures : 0 \notin bad
  PROVE  Spec => []AnswersAreRight
<1>1. ASSUME FileInv, GenesisStored(ds) PROVE AnswersAreRight
  <2>1. SourceInv(ds) /\ LogInv(ds.leaf_storage) /\ LogInv(ds.block_storage)
    BY <1>1 DEF FileInv, SourceInv, LogsInv
  <2>2. ASSUME NEW h \in Heights
        PROVE  /\ GetLeaf(ds, h) \in {h, NotFound, Missing}
               /\ GetBlock(ds, h) \in {h, NotFound, Missing}
               /\ GetLeafByHash(ds, h) \in {h, NotFound, Missing}
    BY <2>1, NthInPlace, HeightsAreNatural DEF GetLeaf, GetBlock, GetLeafByHash
  <2>3. GetLeaf(ds, 0) = 0 /\ GetBlock(ds, 0) = 0
    <3>1. 0 < Len(ds.leaf_storage.store) /\ 0 < Len(ds.block_storage.store) /\ 0 + 1 = 1
      BY <1>1, LengthsAre DEF FileInv, SourceInv, HasGenesis
    <3>2. QED BY <1>1, <2>1, <3>1, NthInPlace DEF GetLeaf, GetBlock, GenesisStored
  <2>4. \A x \in Hashes : GetBlockByHash(ds, x) \in Nat => BlockHash[GetBlockByHash(ds, x)] = x
    BY <2>1, BlockByHashRight
  <2>5. \A t \in Transactions : GetBlockWithTransaction(ds, t) \in Seq(Nat) =>
          Payload[GetBlockWithTransaction(ds, t)[1]][GetBlockWithTransaction(ds, t)[2]] = t
    BY <2>1, TransactionRight
  <2>6. \A p \in Proposers : GetProposals(ds, p, MaxProposals) \in Seq(Nat) =>
          \A i \in DOMAIN GetProposals(ds, p, MaxProposals) : Proposer[GetProposals(ds, p, MaxProposals)[i]] = p
    BY <2>1, BoundsAssumption, ProposalsRight
  <2>7. QED BY <2>2, <2>3, <2>4, <2>5, <2>6 DEF AnswersAreRight
<1>2. QED BY <1>1, GenesisStays, PTL

\* An object of the recorded version stays readable, a leaf by its hash too, across every
\* update, failed write, failed commit and revert, and across restarts that can load it.
THEOREM DurableReadable ==
  ASSUME MaxRevert \in 0 .. CacheSize
  PROVE  Spec => DurableStaysReadable
<1> DEFINE Kept(h) == h < durable.leaves /\ ds.leaf_storage.store[h + 1] = h /\ h \notin UNION LoadFailures
           BlockKept(h) == h < durable.blocks /\ ds.block_storage.store[h + 1] = h /\ h \notin UNION LoadFailures
<1>1. ASSUME FileInv, [Next]_vars, NEW h \in Nat
      PROVE  /\ Kept(h) => h < Len(ds'.leaf_storage.store) /\ ds'.leaf_storage.store[h + 1] = h
             /\ BlockKept(h) => h < Len(ds'.block_storage.store) /\ ds'.block_storage.store[h + 1] = h
  <2>1. /\ durable.leaves \in Nat /\ durable.blocks \in Nat
        /\ durable.leaves <= Len(ds.leaf_storage.store) /\ durable.blocks <= Len(ds.block_storage.store)
        /\ Len(ds.leaf_storage.store) \in Nat /\ Len(ds.block_storage.store) \in Nat
        /\ LogInv(ds.leaf_storage) /\ LogInv(ds.block_storage)
    BY <1>1, LengthsAre DEF FileInv, SourceInv, LogsInv, RecordedIn
  <2>2. /\ h < durable.leaves => h + 1 \in 1 .. durable.leaves /\ h + 1 \in 1 .. Len(ds.leaf_storage.store)
        /\ h < durable.blocks => h + 1 \in 1 .. durable.blocks /\ h + 1 \in 1 .. Len(ds.block_storage.store)
    BY <2>1
  <2>3. FileInv'
    BY <1>1, FileStep
  <2>4. Len(ds'.leaf_storage.store) \in Nat /\ Len(ds'.block_storage.store) \in Nat
    BY <2>3, LengthsAre DEF FileInv, SourceInv
  <2>5. CASE StoresGrow(ds, ds')
    <3>1. /\ h < durable.leaves => ds'.leaf_storage.store[h + 1] = ds.leaf_storage.store[h + 1]
          /\ h < durable.blocks => ds'.block_storage.store[h + 1] = ds.block_storage.store[h + 1]
      BY <2>2, <2>5 DEF StoresGrow, Extends
    <3>2. /\ h < durable.leaves => h < Len(ds'.leaf_storage.store)
          /\ h < durable.blocks => h < Len(ds'.block_storage.store)
      <4> DEFINE sl == Len(ds.leaf_storage.store)
                 sb == Len(ds.block_storage.store)
                 tl == Len(ds'.leaf_storage.store)
                 tb == Len(ds'.block_storage.store)
      <4>1. sl \in Nat /\ sb \in Nat /\ tl \in Nat /\ tb \in Nat /\ sl <= tl /\ sb <= tb
        BY <2>1, <2>4, <2>5 DEF StoresGrow, Extends
      <4>2. durable.leaves \in Nat /\ durable.blocks \in Nat /\ durable.leaves <= sl /\ durable.blocks <= sb
        BY <2>1
      <4> HIDE DEF sl, sb, tl, tb
      <4>3. (h < durable.leaves => h < tl) /\ (h < durable.blocks => h < tb)
        BY <4>1, <4>2
      <4>4. QED BY <4>3 DEF sl, sb, tl, tb
    <3>3. QED BY <3>1, <3>2
  <2>6. CASE \E bad \in LoadFailures : Reopen(bad)
    <3>1. PICK bad \in LoadFailures : Reopen(bad)
      BY <2>6
    <3>2. CASE durable.leaves = 0 /\ durable.blocks = 0
      BY <3>2
    <3>3. CASE /\ ds'.leaf_storage.store = Loaded(ds.leaf_storage, durable.leaves, bad)
               /\ ds'.block_storage.store = Loaded(ds.block_storage, durable.blocks, bad)
      <4>1. /\ h < durable.leaves => Loaded(ds.leaf_storage, durable.leaves, bad)[h + 1] =
                                      IF h \in bad THEN None ELSE ds.leaf_storage.store[h + 1]
            /\ h < durable.blocks => Loaded(ds.block_storage, durable.blocks, bad)[h + 1] =
                                      IF h \in bad THEN None ELSE ds.block_storage.store[h + 1]
        BY <2>2 DEF Loaded
      <4>2. durable.leaves <= Len(ds'.leaf_storage.store) /\ durable.blocks <= Len(ds'.block_storage.store)
        <5>1. durable' = durable
          BY <3>1 DEF Reopen
        <5>2. QED BY <2>3, <5>1 DEF FileInv, RecordedIn
      <4>3. h \notin UNION LoadFailures => h \notin bad
        BY <3>1
      <4>4. /\ h < durable.leaves => h < Len(ds'.leaf_storage.store)
            /\ h < durable.blocks => h < Len(ds'.block_storage.store)
        BY <2>1, <2>4, <4>2
      <4>5. QED BY <3>3, <4>1, <4>3, <4>4
    <3>4. QED BY <1>1, <3>1, <3>2, <3>3, ReopenKeeps
  <2>7. QED BY <1>1, <2>5, <2>6, StepIs
<1>2. ASSUME FileInv, [Next]_vars
      PROVE  /\ \A h \in 0 .. durable.leaves - 1 :
                  ds.leaf_storage.store[h + 1] = h /\ h \notin UNION LoadFailures
                  => GetLeaf(ds', h) = h /\ GetLeafByHash(ds', h) = h
             /\ \A h \in 0 .. durable.blocks - 1 :
                  ds.block_storage.store[h + 1] = h /\ h \notin UNION LoadFailures
                  => GetBlock(ds', h) = h
  <2>1. SourceInv(ds') /\ LogInv(ds'.leaf_storage) /\ LogInv(ds'.block_storage) /\ HeldIndexed(ds')
    BY <1>2, FileStep DEF FileInv, SourceInv, LogsInv
  <2>2. durable.leaves \in Nat /\ durable.blocks \in Nat
    BY <1>2 DEF FileInv, RecordedIn
  <2>3. ASSUME NEW h \in 0 .. durable.leaves - 1, ds.leaf_storage.store[h + 1] = h, h \notin UNION LoadFailures
        PROVE  GetLeaf(ds', h) = h /\ GetLeafByHash(ds', h) = h
    <3>1. h \in Nat /\ Kept(h)
      BY <2>2, <2>3
    <3>2. h < Len(ds'.leaf_storage.store) /\ ds'.leaf_storage.store[h + 1] = h
      BY <1>1, <1>2, <3>1
    <3>3. Available(ds'.leaf_storage, h)
      BY <2>1, <3>1, <3>2, StoredAvailable
    <3>4. h \in Held(ds'.leaf_storage) /\ h # None
      BY <2>1, <3>1, <3>3, AvailableHeld, NoneAssumption
    <3>5. h \in ds'.index_by_leaf_hash
      BY <2>1, <3>4 DEF HeldIndexed, LeafIndexed
    <3>6. Nth(ds'.leaf_storage, h) = h
      BY <2>1, <3>1, <3>2, NthInPlace
    <3>7. QED BY <3>5, <3>6 DEF GetLeaf, GetLeafByHash
  <2>4. ASSUME NEW h \in 0 .. durable.blocks - 1, ds.block_storage.store[h + 1] = h, h \notin UNION LoadFailures
        PROVE  GetBlock(ds', h) = h
    <3>1. h \in Nat /\ BlockKept(h)
      BY <2>2, <2>4
    <3>2. h < Len(ds'.block_storage.store) /\ ds'.block_storage.store[h + 1] = h
      BY <1>1, <1>2, <3>1
    <3>3. QED BY <2>1, <3>1, <3>2, NthInPlace DEF GetBlock
  <2>5. QED BY <2>3, <2>4
<1>3. QED BY <1>2, FileInvariance, PTL DEF Spec, DurableStaysReadable

-----------------------------------------------------------------------------
(***************************************************************************)
(* The data source as a versioned store, for the events of one node, an    *)
(* AtomicStore of its own and a storage that works: as FileSystemOrdered   *)
(* checks it.  A failed commit, or an owner that does not synchronise,     *)
(* leaves committed entries that are not recorded (FailedCommit); objects  *)
(* that come late are not undone by a revert; and of more than a cacheful  *)
(* of uncommitted entries some cannot be read.                             *)
(***************************************************************************)
StorageWorks ==
  /\ ~ OutOfOrder /\ OwnStore
  /\ CommitFailures = {} /\ ~ WriteFailures /\ LoadFailures \subseteq { {} }
  /\ MaxRevert \in 0 .. CacheSize /\ MaxPending <= CacheSize

\* What is recorded is what the stores hold, or nothing yet but the genesis objects are stored.
RecordAgrees ==
  \/ durable = Lengths(ds)
  \/ durable.leaves = 0 /\ durable.blocks = 0 /\ GenesisOnly(ds)

VersionInv == FileInv /\ GenesisStored(ds) /\ InOrder(ds) /\ RecordAgrees

GenesisObjects == {"leaf", "block"} \X {0}

LEMMA GenesisAre ==
  /\ GenesisObjects = { << "leaf", 0 >>, << "block", 0 >> }
  /\ \A d : SourceInv(d) /\ GenesisOnly(d) => StoredObjects(d) = GenesisObjects
  /\ \A d : SourceInv(d) /\ HasGenesis(d) /\ GenesisStored(d) => GenesisObjects \subseteq StoredObjects(d)
<1>1. GenesisObjects = { << "leaf", 0 >>, << "block", 0 >> }
  BY DEF GenesisObjects
<1>2. 0 \in Heights
  BY LedgerAssumption DEF Heights
<1>3. ASSUME NEW d, SourceInv(d), GenesisOnly(d) PROVE StoredObjects(d) = GenesisObjects
  <2>1. Entries(d.leaf_storage.store) = {0} /\ Entries(d.block_storage.store) = {0}
    BY <1>3 DEF GenesisOnly, GenesisStored, Entries
  <2>2. QED BY <1>1, <1>2, <2>1 DEF StoredObjects
<1>4. ASSUME NEW d, SourceInv(d), HasGenesis(d), GenesisStored(d) PROVE GenesisObjects \subseteq StoredObjects(d)
  <2>1. 1 \in 1 .. Len(d.leaf_storage.store) /\ 1 \in 1 .. Len(d.block_storage.store)
    BY <1>4, LengthsAre DEF HasGenesis, SourceInv
  <2>2. 0 \in Entries(d.leaf_storage.store) /\ 0 \in Entries(d.block_storage.store)
    BY <1>4, <2>1 DEF GenesisStored, Entries
  <2>3. QED BY <1>1, <1>2, <2>2 DEF StoredObjects
<1>5. QED BY <1>1, <1>3, <1>4

\* What is shown and what is recorded, in a state of the invariant.
LEMMA VersionsAre ==
  ASSUME VersionInv
  PROVE  /\ Visible(ds) = WrittenObjects(ds)
         /\ Recorded \cup GenesisObjects = StoredObjects(ds)
         /\ durable = Lengths(ds) => Recorded = StoredObjects(ds)
         /\ durable.leaves = 0 /\ durable.blocks = 0 => Recorded = {}
<1>1. SourceInv(ds) /\ InOrder(ds) /\ HasGenesis(ds) /\ GenesisStored(ds)
  BY DEF VersionInv, FileInv
<1>2. Visible(ds) = WrittenObjects(ds)
  BY <1>1, VisibleIsWritten
<1>3. durable = Lengths(ds) => Recorded = StoredObjects(ds)
  BY <1>1, StoredAre DEF Recorded, Lengths
<1>4. durable.leaves = 0 /\ durable.blocks = 0 => Recorded = {}
  <2>1. 0 .. 0 - 1 = {}
    OBVIOUS
  <2>2. QED BY <2>1 DEF Recorded
<1>5. Recorded \cup GenesisObjects = StoredObjects(ds)
  BY <1>1, <1>3, <1>4, GenesisAre DEF VersionInv, RecordAgrees
<1>6. QED BY <1>2, <1>3, <1>4, <1>5

LEMMA StoredSame ==
  ASSUME NEW d, NEW n, SameStores(d, n)
  PROVE  /\ StoredObjects(n) = StoredObjects(d) /\ Lengths(n) = Lengths(d)
         /\ GenesisStored(n) <=> GenesisStored(d)
         /\ GenesisOnly(n) <=> GenesisOnly(d)
BY DEF SameStores, StoredObjects, Lengths, GenesisStored, GenesisOnly

LEMMA WrittenInHeights ==
  ASSUME NEW d
  PROVE  WrittenObjects(d) \in SUBSET ({"leaf", "block"} \X Heights)
BY DEF WrittenObjects

\* An update: what was shown still is, and what is recorded stays.
LEMMA UpdateVersion ==
  ASSUME StorageWorks, VersionInv, NEW e \in Event, Update(e)
  PROVE  VersionInv' /\ Visible(ds) \subseteq Visible(ds') /\ Recorded' = Recorded
<1>1. SourceInv(ds) /\ InOrder(ds) /\ GenesisStored(ds) /\ RecordAgrees /\ LogsInv(ds)
  BY DEF VersionInv, FileInv, SourceInv
<1>2. ds' = UpdateFrom(ds, e) /\ durable' = durable
  BY DEF Update
<1>3. e.first = NextPos(ds.leaf_storage) /\ e.last + 1 <= Len(ds.leaf_storage.store) + CacheSize
  <2> DEFINE s == Len(ds.leaf_storage.store)
  <2>1. e.first = NextPos(ds.leaf_storage) /\ e.last + 1 - s <= MaxPending
    BY DEF Update, MayHappen, StorageWorks
  <2>2. s \in Nat /\ e.last \in Nat /\ MaxPending \in Nat /\ CacheSize \in Nat /\ MaxPending <= CacheSize
    BY <1>1, LengthsAre, EventFacts, BoundsAssumption, CacheSizeAssumption DEF StorageWorks
  <2> HIDE DEF s
  <2>3. e.last + 1 <= s + CacheSize
    BY <2>1, <2>2
  <2>4. QED BY <2>1, <2>3 DEF s
<1> DEFINE y == UpdateFrom(ds, e)
<1>4. SourceInv(y) /\ InOrder(y) /\ SameStores(ds, y) /\ WritesMore(ds, y)
  BY <1>1, <1>3, UpdateStaysInOrder
<1> HIDE DEF y
<1>5. ds' = y
  BY <1>2 DEF y
<1>6. FileInv'
  <2>1. StoresGrow(ds, ds')
    BY <1>1, <1>4, <1>5, ExtendsItself
  <2>2. QED BY <1>2, <1>4, <1>5, <2>1, GrowsKeeps DEF VersionInv
<1>7. VersionInv'
  <2>1. (GenesisStored(ds))' /\ (InOrder(ds))'
    BY <1>1, <1>4, <1>5, StoredSame
  <2>2. RecordAgrees'
    BY <1>1, <1>2, <1>4, <1>5, StoredSame DEF RecordAgrees
  <2>3. QED BY <1>6, <2>1, <2>2 DEF VersionInv
<1>8. Visible(ds) = WrittenObjects(ds) /\ Visible(y) = WrittenObjects(y)
  BY <1>1, <1>4, VisibleIsWritten
<1>9. WrittenObjects(ds) \subseteq WrittenObjects(y)
  BY <1>4 DEF WritesMore, WrittenObjects
<1>10. Recorded' = Recorded
  BY <1>2, <1>4, <1>5 DEF SameStores, Recorded
<1>11. QED BY <1>5, <1>7, <1>8, <1>9, <1>10

\* After any other step there is nothing uncommitted.
LEMMA SettledVersion ==
  ASSUME VersionInv, FileInv', GenesisStored(ds'), BothSettled(ds'), RecordAgrees'
  PROVE  VersionInv' /\ Visible(ds') = StoredObjects(ds')
<1>1. SourceInv(ds')
  BY DEF FileInv
<1>2. InOrder(ds') /\ WrittenObjects(ds') = StoredObjects(ds')
  BY <1>1, SettledInOrder
<1>3. Visible(ds') = WrittenObjects(ds')
  BY <1>1, <1>2, VisibleIsWritten
<1>4. VersionInv'
  <2>1. (GenesisStored(ds))' /\ (InOrder(ds))'
    BY <1>2
  <2>2. QED BY <2>1 DEF VersionInv
<1>5. QED BY <1>2, <1>3, <1>4

LEMMA CommitVersioned ==
  ASSUME StorageWorks, VersionInv, Commit
  PROVE  VersionInv' /\ Visible(ds') = Visible(ds) /\ Recorded' = Visible(ds)
<1> DEFINE y == CommitBlocks(CommitLeaves(ds))
<1>1. SourceInv(ds) /\ InOrder(ds) /\ GenesisStored(ds) /\ HasGenesis(ds) /\ LogsInv(ds)
  BY DEF VersionInv, FileInv, SourceInv
<1>2. ds' = y /\ durable' = Lengths(ds')
  BY DEF Commit, StorageWorks
<1>3. SourceInv(y) /\ StoresGrow(ds, y)
  BY <1>1, CommitKeeps
<1>4. BothSettled(y) /\ StoredObjects(y) = WrittenObjects(ds)
  BY <1>1, CommitSettles DEF InOrder
<1> HIDE DEF y
<1>5. FileInv'
  BY <1>2, <1>3, GrowsKeeps DEF VersionInv
<1>6. GenesisStored(y)
  <2>1. 1 \in 1 .. Len(ds.leaf_storage.store) /\ 1 \in 1 .. Len(ds.block_storage.store)
    BY <1>1, LengthsAre DEF HasGenesis
  <2>2. QED BY <1>1, <1>3, <2>1 DEF StoresGrow, Extends, GenesisStored
<1>7. RecordAgrees'
  BY <1>2 DEF RecordAgrees
<1>8. VersionInv' /\ Visible(ds') = StoredObjects(ds')
  BY <1>2, <1>4, <1>5, <1>6, <1>7, SettledVersion
<1>9. Recorded' = StoredObjects(ds')
  BY <1>2, <1>3, StoredAre DEF Recorded, Lengths
<1>10. QED BY <1>2, <1>4, <1>8, <1>9, VersionsAre

LEMMA SkipVersioned ==
  ASSUME StorageWorks, VersionInv, SkipVersion
  PROVE  VersionInv' /\ Visible(ds') = Visible(ds) /\ Recorded' = Visible(ds)
<1>1. SourceInv(ds) /\ InOrder(ds) /\ GenesisStored(ds) /\ LogsInv(ds) /\ FileInv
  BY DEF VersionInv, FileInv, SourceInv
<1>2. ds' = ds /\ durable' = Lengths(ds')
  BY DEF SkipVersion, StorageWorks
<1>3. BothSettled(ds)
  <2>1. /\ ds.leaf_storage.appended \in Seq(Entry) /\ ds.block_storage.appended \in Seq(Entry)
        /\ Len(ds.leaf_storage.appended) = 0 /\ Len(ds.block_storage.appended) = 0
    BY <1>1, LogParts DEF SkipVersion, Uncommitted, LogsInv
  <2>2. ds.leaf_storage.appended = << >> /\ ds.block_storage.appended = << >>
    BY <2>1, EmptySeq
  <2>3. QED BY <1>1, <2>2 DEF BothSettled, Settled, InOrder, CachesAreWritten
<1>4. FileInv'
  <2>1. SourceInv(ds') /\ StoresGrow(ds, ds')
    BY <1>1, <1>2, ExtendsItself DEF SameStores
  <2>2. QED BY <1>1, <1>2, <2>1, GrowsKeeps
<1>5. RecordAgrees'
  BY <1>2 DEF RecordAgrees
<1>6. VersionInv' /\ Visible(ds') = StoredObjects(ds')
  BY <1>1, <1>2, <1>3, <1>4, <1>5, SettledVersion
<1>7. Recorded' = StoredObjects(ds')
  BY <1>1, <1>2, StoredAre DEF Recorded, Lengths
<1>8. QED BY <1>2, <1>6, <1>7

LEMMA RevertVersioned ==
  ASSUME StorageWorks, VersionInv, Revert
  PROVE  VersionInv' /\ Visible(ds') = Recorded \cup GenesisObjects /\ Recorded' = Recorded
<1> DEFINE y == RevertBoth(ds)
<1>1. SourceInv(ds) /\ InOrder(ds) /\ GenesisStored(ds) /\ LogsInv(ds) /\ RecordAgrees
  BY DEF VersionInv, FileInv, SourceInv
<1>2. ds' = y /\ durable' = durable
  BY DEF Revert, RevertBoth
<1>3. ds.leaf_storage.pending_inserts <= CacheSize /\ ds.block_storage.pending_inserts <= CacheSize
  <2>1. ds.leaf_storage.pending_inserts \in Nat /\ ds.block_storage.pending_inserts \in Nat /\ CacheSize \in Nat
    BY <1>1, LogParts DEF LogsInv
  <2>2. QED BY <2>1 DEF Revert, StorageWorks
<1>4. SourceInv(y) /\ SameStores(ds, y) /\ BothSettled(y)
  BY <1>1, <1>3, RevertKeeps, RevertSettles DEF InOrder
<1> HIDE DEF y
<1>5. FileInv'
  <2>1. StoresGrow(ds, ds')
    BY <1>1, <1>2, <1>4, ExtendsItself
  <2>2. QED BY <1>2, <1>4, <2>1, GrowsKeeps DEF VersionInv
<1>6. GenesisStored(ds') /\ RecordAgrees'
  BY <1>1, <1>2, <1>4, StoredSame DEF RecordAgrees
<1>7. VersionInv' /\ Visible(ds') = StoredObjects(ds')
  BY <1>2, <1>4, <1>5, <1>6, SettledVersion
<1>8. StoredObjects(ds') = Recorded \cup GenesisObjects
  BY <1>2, <1>4, StoredSame, VersionsAre
<1>9. Recorded' = Recorded
  BY <1>2, <1>4 DEF SameStores, Recorded
<1>10. QED BY <1>7, <1>8, <1>9

\* Loading all of a log yields the log.
LEMMA AllLoaded ==
  ASSUME NEW l, LogInv(l)
  PROVE  Loaded(l, Len(l.store), {}) = l.store
<1>1. l.store \in Seq(Entry)
  BY LogParts
<1>2. Loaded(l, Len(l.store), {}) = [ i \in 1 .. Len(l.store) |-> l.store[i] ]
  BY DEF Loaded
<1>3. QED BY <1>1, <1>2

LEMMA ReopenVersioned ==
  ASSUME StorageWorks, VersionInv, NEW bad \in LoadFailures, Reopen(bad)
  PROVE  VersionInv' /\ Visible(ds') = Recorded \cup GenesisObjects /\ Recorded' = Recorded
<1>1. /\ SourceInv(ds) /\ GenesisStored(ds) /\ RecordedIn(ds, durable) /\ RecordAgrees /\ FileInv
      /\ LogInv(ds.leaf_storage) /\ LogInv(ds.block_storage)
  BY DEF VersionInv, FileInv, SourceInv, LogsInv
<1>2. /\ bad = {} /\ durable' = durable
      /\ ds' = OpenDataSource(Loaded(ds.leaf_storage, durable.leaves, bad),
                              Loaded(ds.block_storage, durable.blocks, bad))
  BY DEF StorageWorks, Reopen
<1>3. /\ SourceInv(ds') /\ BothSettled(ds')
      /\ \/ durable.leaves = 0 /\ durable.blocks = 0 /\ GenesisOnly(ds')
         \/ /\ durable.leaves >= 1 /\ durable.blocks >= 1
            /\ ds'.leaf_storage.store = Loaded(ds.leaf_storage, durable.leaves, bad)
            /\ ds'.block_storage.store = Loaded(ds.block_storage, durable.blocks, bad)
  BY <1>1, <1>2, OpenedFromRecord
<1>4. FileInv'
  BY <1>1, ReopenKeeps
<1>5. CASE durable.leaves = 0 /\ durable.blocks = 0 /\ GenesisOnly(ds')
  <2>1. GenesisStored(ds') /\ RecordAgrees'
    BY <1>2, <1>5 DEF GenesisOnly, RecordAgrees
  <2>2. VersionInv' /\ Visible(ds') = StoredObjects(ds')
    BY <1>3, <1>4, <2>1, SettledVersion
  <2>3. StoredObjects(ds') = GenesisObjects
    BY <1>3, <1>5, GenesisAre
  <2>4. Recorded = {} /\ Recorded' = {}
    <3>1. 0 .. 0 - 1 = {}
      OBVIOUS
    <3>2. QED BY <1>2, <1>5, <3>1 DEF Recorded
  <2>5. QED BY <2>2, <2>3, <2>4
<1>6. CASE /\ durable.leaves >= 1 /\ durable.blocks >= 1
           /\ ds'.leaf_storage.store = Loaded(ds.leaf_storage, durable.leaves, bad)
           /\ ds'.block_storage.store = Loaded(ds.block_storage, durable.blocks, bad)
  <2>1. durable = Lengths(ds)
    BY <1>1, <1>6 DEF RecordAgrees
  <2>2. SameStores(ds, ds')
    BY <1>1, <1>2, <1>6, <2>1, AllLoaded DEF SameStores, Lengths
  <2>3. GenesisStored(ds') /\ RecordAgrees'
    BY <1>1, <1>2, <2>2, StoredSame DEF RecordAgrees
  <2>4. VersionInv' /\ Visible(ds') = StoredObjects(ds')
    BY <1>3, <1>4, <2>3, SettledVersion
  <2>5. StoredObjects(ds') = Recorded \cup GenesisObjects
    BY <2>2, StoredSame, VersionsAre
  <2>6. Recorded' = Recorded
    BY <1>2, <2>2 DEF SameStores, Recorded
  <2>7. QED BY <2>4, <2>5, <2>6
<1>7. QED BY <1>3, <1>5, <1>6

LEMMA VersionInit == StorageWorks /\ Init => VersionInv /\ Versions!Init
<1> SUFFICES ASSUME StorageWorks, Init PROVE VersionInv /\ Versions!Init
  OBVIOUS
<1>1. /\ ds = InsertGenesis(EmptyDataSource) /\ SourceInv(ds) /\ GenesisOnly(ds) /\ BothSettled(ds)
  BY EmptySourceInv, GenesisInserted DEF Init
<1>2. InOrder(ds) /\ WrittenObjects(ds) = StoredObjects(ds)
  BY <1>1, SettledInOrder
<1>3. VersionInv
  BY <1>1, <1>2, FileInit DEF VersionInv, RecordAgrees, Init
<1>4. Visible(ds) = GenesisObjects
  BY <1>1, <1>2, <1>3, VersionsAre, GenesisAre
<1>5. Recorded = {}
  BY <1>3, VersionsAre DEF Init
<1>6. QED BY <1>3, <1>4, <1>5 DEF Versions!Init, GenesisObjects

LEMMA VersionStep ==
  ASSUME StorageWorks, VersionInv, [Next]_vars
  PROVE  VersionInv' /\ [Versions!Next]_(Versions!vsVars)
<1>1. CASE \E e \in Event : Update(e)
  <2>1. VersionInv' /\ Visible(ds) \subseteq Visible(ds') /\ Recorded' = Recorded
    BY <1>1, UpdateVersion
  <2>2. Visible(ds') \in SUBSET ({"leaf", "block"} \X Heights)
    BY DEF Visible
  <2>3. Versions!Modify
    BY <2>1, <2>2 DEF Versions!Modify
  <2>4. QED BY <2>1, <2>3 DEF Versions!Next
<1>2. CASE Commit \/ SkipVersion
  <2>1. VersionInv' /\ Visible(ds') = Visible(ds) /\ Recorded' = Visible(ds)
    BY <1>2, CommitVersioned, SkipVersioned
  <2>2. Versions!Commit
    BY <2>1 DEF Versions!Commit
  <2>3. QED BY <2>1, <2>2 DEF Versions!Next
<1>3. CASE Revert \/ \E bad \in LoadFailures : Reopen(bad)
  <2>1. VersionInv' /\ Visible(ds') = Recorded \cup GenesisObjects /\ Recorded' = Recorded
    BY <1>3, RevertVersioned, ReopenVersioned
  <2>2. Versions!Revert
    BY <2>1 DEF Versions!Revert, GenesisObjects
  <2>3. QED BY <2>1, <2>2 DEF Versions!Next
<1>4. CASE UNCHANGED vars
  <2>1. ds' = ds /\ durable' = durable
    BY <1>4 DEF vars
  <2>2. VersionInv'
    BY <2>1 DEF VersionInv, FileInv, RecordAgrees
  <2>3. Visible(ds') = Visible(ds) /\ Recorded' = Recorded
    BY <2>1 DEF Recorded
  <2>4. QED BY <2>2, <2>3 DEF Versions!vsVars
<1>5. ~ (\E e \in Event : UpdateFails(e)) /\ ~ OwnerSynchronises /\ ~ (\E step \in CommitFailures : CommitFails(step))
  BY DEF UpdateFails, OwnerSynchronises, StorageWorks
<1>6. QED BY <1>1, <1>2, <1>3, <1>4, <1>5 DEF Next

\* The file system data source is a versioned data source: a change is seen at once, a
\* commit records all that is seen, a revert or a restart goes back to what is recorded and
\* the genesis objects.
THEOREM ImplementsVersions ==
  ASSUME StorageWorks
  PROVE  Spec => ImplementsVersionedStore
<1>1. Init => VersionInv /\ Versions!Init
  BY VersionInit
<1>2. VersionInv /\ [Next]_vars => VersionInv' /\ [Versions!Next]_(Versions!vsVars)
  BY VersionStep
<1>3. QED
  BY <1>1, <1>2, PTL DEF Spec, ImplementsVersionedStore, Versions!Spec

-----------------------------------------------------------------------------
(* Ranges *)

\* The positions inside a range are an interval: from its start up to its end.
LEMMA InsideIs ==
  ASSUME NEW l, LogInv(l), NEW start \in Bound, NEW end \in Bound
  PROVE  { n \in 0 .. IterLen(l) - 1 : /\ start.kind = "included" => n >= start.n
                                       /\ start.kind = "excluded" => n > start.n
                                       /\ ~ ReachedEnd(end, n) }
           = RangeFrom(start) .. RangeTo(l, end) - 1
<1>1. /\ IterLen(l) \in Nat /\ RangeTo(l, end) \in 0 .. IterLen(l)
      /\ \A p \in Nat : p < IterLen(l) => ((p < RangeTo(l, end)) <=> ~ ReachedEnd(end, p))
  BY RangeToIs
<1>2. RangeFrom(start) \in Nat
  BY RangeStartIs
<1>3. start.kind \in {"included", "excluded"} => start.n \in Nat
  BY LedgerAssumption DEF Bound
<1>4. \A n \in Nat : (/\ start.kind = "included" => n >= start.n
                      /\ start.kind = "excluded" => n > start.n) <=> n >= RangeFrom(start)
  BY <1>3 DEF RangeFrom
<1>5. QED BY <1>1, <1>2, <1>4

\* The least element and the size of an interval.
LEMMA IntervalIs ==
  ASSUME NEW f \in Nat, NEW t \in Nat
  PROVE  /\ Cardinality(f .. t - 1) = IF f <= t THEN t - f ELSE 0
         /\ f < t => Min(f .. t - 1) = f
<1>1. Cardinality(f .. t - 1) = IF f > t - 1 THEN 0 ELSE t - 1 - f + 1
  BY FS_Interval
<1>2. ASSUME f < t PROVE Min(f .. t - 1) = f
  <2>1. f \in f .. t - 1 /\ \A y \in f .. t - 1 : f =< y
    BY <1>2
  <2>2. \A x \in f .. t - 1 : (\A y \in f .. t - 1 : x =< y) => x = f
    BY <2>1
  <2>3. QED BY <2>1, <2>2 DEF Min
<1>3. QED BY <1>1, <1>2

\* What a range reads is what a query answers.
LEMMA RangeItemIs ==
  ASSUME NEW l, LogInv(l), l.pending_inserts <= CacheSize, NEW p \in Nat, p < IterLen(l)
  PROVE  Nth(l, p) = RangeItem(l, p)
<1>1. Yields(l, p)
  BY ReadsInPlace
<1>2. QED BY <1>1 DEF Nth, RangeItem

LEMMA RangeIsGets ==
  ASSUME NEW l, LogInv(l), l.pending_inserts <= CacheSize, NEW start \in Bound, NEW end \in Bound
  PROVE  LET inside == { n \in 0 .. IterLen(l) - 1 :
                           /\ start.kind = "included" => n >= start.n
                           /\ start.kind = "excluded" => n > start.n
                           /\ ~ ReachedEnd(end, n) }
         IN  RangeStream(l, start, end) =
               [ i \in 1 .. Cardinality(inside) |-> Nth(l, Min(inside) + i - 1) ]
<1> DEFINE f == RangeFrom(start)
           t == RangeTo(l, end)
           n == IF f <= t THEN t - f ELSE 0
           S == f .. t - 1
<1>1. f \in Nat /\ t \in Nat /\ \A p \in Nat : p < t => p < IterLen(l)
  BY RangeStartIs, RangeToIs
<1>2. RangeStream(l, start, end) = [ i \in 1 .. n |-> RangeItem(l, f + i - 1) ]
  <2>1. n \in Nat
    BY <1>1
  <2>2. RangeStream(l, start, end) = RangeItems(l, f, n)
    <3> HIDE DEF n
    <3>1. n = IF RangeFrom(start) <= RangeTo(l, end) THEN RangeTo(l, end) - RangeFrom(start) ELSE 0
      BY DEF n
    <3>2. QED BY <2>1, <3>1, RangeStreamIs
  <2> HIDE DEF n, f
  <2>3. QED BY <2>2 DEF RangeItems
<1>3. Cardinality(S) = n /\ (f < t => Min(S) = f)
  <2> HIDE DEF f, t
  <2>1. QED BY <1>1, IntervalIs
<1>4. \A i \in 1 .. n : Nth(l, Min(S) + i - 1) = RangeItem(l, f + i - 1)
  <2> TAKE i \in 1 .. n
  <2> HIDE DEF f, t, S
  <2>1. f < t /\ f + i - 1 \in Nat /\ f + i - 1 < t
    BY <1>1
  <2>2. Min(S) = f
    BY <1>3, <2>1
  <2>3. Nth(l, f + i - 1) = RangeItem(l, f + i - 1)
    BY <1>1, <2>1, RangeItemIs
  <2>4. QED BY <2>2, <2>3
<1>5. [ i \in 1 .. Cardinality(S) |-> Nth(l, Min(S) + i - 1) ] = [ i \in 1 .. n |-> RangeItem(l, f + i - 1) ]
  <2> HIDE DEF f, n, S
  <2>1. QED BY <1>3, <1>4
<1>6. QED BY <1>2, <1>5, InsideIs, Zenon

\* A range query answers as the point queries of its positions do, one after the other,
\* whichever of them are in the store, in the cache or placeholders, and stops where the
\* range or the log does.
THEOREM RangesCorrect ==
  ASSUME MaxRevert \in 0 .. CacheSize
  PROVE  Spec => []RangesMatchGets
<1>1. ASSUME FileInv PROVE RangesMatchGets
  <2>1. LogInv(ds.leaf_storage) /\ LogInv(ds.block_storage)
    BY <1>1 DEF FileInv, SourceInv, LogsInv
  <2> DEFINE inside(l, start, end) ==
               { n \in 0 .. IterLen(l) - 1 : /\ start.kind = "included" => n >= start.n
                                             /\ start.kind = "excluded" => n > start.n
                                             /\ ~ ReachedEnd(end, n) }
             gets(l, start, end) ==
               [ i \in 1 .. Cardinality(inside(l, start, end)) |->
                   Nth(l, Min(inside(l, start, end)) + i - 1) ]
  <2>2. \A l, start, end :
          LogInv(l) /\ l.pending_inserts <= CacheSize /\ start \in Bound /\ end \in Bound
          => RangeStream(l, start, end) = gets(l, start, end)
    BY RangeIsGets
  <2>3. ASSUME NEW start \in Bound, NEW end \in Bound
        PROVE  /\ ds.leaf_storage.pending_inserts <= CacheSize
                  => GetLeafRange(ds, start, end) = gets(ds.leaf_storage, start, end)
               /\ ds.block_storage.pending_inserts <= CacheSize
                  => GetBlockRange(ds, start, end) = gets(ds.block_storage, start, end)
    <3> HIDE DEF gets
    <3>1. QED BY <2>1, <2>2 DEF GetLeafRange, GetBlockRange
  <2>4. QED BY <2>3, Zenon DEF RangesMatchGets
<1>2. QED BY <1>1, FileInvariance, PTL
=============================================================================
