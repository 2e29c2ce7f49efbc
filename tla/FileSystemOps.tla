---------------------------- MODULE FileSystemOps ----------------------------
(***************************************************************************)
(* The file system data source (data_source/fs.rs) as a record: a log of   *)
(* leaves, a log of blocks and four indices into them.  Its methods are    *)
(* operators from data sources to data sources or to answers, so that the  *)
(* data source can be checked on its own (FileSystemDataSource) and behind *)
(* the service (QueryService).                                             *)
(***************************************************************************)
EXTENDS LedgerLogOps, DecideEvents, SequencesExt

\* A placeholder or an error is told from an object and from a place.
ASSUME ValuesAssumption ==
  \A v \in {None, NotFound, Missing} : v \notin Nat /\ v \notin Seq(Nat)

DataSource ==
  [ leaf_storage         : LogType,
    block_storage        : LogType,
    index_by_leaf_hash   : SUBSET Heights,
    index_by_block_hash  : [ Hashes -> { << h >> : h \in Heights } \cup {None} ],
    index_by_txn_hash    : [ Transactions -> (Heights \X Nat) \cup {None} ],
    index_by_proposer_id : [ Proposers -> Seq(Heights) ] ]

EmptyDataSource ==
  [ leaf_storage         |-> EmptyLog,
    block_storage        |-> EmptyLog,
    index_by_leaf_hash   |-> {},
    index_by_block_hash  |-> [ x \in Hashes |-> None ],
    index_by_txn_hash    |-> [ t \in Transactions |-> None ],
    index_by_proposer_id |-> [ p \in Proposers |-> << >> ] ]

-----------------------------------------------------------------------------
(* Inserting *)

\* Mutant: the last position inserted for a hash wins.
UpdateIndexOverwrites(index, hash, pos) == [ index EXCEPT ![hash] = pos ]

\* `update_index_by_hash`: the index keeps the earliest position of a hash.
UpdateIndexByHash(index, hash, pos) ==
  [ index EXCEPT ![hash] = IF @ = None \/ PlaceBefore(pos, @) THEN pos ELSE @ ]

\* Mutant: the number of leaves is indexed instead of the height.
IndexLeafByCount(d, h) ==
  [ d EXCEPT !.index_by_leaf_hash = @ \cup {h},
             !.index_by_block_hash = UpdateIndexByHash(@, BlockHash[h], << h >>),
             !.index_by_proposer_id[Proposer[h]] = Append(@, IterLen(d.leaf_storage)) ]

\* The indices after the leaf of height h was stored ...
IndexLeaf(d, h) ==
  [ d EXCEPT !.index_by_leaf_hash = @ \cup {h},
             !.index_by_block_hash = UpdateIndexByHash(@, BlockHash[h], << h >>),
             !.index_by_proposer_id[Proposer[h]] = Append(@, h) ]

\* Mutant: every transaction is indexed at the first place of the payload.
IndexBlockAtFirst(d, h) ==
  [ d EXCEPT !.index_by_txn_hash =
      FoldLeftDomain(LAMBDA index, i :
                       UpdateIndexByHash(index, Payload[h][i], << h, 1 >>),
                     @, Payload[h]) ]

\* ... and after its block was: every transaction of the payload, in order.
IndexBlock(d, h) ==
  [ d EXCEPT !.index_by_txn_hash =
      FoldLeftDomain(LAMBDA index, i :
                       UpdateIndexByHash(index, Payload[h][i], << h, i >>),
                     @, Payload[h]) ]

\* `insert_leaf` and `insert_block`.
InsertLeaf(d, h) ==
  IndexLeaf([ d EXCEPT !.leaf_storage = InsertObject(@, h, h) ], h)

InsertBlock(d, h) ==
  IndexBlock([ d EXCEPT !.block_storage = InsertObject(@, h, h) ], h)

\* The same when the write of the log after the first k fails: no index changes.
InsertLeafFailing(d, h, k)  == [ d EXCEPT !.leaf_storage  = InsertFailing(@, h, h, k) ]
InsertBlockFailing(d, h, k) == [ d EXCEPT !.block_storage = InsertFailing(@, h, h, k) ]

-----------------------------------------------------------------------------
(* Decide events *)

InsertPair(d, e, pair) ==
  LET stored == InsertLeaf(d, pair.leaf)
  IN  IF pair.leaf \in e.payloads THEN InsertBlock(stored, pair.leaf) ELSE stored

\* The first n leaves of the event, and their blocks, inserted.
InsertPairs(d, e, n) ==
  FoldLeft(LAMBDA acc, pair : InsertPair(acc, e, pair), d, SubSeq(UpdatePairs(e), 1, n))

\* `update`.
UpdateFrom(d, e) == InsertPairs(d, e, Len(UpdatePairs(e)))

\* `update` when, after n leaves, the leaf or the block of the next one fails
\* at a write of its log: everything before stays, and the error is returned.
FailedUpdates(d, e) ==
  UNION { LET before == InsertPairs(d, e, n)
              h      == e.first + n
              stored == InsertLeaf(before, h)
          IN  { InsertLeafFailing(before, h, k) :
                  k \in 0 .. h - NextPos(before.leaf_storage) }
              \cup IF h \in e.payloads
                   THEN { InsertBlockFailing(stored, h, k) :
                            k \in 0 .. h - NextPos(stored.block_storage) }
                   ELSE {}
        : n \in 0 .. e.last - e.first }

-----------------------------------------------------------------------------
(* Opening *)

\* Mutant: the genesis objects are not committed.
InsertGenesisUncommitted(d) ==
  IF IterLen(d.leaf_storage) = 0 THEN InsertBlock(InsertLeaf(d, Genesis), Genesis) ELSE d

\* `insert_genesis`: with no leaf at all, insert the genesis leaf and block and
\* commit them (to the logs: the AtomicStore is not yet there).
InsertGenesis(d) ==
  IF IterLen(d.leaf_storage) = 0
  THEN LET g == InsertBlock(InsertLeaf(d, Genesis), Genesis)
       IN  [ g EXCEPT !.leaf_storage = CommitVersion(@), !.block_storage = CommitVersion(@) ]
  ELSE d

\* Mutant: opening keeps the last position of a hash.
LatestOf(S) ==
  IF S = {} THEN None ELSE CHOOSE p \in S : \A q \in S : p = q \/ PlaceBefore(q, p)

\* The least element of a set of positions, if any.
EarliestOf(S) ==
  IF S = {} THEN None ELSE CHOOSE p \in S : \A q \in S : p = q \/ PlaceBefore(p, q)

\* `open_with_store`: the indices are made from the leaves and blocks that were
\* loaded, in the order of the logs.
OpenDataSource(leaves, blocks) ==
  LET leafHeights  == { h \in 0 .. Len(leaves) - 1 : leaves[h + 1] # None }
      blockHeights == { h \in 0 .. Len(blocks) - 1 : blocks[h + 1] # None }
      places(t)    == UNION { { << h, i >> : i \in { j \in DOMAIN Payload[h] : Payload[h][j] = t } }
                                : h \in blockHeights }
  IN  InsertGenesis(
        [ leaf_storage         |-> OpenLog(leaves),
          block_storage        |-> OpenLog(blocks),
          index_by_leaf_hash   |-> leafHeights,
          index_by_block_hash  |-> [ x \in Hashes |->
             EarliestOf({ << h >> : h \in { g \in leafHeights : BlockHash[g] = x } }) ],
          index_by_txn_hash    |-> [ t \in Transactions |-> EarliestOf(places(t)) ],
          index_by_proposer_id |-> [ p \in Proposers |->
             FoldLeft(LAMBDA ids, h : IF h # None /\ Proposer[h] = p THEN Append(ids, h) ELSE ids,
                      << >>, leaves) ] ])

\* What is loaded of the first n entries of a log.
Loaded(log, n, unreadable) ==
  [ i \in 1 .. n |-> IF i - 1 \in unreadable THEN None ELSE log.store[i] ]

-----------------------------------------------------------------------------
(* Queries *)

\* `iter().nth(n)` with its two errors: no such position, or a placeholder.
Nth(log, n) ==
  IF ~ Yields(log, n) THEN NotFound
  ELSE IF Item(log, n) = None THEN Missing ELSE Item(log, n)

\* Mutant: the blocks are counted.
BlockHeightOfBlocks(d) == IterLen(d.block_storage)

BlockHeight(d) == IterLen(d.leaf_storage)

GetLeaf(d, n)  == Nth(d.leaf_storage, n)
GetBlock(d, n) == Nth(d.block_storage, n)

GetLeafByHash(d, h) ==
  IF h \in d.index_by_leaf_hash THEN GetLeaf(d, h) ELSE NotFound

GetBlockByHash(d, x) ==
  IF d.index_by_block_hash[x] = None THEN NotFound ELSE GetBlock(d, d.index_by_block_hash[x][1])

\* A block and the place of the transaction in it, or an error.
GetBlockWithTransaction(d, t) ==
  LET place == d.index_by_txn_hash[t] IN
  IF place = None THEN NotFound
  ELSE IF GetBlock(d, place[1]) \in Nat THEN << GetBlock(d, place[1]), place[2] >>
       ELSE GetBlock(d, place[1])

CountProposals(d, p) == Len(d.index_by_proposer_id[p])

\* The last `limit` leaves indexed for p; the first error fails the query.
GetProposals(d, p, limit) ==
  LET ids    == d.index_by_proposer_id[p]
      from   == IF Len(ids) > limit THEN Len(ids) - limit ELSE 0
      leaves == [ i \in 1 .. Len(ids) - from |-> GetLeaf(d, ids[from + i]) ]
      errors == { i \in DOMAIN leaves : leaves[i] \notin Nat }
  IN  IF errors = {} THEN leaves ELSE leaves[Min(errors)]

(***************************************************************************)
(* `range_stream`: the iterator is moved to the start of the range; items  *)
(* are then taken until the end of the range or of the iterator, and an    *)
(* unavailable one is an error in the stream.  Bounds are included,        *)
(* excluded or absent.                                                     *)
(***************************************************************************)
Bound == [ kind : {"included", "excluded"}, n : 0 .. MaxHeight + 1 ] \cup { [ kind |-> "unbounded" ] }

RangeStart(log, start) ==
  CASE start.kind = "included" ->
         [ pos  |-> start.n,
           iter |-> IF start.n > 0 THEN IterNth(log, FreshIter, start.n - 1).iter ELSE FreshIter ]
    [] start.kind = "excluded" ->
         [ pos |-> start.n + 1, iter |-> IterNth(log, FreshIter, start.n).iter ]
    [] OTHER -> [ pos |-> 0, iter |-> FreshIter ]

ReachedEnd(end, pos) ==
  \/ end.kind = "included" /\ pos > end.n
  \/ end.kind = "excluded" /\ pos >= end.n

RangeStream(log, start, end) ==
  LET first == RangeStart(log, start)
      \* The stream after k steps; IterLen(log) + 1 steps exhaust it.
      after[k \in Nat] ==
        IF k = 0 THEN [ pos |-> first.pos, iter |-> first.iter, items |-> << >>, over |-> FALSE ]
        ELSE LET prev == after[k - 1]
                 next == IterNth(log, prev.iter, 0)
             IN  IF prev.over \/ ReachedEnd(end, prev.pos) \/ ~ next.some
                 THEN [ prev EXCEPT !.over = TRUE ]
                 ELSE [ pos   |-> prev.pos + 1,
                        iter  |-> next.iter,
                        items |-> Append(prev.items, IF next.item = None THEN Missing ELSE next.item),
                        over  |-> FALSE ]
  IN  after[IterLen(log) + 1].items

GetLeafRange(d, start, end)  == RangeStream(d.leaf_storage, start, end)
GetBlockRange(d, start, end) == RangeStream(d.block_storage, start, end)

\* A new subscription: what is there already, and how much of what is announced
\* next it skips.
Subscribe(log, n) ==
  IF CanSubscribe(log, n) THEN [ skip |-> Skipped(log, n), items |-> Prefix(log, n) ] ELSE Missing

SubscribeLeaves(d, n) == Subscribe(d.leaf_storage, n)
SubscribeBlocks(d, n) == Subscribe(d.block_storage, n)

-----------------------------------------------------------------------------
(* Versions *)

\* How many entries the next commit of a log saves, and what a version consists of.
Uncommitted(log) == Len(log.appended)

Lengths(d) == [ leaves |-> Len(d.leaf_storage.store), blocks |-> Len(d.block_storage.store) ]

CommitLeaves(d) == [ d EXCEPT !.leaf_storage = CommitVersion(@) ]
CommitBlocks(d) == [ d EXCEPT !.block_storage = CommitVersion(@) ]

\* The objects that can be read by their heights.
Visible(d) ==
  { << "leaf", h >>  : h \in { n \in Heights : Available(d.leaf_storage, n) } } \cup
  { << "block", h >> : h \in { n \in Heights : Available(d.block_storage, n) } }
=============================================================================
