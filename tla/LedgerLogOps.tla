---------------------------- MODULE LedgerLogOps ----------------------------
(***************************************************************************)
(* The caching append log of data_source/ledger_log.rs as a record and the *)
(* operations on it as operators from records to records, so that the log  *)
(* can be checked on its own (LedgerLog) and used twice by the file system *)
(* data source, once for leaves and once for blocks.                       *)
(*                                                                         *)
(* Ledger positions count from 0, as in the code; TLA+ sequences count     *)
(* from 1, so position i of a sequence s is s[i + 1].  A ledger object is  *)
(* identified with the height it was made for.                             *)
(***************************************************************************)
EXTENDS Integers, Sequences

CONSTANTS
  CacheSize,  \* `cache_size`: CACHED_LEAVES_COUNT and CACHED_BLOCKS_COUNT
  None        \* the placeholder stored for an object that is not available

ASSUME CacheSizeAssumption == CacheSize \in Nat \ {0}
ASSUME NoneAssumption == None \notin Nat

(***************************************************************************)
(* `store` holds the committed entries of the AppendLog, which is all its  *)
(* own iterator shows; `appended` the entries written since, which become  *)
(* part of `store` when a version is committed and vanish when it is       *)
(* reverted.                                                               *)
(***************************************************************************)
Entry == Nat \cup {None}

LogType ==
  [ store           : Seq(Entry),
    appended        : Seq(Entry),
    pending_inserts : Nat,
    cache_start     : Nat,
    cache           : Seq(Entry),
    stream_pos      : Nat ]

EmptyLog ==
  [ store           |-> << >>,
    appended        |-> << >>,
    pending_inserts |-> 0,
    cache_start     |-> 0,
    cache           |-> << >>,
    stream_pos      |-> 0 ]

-----------------------------------------------------------------------------
(* Reading *)

\* The number of items the log's iterator announces: the height of the log as
\* its readers see it, uncommitted entries included.
IterLen(log) == log.cache_start + Len(log.cache)

\* The position the next appended entry gets.
NextPos(log) == Len(log.store) + log.pending_inserts

\* Whether `iter().nth(i)` yields an item (an object or a placeholder): the
\* cache answers for every position from cache_start on, the committed part of
\* the store for the positions before it.
Yields(log, i) ==
  IF i >= log.cache_start THEN i - log.cache_start < Len(log.cache)
                          ELSE i < Len(log.store)

\* That item; only meaningful when Yields(log, i).
Item(log, i) ==
  IF i >= log.cache_start THEN log.cache[i - log.cache_start + 1]
                          ELSE log.store[i + 1]

\* An object, not a placeholder, can be read at position i.
Available(log, i) == Yields(log, i) /\ Item(log, i) # None

\* The first position from p on at which no object is available: where a loop
\* `while let Some(Some(obj)) = objects.next()` that starts at p stops.
FirstUnavailable(log, p) ==
  CHOOSE q \in p .. p + IterLen(log) :
    /\ ~ Available(log, q)
    /\ \A r \in p .. q - 1 : Available(log, r)

(***************************************************************************)
(* The iterator itself: `index` is its position in the log and `store` the *)
(* position of the iterator over the store that it advances, by relative   *)
(* steps, only while it reads before cache_start.                          *)
(***************************************************************************)
FreshIter == [ index |-> 0, store |-> 0 ]

\* Mutant: the store's iterator is moved by the absolute position.
IterNthAbsolute(log, it, n) ==
  LET at     == it.index + n
      cached == at >= log.cache_start
      source == IF cached THEN log.cache ELSE log.store
      pos    == IF cached THEN at - log.cache_start ELSE it.store + at
      some   == pos < Len(source)
  IN  [ some |-> some,
        item |-> IF some THEN source[pos + 1] ELSE None,
        iter |-> [ index |-> at + 1, store |-> IF cached THEN it.store ELSE pos + 1 ] ]

\* `nth(n)`: what it yields, if anything, and the iterator afterwards.
IterNth(log, it, n) ==
  LET at     == it.index + n
      cached == at >= log.cache_start
      source == IF cached THEN log.cache ELSE log.store
      pos    == IF cached THEN at - log.cache_start ELSE it.store + n
      some   == pos < Len(source)
  IN  [ some |-> some,
        item |-> IF some THEN source[pos + 1] ELSE None,
        iter |-> [ index |-> at + 1,
                   store |-> IF cached THEN it.store ELSE it.store + n + 1 ] ]

-----------------------------------------------------------------------------
(* Writing *)

\* `store_resource`: write one entry behind the others and remember it in the
\* cache, dropping the oldest cached entry when the cache is full.
StoreResource(log, entry) ==
  LET full == Len(log.cache) >= CacheSize
  IN  [ log EXCEPT !.appended        = Append(@, entry),
                   !.pending_inserts = @ + 1,
                   !.cache_start     = IF full THEN @ + 1 ELSE @,
                   !.cache           = Append(IF full THEN Tail(@) ELSE @, entry) ]

\* Mutant: an entry is evicted one write too early.
StoreAllEarly(log, entries) ==
  LET all     == log.cache \o entries
      evicted == IF Len(all) >= CacheSize THEN Len(all) - CacheSize + 1 ELSE 0
  IN  [ log EXCEPT !.appended        = @ \o entries,
                   !.pending_inserts = @ + Len(entries),
                   !.cache_start     = @ + evicted,
                   !.cache           = SubSeq(all, evicted + 1, Len(all)) ]

\* `store_resource` called for each of `entries` in turn, in closed form.
StoreAll(log, entries) ==
  LET all     == log.cache \o entries
      evicted == IF Len(all) > CacheSize THEN Len(all) - CacheSize ELSE 0
  IN  [ log EXCEPT !.appended        = @ \o entries,
                   !.pending_inserts = @ + Len(entries),
                   !.cache_start     = @ + evicted,
                   !.cache           = SubSeq(all, evicted + 1, Len(all)) ]

\* These calls themselves, as the loops in `insert` make them.
StoreEach(log, entries) ==
  LET after[k \in 0 .. Len(entries)] ==
        IF k = 0 THEN log ELSE StoreResource(after[k - 1], entries[k])
  IN  after[Len(entries)]

\* What `insert(i, object)` appends: placeholders up to position i, then the
\* object.  Only for a position at or past the end of the log.
Padded(log, i, object) ==
  LET gap == i - NextPos(log)
  IN  [ k \in 1 .. gap + 1 |-> IF k = gap + 1 THEN object ELSE None ]

\* `insert(i, object)`.  An object for an earlier position replaces what the
\* cache has there; the persistent store cannot be updated, and outside the
\* cache the object is dropped.
InsertObject(log, i, object) ==
  IF i >= NextPos(log) THEN StoreAll(log, Padded(log, i, object))
  ELSE IF i >= log.cache_start
       THEN [ log EXCEPT !.cache[i - log.cache_start + 1] = object ]
       ELSE log

\* An insert whose k+1-st write to the store fails: the k entries written
\* before it stay appended, and the error is returned.
InsertFailing(log, i, object, k) ==
  StoreAll(log, SubSeq(Padded(log, i, object), 1, k))

-----------------------------------------------------------------------------
(* Versions *)

\* `self.store.commit_version()` and the reset of pending_inserts.
Stored(log) ==
  [ log EXCEPT !.store           = @ \o log.appended,
               !.appended        = << >>,
               !.pending_inserts = 0 ]

\* Mutants: commit_version forgets to move stream_pos, or moves it past missing
\* objects.
CommitForgetsPos(log) == Stored(log)
CommitPassesMissing(log) == [ Stored(log) EXCEPT !.stream_pos = IterLen(Stored(log)) ]

\* `commit_version`, which then moves stream_pos past every object that extends
\* the available prefix ...
CommitVersion(log) ==
  [ Stored(log) EXCEPT !.stream_pos = FirstUnavailable(Stored(log), log.stream_pos) ]

\* ... and sends these objects to whoever listens, in order.
Broadcast(log) ==
  LET from == log.stream_pos
      upto == FirstUnavailable(Stored(log), from)
  IN  [ k \in 1 .. upto - from |-> Item(Stored(log), from + k - 1) ]

\* Mutants: revert_version clears the whole cache, or leaves it alone.
RevertClearsCache(log) ==
  [ log EXCEPT !.appended = << >>, !.pending_inserts = 0, !.cache = << >> ]
RevertKeepsCache(log) ==
  [ log EXCEPT !.appended = << >>, !.pending_inserts = 0 ]

\* `revert_version`: forget the appended entries and pop as many entries off
\* the cache as were appended.  cache_start stays where the appends moved it.
RevertVersion(log) ==
  [ log EXCEPT !.appended        = << >>,
               !.pending_inserts = 0,
               !.cache           = SubSeq(@, 1, Len(@) - log.pending_inserts) ]

\* Mutant: open fills the cache from the start of the store.
OpenCachesFirst(entries) ==
  LET start == IF Len(entries) > CacheSize THEN Len(entries) - CacheSize ELSE 0
      log   == [ store           |-> entries,
                 appended        |-> << >>,
                 pending_inserts |-> 0,
                 cache_start     |-> start,
                 cache           |-> SubSeq(entries, 1, Len(entries) - start),
                 stream_pos      |-> 0 ]
  IN  [ log EXCEPT !.stream_pos = FirstUnavailable(log, 0) ]

\* `open` on a store with the given committed entries: cache as many of the
\* last ones as fit and stream from the first one that is missing.
OpenLog(entries) ==
  LET start == IF Len(entries) > CacheSize THEN Len(entries) - CacheSize ELSE 0
      log   == [ store           |-> entries,
                 appended        |-> << >>,
                 pending_inserts |-> 0,
                 cache_start     |-> start,
                 cache           |-> SubSeq(entries, start + 1, Len(entries)),
                 stream_pos      |-> 0 ]
  IN  [ log EXCEPT !.stream_pos = FirstUnavailable(log, 0) ]

-----------------------------------------------------------------------------
(* Subscribing *)

\* `subscribe(from)` yields at once what is already available from `from` up to
\* stream_pos (the iterator may end sooner, and a placeholder makes the whole
\* call fail) ...
PrefixLen(log, from) ==
  IF from >= log.stream_pos THEN 0
  ELSE CHOOSE n \in 0 .. log.stream_pos - from :
         /\ \A k \in 0 .. n - 1 : Yields(log, from + k)
         /\ n < log.stream_pos - from => ~ Yields(log, from + n)

Prefix(log, from) ==
  [ k \in 1 .. PrefixLen(log, from) |-> Item(log, from + k - 1) ]

CanSubscribe(log, from) ==
  \A k \in 1 .. PrefixLen(log, from) : Prefix(log, from)[k] # None

\* Mutants: nothing is skipped, one item too many is, or the subtraction does not
\* saturate.
SkipsNothing(log, from) == 0
SkipsOneMore(log, from) == IF from > log.stream_pos THEN from - log.stream_pos + 1 ELSE 0
SkipUnsaturated(log, from) == from - log.stream_pos

\* ... and then what is broadcast from now on, less this many items.
Skipped(log, from) ==
  IF from > log.stream_pos THEN from - log.stream_pos ELSE 0
=============================================================================
