# A verification of the HotShot query service

TLA+ models of the query service (its data sources, the loop that feeds them, its APIs,
metrics and migrations), TLC configurations that check them on small instances, and TLAPS
proofs about the append log, both data sources, the service loop and the metrics. Source
paths are relative to the repository; `a.rs:10` is line 10 of the file of that name.

## The system

A query service follows one HotShot node. The node emits *decide events*, each with
a chain of decided leaves (newest first), some of which carry their block payload. The
service stores leaves and blocks in a *data source* and answers HTTP queries and
WebSocket subscriptions from it. It also keeps the metrics that the node reports.

| Component | State | Operations | Talks to |
|---|---|---|---|
| `LedgerLog` (`data_source/ledger_log.rs`) | an append log on disk, `pending_inserts`, a cache of the last entries and its start, `stream_pos`, a broadcast channel | `insert`, `store_resource`, `commit_version`, `revert_version`, `skip_version`, `open`, `iter`, `subscribe` | `atomic_store` (external); owned twice by the next one |
| `FileSystemDataSource` (`data_source/fs.rs`) | two LedgerLogs, four indices, optionally the top-level AtomicStore | `insert_leaf`, `insert_block`, `commit`, `revert`, `skip_version`, `open*`, `create*`, all queries | LedgerLog |
| `UpdateDataSource` (`data_source/update.rs`) | none | `update(event)`: pairs leaves with QCs, inserts leaves and blocks in order | any data source |
| `VersionedDataSource` (same file) | none (a trait) | promises of `commit`, `revert`, visibility and restart | implemented by both data sources |
| `SqlDataSource` (`data_source/sql.rs`) | a Postgres connection, `tx_in_progress`, two buffered channels | `connect`, `insert_leaf`, `insert_block`, `transaction`, `commit`, `revert`, queries, subscriptions | Postgres (external), BufferedChannel |
| Migrations (`data_source/sql.rs`, `migrations/`) | the history in the database, the configuration | `Config::migrations`, `no_migrations`, validating, merging, `connect` | refinery (external) |
| `BufferedChannel` (`data_source/buffered_channel.rs`) | pending messages, receivers | `push`, `flush`, `clear`, `subscribe` | SqlDataSource |
| Service loop (`lib.rs`, `run_standalone_service`) | an `RwLock` around the data source | update and commit per event, beside the web server's readers | HotShot (external), everything |
| Availability API (`availability.rs`, `query_data.rs`) | none | routes: requests to queries to answers | a data source, behind the lock |
| `PrometheusMetrics` (`metrics.rs`) | a registry and a map of labels for all, a tree of groups with their maps, each behind a lock | create, look up, export, update metrics | HotShot writes, status API reads |
| Status API, `MetricsDataSource` (`status/`, `data_source/metrics.rs`) | none of their own | `block_height`, `mempool_info`, `success_rate`, `metrics` | `PrometheusMetrics`, a data source |
| `ExtensibleDataSource` | a wrapped data source and user data | forwards | a data source |

What is hard in it:

- **Versions.** Both data sources keep uncommitted changes that readers of the same
  process see and others do not. In the log these are spread over the store, the
  cache and a counter; a revert has to put all three back. `commit` of the file system
  data source has three steps, any of which may fail or be the last before a crash.
- **Order.** Objects may come late, twice or with gaps; the log pads with
  placeholders and can only append. Streams must still be in order, without loss or
  repetition, for subscribers that arrive at any time and ask for any height.
- **Recovery.** After a crash, the cache, the indices and the stream position are
  rebuilt from what was recorded, some of which may be unreadable. The genesis objects
  come with no event.
- **Two sides of a transaction.** In the SQL data source, the server's transaction,
  the flag `tx_in_progress` and the buffered messages must agree across failed
  statements, failed commits and lost connections.
- **One lock.** Readers come at any time between the steps of update and commit, an
  error ends the loop but not the server, and the process may stop anywhere.
- **Many locks.** A metric is registered under one lock and entered into its group
  under another; a lookup by path takes one after the other while tasks create groups.
- **Releases.** A database outlives the releases and configurations that migrate it.

Correctness, per component: *LedgerLog*: a read yields what was written there,
uncommitted entries are readable, durable ones never disappear, every stream is ordered
and complete. *FileSystemDataSource*: no query answers with the wrong object, indices
cover the logs and survive restarts, blocks never overtake leaves. *SqlDataSource*: the
tables agree, subscribers miss no committed row, committed rows stay. *Both*:
they are versioned stores. *Service loop*: readers see whole events, nothing they were
told is taken back, no decision is missed and each becomes readable. *APIs*: no handler
panics, routes to the same object agree. *Metrics*: a name leads to the metric that is
exported, for ever, and values add up. *Migrations*: the schema is a whole one.

The hazards at their lines, each with the properties that would catch it, are listed
in `PROJECT.json`.

## Modules

| Module | Models |
|---|---|
| `LedgerLogOps` | the log as a record, its operations as operators: insertion, eviction, commit, revert, opening, the iterator, subscribing |
| `LedgerLog` | one log with its owner, the AtomicStore, crashes and clients; its properties |
| `OrderedStream` | abstract: what a stream of ledger objects promises |
| `LedgerLogLemmas` | lemmas about each operator of `LedgerLogOps` |
| `LedgerLogProofs` | the theorems about `LedgerLog` |
| `DecideEvents` | the ledger, decide events, and how `update` pairs leaves and QCs |
| `DecideEventsProofs` | lemmas about folds over sequences, lists that ascend, and what `UpdatePairs` yields |
| `FileSystemOps` | the data source as a record: two logs (`LedgerLogOps`) and four indices, its methods as operators: insertions, updates and failed ones, opening, all queries |
| `FileSystemDataSource` | its behaviour: updates, commits and their failures, revert, reopening; its properties |
| `FileSystemLemmas` | lemmas about each operator of `FileSystemOps` |
| `FileSystemProofs` | the theorems about `FileSystemDataSource` |
| `VersionedStore` | abstract: what `VersionedDataSource` promises |
| `BufferedChannel` | the channel as a record and its operations |
| `SqlDataSource` | tables, session, channels; updates, commit, revert, connection loss, connect, queries, subscriptions |
| `SqlDataSourceProofs` | the theorems about `SqlDataSource` |
| `Migrations` | releases, configurations, the history in the database, `connect` |
| `AvailabilityApi` | the routes as operators from a request to an answer, payloads (`QueryablePayload`) |
| `QueryService` | the composition: HotShot, the update task, the lock, the clients of the server with their streams, restarts, over `FileSystemOps` behind `AvailabilityApi` |
| `QueryServiceProofs` | the theorems about `QueryService` |
| `Metrics` | groups, registry, labels, values; tasks that create, walk and update, lock by lock |
| `StatusApi` | the reads of the status routes over `Metrics`, and `MetricsDataSource` |
| `MetricsProofs` | the theorems about `Metrics` and `StatusApi` |
| `FileSystemPromises`, `SqlPromises`, `MigrationsPromises` | statements of comments, docs and tests that the code departs from |
| `MC...` | instances: values for the constants |

Correspondence. A log record has the fields of `struct LedgerLog`; the store is split
into `store` (committed entries, all its own iterator shows) and `appended`. A height
stands for the object made for it. `FileSystemOps` is functional: operators take
a data source and yield the next one, so that `update` is a fold of insertions and a
failed `update` the fold up to any of its writes. Methods with `&mut self` are atomic
there because every user holds the data source exclusively while it calls them;
failures and crashes split them where the code can return early. `QueryService` has that
exclusion as its subject: each step of `run_standalone_service` is an action (asking for
events, starting consensus, taking the lock, `update`, the three steps of `commit`), a
request holds the read lock from `Request` to `Respond`, a stream route only while it
subscribes. The lock is async-std's, which lets no new reader pass a waiting writer.

In `SqlDataSource`, a failing statement aborts the session, `COMMIT` of an aborted
transaction rolls back and does not fail, and a lost connection loses what was not
committed: that is Postgres, modelled from how `sql.rs` uses it. `tables` is what the
connection sees; since queries run on the connection that has the open transaction,
readers see uncommitted rows. Heights are cast from `usize` to `i64` in `Width` bits.

In `Metrics` a name is the sequence of the words that `_` separates in it: joining names
is concatenation, and two groups may join to one fully qualified name, as in the code.
A task that panics (a name taken twice, an overflow that the build checks) stays where
it is. Requests of `StatusApi` read one gauge before and one after a step of another task.

Abstracted: hashes and serialisation (a leaf, its hash and its height are identified;
block hashes and transactions may repeat); QC contents (a QC is the height it
references); parsing of parameters and texts of errors; logging; the exported text of
metrics, buckets and sums of histograms (a histogram is the count of its points); the
quotient of `success_rate` (its two parts are kept); SQL of migrations (a migration is
its version and name, of which refinery's checksum is part).

### Definitions named as mutants

An operator whose comment begins with "Mutant" is a plausible mistake in the definition
after it (a missing reset, an off-by-one, a wrong order). Nothing uses it: `PROJECT.json` pairs each
property with a mutant that violates it, to show that the property can fail.

## Runs

| Run | Shows | Bounds |
|---|---|---|
| `LedgerLog` | reads, visibility, contiguous and complete streams, prefixes available, durable entries, with late objects, gaps, failed writes, reverts, crashes and unreadable entries; that `FairSpec` implements `OrderedStream`, liveness included | heights 0..4, cache of 2, one client, reverts of at most 2 entries |
| `FileSystemFailures` | indices agree with logs, no wrong answers, blocks behind leaves, genesis and recorded objects readable; events overlap, repeat and leave gaps, writes and commit steps fail | heights 0..3, events of up to 2 leaves, 3 uncommitted leaves |
| `FileSystemOrdered` | leaves meet their QCs, ranges agree with point queries, implements `VersionedStore`; for the events of one node and the data source's own AtomicStore | heights 0..5, events of up to 2 leaves |
| `SqlStreams` | tables agree, buffers are the uncommitted rows, committed rows stay, first transaction found, ranges and latest proposals right, implements `VersionedStore`; a subscriber misses nothing committed, and is given what its query saw and then what was committed since; with redelivered events, failing statements, unknown commit outcomes, lost connections, transactions opened by the application, and subscriptions at any moment from any height | heights 0..3, `usize` of 3 bits, events of up to 2 leaves, 2 uncommitted, one subscription, one commit that misleads it |
| `QueryService` | requests see whole recorded events; what they saw stays, through errors and restarts; streams are ahead of storage by at most the event being committed; no decision is missed; transactions, proposals and restarts right through the API; decisions become readable | heights 0..3, events of up to 2 leaves, HotShot one event ahead, two clients, one of which may stream, from height 0 or 2 |
| `Metrics` | names found are the names exported, walks arrive, lookups and status answers are stable, values add up | two tasks (symmetric), three groups, two metrics, values of 2 bits, deltas -2 and 1, totals within 1 |
| `Migrations` | merging is by version, the history changes only to just the migrations of a connection that succeeds | two releases, five custom migrations (below, between, above, two of one version, one replacing a default), three per configuration |

A client of the log has no effect on another one (each has its own receiver of the
broadcast), so one is enough in `LedgerLog`; in `SqlStreams` a message goes to each
receiver alike, and the theorems cover every set of clients. The cache holds 100 entries in the code; 2 is the least size with a cached
entry that is neither first nor last, and heights beyond twice that reach every relation
of store, cache, uncommitted part and `stream_pos`: empty, partial, full, evicting. The
ledger of `MCLedger` has two proposers, duplicate blocks, and a transaction in two blocks
and twice in one, so that every "first one wins" rule has a choice to make. Objects are
never identified with each other, so a shifted or swapped read shows. With 3 bits, a
`usize` has four values that are a `bigint` and four that become negative. In `Metrics`,
2 bits let every metric wrap in both directions, and -2 is the least delta; the names `a`,
`a_b` for groups and `c`, `b_c` for metrics have one fully qualified name in two groups. One
event waiting beside the one being handled is all that the loop can tell from many.

`MaxRevert <= CacheSize` bounds reverts in the passing runs and is an assumption of the
theorems: beyond it the code goes wrong (`RevertOverflow`). The service commits after
every event, so a revert of more than 100 entries needs an owner that batches.

Nothing is assumed of the owner of an SQL data source or of its clients. The owner may
commit after a failed update, which the standalone service does not (its loop ends at an
error); a client may subscribe in a transaction, which that service excludes as well (it
updates and commits under one write lock, `RequestsSeeWholeEvents`); and it may ask for
any height, which the API lets it do. The history variable `asked` remembers of each
subscription the height, the tables that its query saw, those that were committed, and
how many commits have since announced to it what they rolled back (`misled`).
`StreamsFollowDatabase` says from these what it is given in every such case: nothing
committed is ever missed, and if it was not misled, its stream is determined. What it is
given *too much*, against the documents, is shown below: rows rolled back
(`SqlAbortedCommit`), heights below the one asked for (`SqlStreamAhead`), rows twice. A second subscription would not meet the first one, and a second
misleading commit does what the first did, so `MaxSubscriptions` and `MaxMisled` are 1;
the theorem holds for every value of both.

Deadlock is not checked in `Metrics` only: all tasks may have panicked.

### Where the code departs from what is said of it

| Run | Departure |
|---|---|
| `FailedCommit` | a commit that fails after its first step cannot be reverted |
| `RevertOverflow` | a revert of more than a cacheful leaves `cache_start` past the end; later entries are read at the wrong height |
| `SqlStreamAhead` | whoever asks for a height above the block height is given the objects below it |
| `SqlAbortedCommit` | a commit after a failed statement returns Ok, saves nothing, and announces leaves that are not in the database |
| `NoMigrations` | connecting without migrations compares the last migration only, so a missing custom one below it goes unnoticed |

Other differences met while modelling, not made runs:

- In the log: a late object lets `stream_pos` pass a placeholder of the store, and once it
  is evicted a subscription from before it fails, though `ledger_log.rs:228` says that the
  prefix is available (`PrefixIsAvailable` names just this exception); a late object is not
  undone by a revert and never written to storage (`ledger_log.rs:173` says that this is not
  supported yet); more than a cacheful of uncommitted entries is not visible before the
  commit.
- In the file system data source: a revert leaves the index of proposals, so that reverted
  leaves are still counted (`update.rs:99` says they are no longer reflected); a repeated
  leaf is let pass and indexed twice, and a late one indexed last, where the SQL data source
  aborts the transaction (`update.rs:27` leaves such events to the caller); a block past the
  end of the block log is NotFound though its leaf is known, which `lib.rs:385-391` calls
  Missing, as the SQL data source answers (both are HTTP 404, and `AnswersAreRight` allows
  both); its stream of blocks waits for ever at a missing payload, where the SQL one goes on
  past it.
- In the SQL data source: a subscription between an update and its commit yields the
  uncommitted leaves twice, since the query sees them and the commit flushes them
  (`sql.rs:890` says that future leaves are those after the query's); a range whose start is
  2^63 or more has every row, since the bound becomes negative (`RangesMatchQueries` is about
  bounds below); a limit of 2^63 or more is an error of the query; *all* proposals of a
  proposer, queried without a limit, come in the database's order (`sql.rs:843` has no ORDER
  BY), although the test `data_source.rs:149-167` asserts of every data source that they are
  in chronological order and end with the latest ones. `LatestProposalsAreLast` is about
  what remains true in any order.
- In the metrics: a label created in a group whose name has an underscore is not found
  there, for it is registered under the words of that name (`metrics.rs:363`) and looked up
  under the name. `NamesAgree` says that what is found is right.

In the service: streams are told of a log before the top-level store
records its version, so that for one event a subscriber may know more than a restarted
service (`StreamsAreRecorded` says how much at most); once an error has ended the loop,
requests are answered from half an event, and a later restart takes it back
(`ToldIsNeverTakenBack` is about what was seen while the loop ran).

### Fairness

In `LedgerLog`: weak fairness of each client taking the next item of its stream, which an
executor that polls woken tasks gives; nothing is assumed of commits, insertions or
clients going away. In `QueryService`: weak fairness of the update task, which the same
executor gives, and of a handler that has the lock and comes to its end, since handlers
wait for nothing else under it. Weak fairness of taking the write lock is enough because
no reader may enter while the task waits (the mutant `MayReadOvertaking` shows what a
lock that prefers readers would do). Nothing is assumed of HotShot, of clients, or of
errors not happening: the property ends where an error or a restart comes.

## Proofs

`LedgerLogProofs` proves about `LedgerLog`, for every cache size, height bound, set of
clients and set of load failures, under `MaxRevert <= CacheSize`: `TypeCorrect`,
`HeightCorrect`, `ReadsCorrect`, `UncommittedVisible`, `StreamsContiguous`,
`StreamsComplete`, `DurableReadable` (an action property), `StreamRefinement`: every
behaviour is one of `OrderedStream`, its liveness aside, and `InsertLoopCorrect`: the closed
form in which the model states the insertion of an entry (`StoreAll`) is the only function
that satisfies the recursion of the code's loop (`StoreEach`), in every
state and for every position that an object may come for.

The properties are not inductive. `IInv` adds what they rest on:

- the cache ends where the written entries end, and repeats them except that it may know
  the object of a placeholder (`CacheRepeats`);
- the cache holds every uncommitted entry or is full. This is what a revert needs: it pops
  as many entries as are uncommitted, at most `CacheSize`, and a full cache has that many;
- `stream_pos` is within the store, and at its end or at a placeholder (`FrontierInv`), so
  that a broadcast always begins where the last one ended;
- a subscription's inbox is consecutive, ends just before `stream_pos`, and nothing is
  skipped after something was received (`SubInv`).

Each operation of the log has a lemma that it preserves its part (they also serve the file
system data source, which uses the same operators), and `Invariance` combines them action
by action. `DurableReadable` and `StreamRefinement` follow from `IInv` per action. The
existence of the position that `FirstUnavailable` chooses comes from the well-foundedness
of the naturals.

`FileSystemProofs` proves about `FileSystemDataSource`, for every ledger, cache size and
bound, whatever may fail: `TypeCorrect`, `BlocksNeverAhead`, `LogsAreIndexed`,
`DurableReadable` (an action property), `RangesCorrect`, and, if the storage can read the
genesis entries back (`0` in no set of `LoadFailures`), `GenesisStays` and `AnswersCorrect`.
They assume `MaxRevert <= CacheSize`, as the theorems of the log do. `RangesCorrect` is about
a recursion too: the items that the iterator of a log yields one by one, with its skips, are
those that point queries give for each height (the lemmas are under "Ranges" in
`FileSystemLemmas`). `PairsConsistent` needs no
invariant: it is `PairsAre` of `DecideEventsProofs`, that the two reversed iterators of
`update` yield the leaves from the oldest on, each with the QC that references it.

Their invariant `FileInv` is what the properties rest on:

- both logs satisfy the invariant of the log, and the blocks are behind the leaves both in
  what is committed and in what is written: a commit makes the one out of the other;
- each index leads to what it says (`IndicesRight`);
- what a log holds, in its store *or in its cache*, is indexed (`HeldIndexed`). That what
  can be read is indexed is not inductive: a revert pops an entry of the cache and uncovers
  the store's entry at that position, which no query could see before;
- what is recorded is a prefix of both stores, and has the genesis of both logs or of
  neither (`DurableInv`), so that a reopening inserts it into both or neither.

An insertion, a failing one, a commit step and a revert each have a lemma on a data source
(`LeafInserted`, `LeafInsertFails`, `LeavesCommitted`, `RevertKeeps`...); updates and
failed updates fold them (`PairsInserted`). Reopening is `OpenedInv`: the indices that
are rebuilt from loaded entries are right and cover them.

`ImplementsVersions` is the refinement of `VersionedStore`, under what `FileSystemOrdered`
checks it for (`StorageWorks`): events in order, the data source's own AtomicStore, no
failures, at most a cacheful uncommitted. Each is needed: see "Where the code departs". What can be read
must be what is written, in the stores or since, so `VersionInv` adds to `FileInv` that

- the cache knows nothing that is not written (`CachesAreWritten`), so that a revert, which
  pops what it appended, leaves what the store has (`RevertWrites`);
- an uncommitted leaf is still cached, and *an uncommitted block belongs to an uncommitted
  leaf* (`InOrder`). Blocks may be more than a cacheful behind, after payloads that did
  not come, and the next one is then written behind that many placeholders. Some of them
  leave the cache before the commit, but no block does, so nothing is hidden;
- what is recorded is what the stores have, but for the genesis objects before the
  first commit (`RecordAgrees`).

Every step but an update leaves nothing uncommitted (`SettledVersion`), which is how
commit, revert and reopening map to the steps of the abstract store.

`SqlDataSourceProofs` proves about `SqlDataSource`, for every ledger, width, set of clients
and every choice of failures: `TypeCorrect`, `TablesCorrect`, `BuffersCorrect`,
`FirstCorrect`, `LatestCorrect`, `RangesCorrect`, `StaysCommitted` (an action property) and `ImplementsVersions`: every behaviour is one of
`VersionedStore`. `StreamsCorrect`, about streams, needs no assumption on the owner or the
clients either. The invariant
`SqlInv` adds to the tables' agreement that

- a session in a transaction has the tables that its statements made of the committed
  ones, they agree among themselves, and the pending messages list, in order and once,
  exactly the rows that the transaction added (`WorkInv`); an aborted one has them too,
  since the code buffers a message only after its statements succeeded;
- once anything is committed, the genesis rows are (`GenesisInv`).

`StreamsCorrect` rests on `StreamInv` besides: a receiver that was not misled has been given
what its query saw and then, in order, the committed rows that were not committed when it
began; one that was misled has at least those. A commit of a transaction that stands adds to
both sides the same list, what is pending, by `WorkInv`; that of an aborted one adds to the
stream only, and is what `misled` counts. That a list that
ascends and has the elements of a set is the one that `ORDER BY` yields is `AscendingIs`.
The three theorems about answers need the same of the tables: that the rows of each are
sorted and unlike (`RowsOrdered`, a part of `TableInv`), so that the answer to a query that
orders and limits is determined by how many rows there are on each side of it. They assume
that an error is no answer (`ErrorAssumption`), and are about bounds and limits that fit a
`bigint` (`BigintLimit`).

`QueryServiceProofs` proves about `QueryService`, for every ledger, every number of clients,
queued events and heights that streams are asked for: `ServiceTypeCorrect`,
`RequestsAreServedWholeEvents`, `ToldIsKept`, `StreamsStayRecorded`, `DecisionsAreNotMissed`,
`TransactionsAreServedRight`, `RestartsForgetNothing` and `ProposalsCorrect`. They assume only
that positions are not negative (`StartsAssumption`) and that a transaction is not the
absence of one. No action reverts, so the size of the cache does not matter to them, but for
`ProposalsCorrect`, which assumes that no event has more leaves than the cache holds
(`EventsFitCache`; `fs.rs:45` caches 100). That is needed: TLC finds that with a cache of 1 and
an event of two leaves, from the update to the commit, or for good if the commit fails, a
leaf is listed that is neither in the cache nor in the store. The invariant `ServiceInv` adds to `SourceInv` (the
data source, of which `FileInv` is made):

- between events everything that a log holds is in its store, and the stores are what is
  recorded (`AtRest`): no reader can be there at any other time (`ReadersKept`);
- from the update to the record, the leaf log ends with the event and has all its leaves
  (`AtWork`), and the logs hold nothing but what is recorded, the genesis objects and the
  objects of that event (`HeldKnown`), whatever failed since. This bounds what a stream may
  know too early;
- the events that wait are in order and after the one at hand, which is past the end of
  the leaf log (`EventsInOrder`). Without it nothing would keep an update from replacing
  entries, in the cache only;
- what a request could see is *in the recorded prefix of the stores* (`ToldKept`). That it
  is visible is not inductive: a restart forgets what is not recorded. Likewise a decided
  leaf is in that prefix, at hand or waiting (`DecisionsKept`).

TLC checked `ServiceInv` first, on the instance of the run. That the place
of a transaction is the first in its block (`TransactionPlace`) follows from `HeldIndexed`:
the block that is read is held, so every one of its transactions is indexed, no later.

The last two theorems need the other direction as well, that nothing more is indexed than
what was written. Their invariant `IndexedKept` (checked with TLC, too, before it was proved)
is that the indices lead only to entries that a log has written and the list of each
proposer ascends (`IndexedAreWritten`), and, with `EventsFitCache`, that every entry that was
written can be read (`Readable`). Together with `HeldIndexed` it leaves a data source
with nothing uncommitted no choice of indices: they are determined by its stores
(`SameWhenSettled`), however they came about. So what is opened from the record equals what
runs wherever the stores do, which is `RestartsForgetNothing`. A list that ascends and has the
elements of a set is the sorted set, which is `ProposalsCorrect`; its last elements are what
a limit leaves (`AreLatest`).

`MetricsProofs` proves about `Metrics`, for every set of tasks, names, kinds and bounds,
from `MetricsAssumption` only: `TypeCorrect`, `NamesCorrect`, `WalksCorrect`, `LookupsStable`
(an action property) and `ValuesCorrect`; and about `StatusApi`, `StatusCorrect` (one too), from
`StatusAssumption` besides, which says which names the status API reads. Its invariant `IInv` adds to the types:

- what is in the map of a group is in the registry under the name that the group gives it
  (`FoundInv`), and so is what a task has registered and is about to enter
  (`RegisteredInv`). The second makes the first inductive, and it is what makes lookups
  stable: a name is registered once, so no task ever enters a second metric under it;
- a value and the sum of its updates differ by a multiple of `2^Width` (`ValueInv`), from
  which `ValuesAddUp` follows since two numbers below `2^Width` do so only if equal.

`NamesCorrect` and `WalksCorrect` rest on a second one, `PathsInv`, checked with TLC on the
841,890 states of the run before it was proved:

- what is registered has been entered into a group, or a task is about to do so
  (`EnteredInv`), with the kind it was registered with (`KindInv`);
- the path under which a label is known joins to the name of its metric (`LabelInv`);
- the namespace of a group leads from the root to that group, and its child has that
  namespace and one name more (`TreeInv`);
- what is left of the path of a task that walks leads from where it is to the group that a
  lookup of the whole path finds (`WalkInv`): other tasks create groups meanwhile, but no
  group that is found is ever replaced.

`StatusCorrect` combines `LookupsStable`, by which the group and the gauges of consensus stay
where they were found, with `FoundInv` and a last invariant, that what is registered
under a name was created with it (`NamedInv`): if what is read changes, then a metric of
that very name has been updated.

Folds are recursive functions inside the library's definitions, and induction with an
operator parameter is out of the prover's reach. `DecideEventsProofs` has what replaces
it: the states of a fold form a sequence of steps (`FoldTrace`), and a property of the first that
each step keeps holds of the last because the set of counterexamples has a least element.
The other recursions (the insertion loop, the iterator of a log, the walk along a path, the
joining of names) are treated alike: a function with the values of a closed form, or built
one step longer at a time, satisfies the recursion, and by a bounded induction of the same
kind two functions that satisfy it agree.

Left to TLC: liveness (`FairSpec` implements `OrderedStream!FairSpec`,
`DecisionsBecomeReadable`), which is beyond the prover; `PrefixIsAvailable`; and the migrations, which
sort and merge with `SortSeq` and `SelectSeq`, whose definitions the prover cannot expand.

## Not modelled, and why

- `ExtensibleDataSource`: every method calls the one of the same name of the data source
  it wraps, and its own state belongs to the application; a model would be a renaming.
- Loading of API specifications and the merging of TOML files, error conversion: no state.
- The task that drives the Postgres connection and is killed with the data source: what
  the data source sees of it, a connection that is lost, is modelled.
- In the SQL data source: blocks inserted apart from `update`, several data sources on one
  database, statements an application executes (that it opens or breaks the transaction
  is modelled).
- `atomic_store`, HotShot, Postgres, refinery, prometheus: external; what the code relies
  on is modelled, their insides are not.
- Tests, the mock network, the example server, the examples in documentation.

## Plan

Done: the log, both data sources and the service loop with their proofs; the APIs; metrics
with their proofs and the status API; migrations.

To come:

1. `AvailabilitySpec`: one abstract specification of the queries over a ledger, shown to be
   implemented by both data sources where they agree.
2. `QueryService` over the SQL data source.
3. A theorem: `MergeIsByVersion` of the migrations.
