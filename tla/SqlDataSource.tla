----------------------------- MODULE SqlDataSource -----------------------------
(***************************************************************************)
(* The SQL data source (data_source/sql.rs): four tables of a Postgres     *)
(* database, changed through one connection in one transaction that stays  *)
(* open from the first change to `commit` or `revert`, and two buffered    *)
(* channels that announce leaves and blocks to subscribers when the        *)
(* transaction commits.                                                    *)
(*                                                                         *)
(* Of Postgres (external) the module has what the code relies on: a        *)
(* statement checks the keys of migrations/V10__init_schema.sql; one that  *)
(* fails in a transaction aborts it, and from then on every statement is   *)
(* refused; the COMMIT of an aborted transaction rolls it back, and does   *)
(* not fail; what is not committed when the connection ends is lost.       *)
(***************************************************************************)
EXTENDS DecideEvents, BufferedChannel, SequencesExt

CONSTANTS
  Width,              \* the number of bits of a usize and of a bigint, 64 in the code
  MaxPending,         \* bound: updates leave at most so many leaves uncommitted
  Redelivery,         \* whether decide events may overlap or repeat
  StatementFailures,  \* whether a statement may fail that violates no key
  ConnectionFailures, \* whether the connection may be lost
  MaxSubscriptions,   \* bound: most subscriptions to one connection
  MaxMisled           \* bound: most commits that announce to a subscriber what they roll back

\* The heights of a ledger are far below what a bigint can hold.
ASSUME WidthAssumption == Width \in Nat \ {0} /\ MaxHeight < 2^(Width - 1)

\* What stands for no stream is no stream, a missing block is not a block, and that
\* there is no row is told from both.
ASSUME StreamAssumption == NoStream \notin Seq(Heights \cup {Missing}) /\ Missing \notin Heights
ASSUME ErrorAssumption  == NotFound \notin Heights \cup {Missing}

ASSUME BoundsAssumption   == MaxPending \in Nat /\ MaxSubscriptions \in Nat /\ MaxMisled \in Nat
ASSUME FailuresAssumption == { Redelivery, StatementFailures, ConnectionFailures } \subseteq BOOLEAN

VARIABLES
  db,    \* the committed tables
  ds,    \* the data source and the server's side of its connection
  asked  \* history: the subscriptions since the last `connect`

vars == << db, ds, asked >>

-----------------------------------------------------------------------------
(* The tables *)

\* The heights of the rows of three tables, of the payload rows whose data is
\* not NULL, and the rows of the transaction table in the order of their ids.
Tables ==
  [ header : SUBSET Heights, payload : SUBSET Heights, leaf : SUBSET Heights,
    data : SUBSET Heights,
    transaction : Seq([ hash : Transactions, block_height : Heights, index : Nat ]) ]

EmptyTables ==
  [ header |-> {}, payload |-> {}, leaf |-> {}, data |-> {}, transaction |-> << >> ]

\* Mutant: the transactions are listed from the last to the first.
TransactionRowsReversed(h) ==
  Reverse([ i \in DOMAIN Payload[h] |-> [ hash |-> Payload[h][i], block_height |-> h, index |-> i ] ])

\* The rows that `insert_block` makes of the transactions of a block.
TransactionRows(h) ==
  [ i \in DOMAIN Payload[h] |-> [ hash |-> Payload[h][i], block_height |-> h, index |-> i ] ]

\* Mutant: inserting is ON CONFLICT DO UPDATE.
ExecuteUpserting(t, statement, h) ==
  CASE statement = "insert header"  -> { [ t EXCEPT !.header = @ \cup {h} ] }
    [] statement = "insert payload" -> { [ t EXCEPT !.payload = @ \cup {h}, !.data = @ \ {h} ] }
    [] statement = "insert leaf"    -> { [ t EXCEPT !.leaf = @ \cup {h} ] }
    [] statement = "update payload" -> { [ t EXCEPT !.data = @ \cup (t.payload \cap {h}) ] }
    [] statement = "insert transactions" -> { [ t EXCEPT !.transaction = @ \o TransactionRows(h) ] }

\* The tables after a statement: none if it violates a key.
Execute(t, statement, h) ==
  CASE statement = "insert header" ->
         { [ t EXCEPT !.header = @ \cup {h} ] : x \in {h} \ t.header }
    [] statement = "insert payload" ->
         { [ t EXCEPT !.payload = @ \cup {h} ] : x \in (t.header \cap {h}) \ t.payload }
    [] statement = "insert leaf" ->
         { [ t EXCEPT !.leaf = @ \cup {h} ] : x \in (t.header \cap {h}) \ t.leaf }
    [] statement = "update payload" ->
         { [ t EXCEPT !.data = @ \cup (t.payload \cap {h}) ] }
    [] statement = "insert transactions" ->
         { [ t EXCEPT !.transaction = @ \o TransactionRows(h) ] : x \in t.header \cap {h} }

\* `execute_many`: one statement after the other, up to the first that fails.
ExecuteMany(t, statements, h) ==
  FoldLeft(LAMBDA acc, s : UNION { Execute(u, s, h) : u \in acc }, {t}, statements)

\* Mutant: no payload row is made with the leaf.
LeafStatementsWithoutPayload == << "insert header", "insert leaf" >>

LeafStatements == << "insert header", "insert payload", "insert leaf" >>

BlockStatements(h) ==
  << "update payload" >> \o IF Payload[h] = << >> THEN << >> ELSE << "insert transactions" >>

-----------------------------------------------------------------------------
(* The data source *)

\* `session` is the state of the connection at the server; `tables` is what the
\* connection sees.  In an aborted transaction, and when the connection is lost,
\* it sees nothing, and `tables` is what it saw last.
DataSource ==
  [ tx_in_progress : BOOLEAN,
    session        : {"idle", "open", "aborted", "lost", "none"},
    tables         : Tables,
    leaf_stream    : ChannelType(Heights \cup {Missing}),
    block_stream   : ChannelType(Heights \cup {Missing}) ]

\* A data source just connected to a database, and no data source.
Connected(t) ==
  [ tx_in_progress |-> FALSE, session |-> "idle", tables |-> t,
    leaf_stream |-> NewChannel, block_stream |-> NewChannel ]

Stopped(t) == [ Connected(t) EXCEPT !.session = "none" ]

\* `transaction`: BEGIN, unless a transaction is in progress.
Begin(d) ==
  IF d.tx_in_progress THEN d ELSE [ d EXCEPT !.session = "open", !.tx_in_progress = TRUE ]

Aborted(d) == [ d EXCEPT !.session = "aborted" ]

\* `insert_leaf` and `insert_block`: their statements in the transaction, then a
\* message on their channel.  The session is "open" after a success only.
InsertLeaf(d, h) ==
  LET begun == Begin(d)
      after == ExecuteMany(begun.tables, LeafStatements, h)
  IN  IF begun.session = "open" /\ after # {}
      THEN [ begun EXCEPT !.tables = CHOOSE t \in after : TRUE, !.leaf_stream = Push(@, h) ]
      ELSE Aborted(begun)

InsertBlock(d, h) ==
  LET begun == Begin(d)
      after == ExecuteMany(begun.tables, BlockStatements(h), h)
  IN  IF begun.session = "open" /\ after # {}
      THEN [ begun EXCEPT !.tables = CHOOSE t \in after : TRUE, !.block_stream = Push(@, h) ]
      ELSE Aborted(begun)

\* `update`, for the first n leaves of the event.  After a failure it returns, as
\* does every further insertion into the aborted transaction.
InsertPair(d, e, pair) ==
  LET stored == InsertLeaf(d, pair.leaf)
  IN  IF pair.leaf \in e.payloads THEN InsertBlock(stored, pair.leaf) ELSE stored

InsertPairs(d, e, n) ==
  FoldLeft(LAMBDA acc, pair : InsertPair(acc, e, pair), d, SubSeq(UpdatePairs(e), 1, n))

UpdateFrom(d, e) == InsertPairs(d, e, Len(UpdatePairs(e)))

\* `update` when a statement fails that violates no key: one of the statements of
\* the leaf after the first n, or of its block.
FailedUpdates(d, e) ==
  UNION { LET before == InsertPairs(d, e, n)
              h      == e.first + n
          IN  { Aborted(Begin(before)) } \cup
              IF h \in e.payloads THEN { Aborted(InsertLeaf(before, h)) } ELSE {}
        : n \in 0 .. e.last - e.first }

\* `commit`, when COMMIT does not fail, and `revert`.
Flushed(d) == [ d EXCEPT !.leaf_stream = Flush(@), !.block_stream = Flush(@) ]

Reverted(d, t) ==
  [ d EXCEPT !.session = IF d.tx_in_progress THEN "idle" ELSE @,
             !.tx_in_progress = FALSE,
             !.tables = IF d.tx_in_progress THEN t ELSE @,
             !.leaf_stream = Clear(@), !.block_stream = Clear(@) ]

\* SELECT max(height) FROM header
BlockHeight(t) == IF t.header = {} THEN 0 ELSE Max(t.header) + 1

\* `insert_genesis`, up to its commit.
InsertGenesis(d) ==
  IF BlockHeight(d.tables) = 0 THEN InsertBlock(InsertLeaf(d, Genesis), Genesis) ELSE d

\* What is remembered of a subscription: the height asked for, the tables that the
\* data source saw and those that were committed, and how many commits have since
\* announced what they rolled back.
Subscription ==
  [ stream : {"leaves", "blocks"}, client : Clients, from : Heights,
    seen : Tables, kept : Tables, misled : Nat ]

-----------------------------------------------------------------------------
(* Queries *)

\* A usize as the parameter of a query: `as i64`.  From the limit on it is negative.
BigintLimit == 2^(Width - 1)
Usize       == 0 .. 2 * BigintLimit - 1
Bigint(n)   == IF n < BigintLimit THEN n ELSE n - 2 * BigintLimit

GetLeaf(t, n) == IF Bigint(n) \in t.leaf THEN n ELSE NotFound

\* Mutant: a payload that is not there yet is an unknown block.
BlockUnknown(t, h) == IF h \in t.data THEN h ELSE NotFound

\* What `parse_block` makes of a row of header JOIN payload.
Block(t, h) == IF h \in t.data THEN h ELSE Missing

BlockRows(t) == t.header \cap t.payload

GetBlock(t, n) == IF Bigint(n) \in BlockRows(t) THEN Block(t, n) ELSE NotFound

\* ORDER BY h.height LIMIT 1
GetBlockByHash(t, x) ==
  LET rows == { h \in BlockRows(t) : BlockHash[h] = x }
  IN  IF rows = {} THEN NotFound ELSE Block(t, Min(rows))

\* ORDER BY t.id LIMIT 1: the block of the transaction and the place in it.
GetBlockWithTransaction(t, x) ==
  LET ids == { i \in DOMAIN t.transaction :
                 t.transaction[i].hash = x /\ t.transaction[i].block_height \in BlockRows(t) }
  IN  IF ids = {} THEN NotFound
      ELSE LET row == t.transaction[Min(ids)] IN
           IF Block(t, row.block_height) = Missing THEN Missing
           ELSE << row.block_height, row.index >>

Bound == [ kind : {"included", "excluded"}, n : Usize ] \cup { [ kind |-> "unbounded" ] }

\* Mutant: an excluded start is included.
WhereClauseIncluding(h, start, end) ==
  /\ start.kind # "unbounded" => h >= Bigint(start.n)
  /\ end.kind = "included" => h <= Bigint(end.n)
  /\ end.kind = "excluded" => h < Bigint(end.n)

\* `bounds_to_where_clause`: whether a row of height h satisfies the clause.
WhereClause(h, start, end) ==
  /\ start.kind = "included" => h >= Bigint(start.n)
  /\ start.kind = "excluded" => h > Bigint(start.n)
  /\ end.kind = "included" => h <= Bigint(end.n)
  /\ end.kind = "excluded" => h < Bigint(end.n)

\* ORDER BY height ASC: the i-th row is the one with i - 1 below it.
Ascending(rows) ==
  [ i \in 1 .. Cardinality(rows) |-> CHOOSE h \in rows : Cardinality({ g \in rows : g < h }) = i - 1 ]

GetLeafRange(t, start, end) == Ascending({ h \in t.leaf : WhereClause(h, start, end) })

GetBlockRange(t, start, end) ==
  LET rows == Ascending({ h \in BlockRows(t) : WhereClause(h, start, end) })
  IN  [ i \in DOMAIN rows |-> Block(t, rows[i]) ]

\* The rows there are when a subscription to the heights from .. begins.
From(n)          == [ kind |-> "included", n |-> n ]
Unbounded        == [ kind |-> "unbounded" ]
LeavesFrom(t, n) == GetLeafRange(t, From(n), Unbounded)
BlocksFrom(t, n) == GetBlockRange(t, From(n), Unbounded)

\* The rows of a proposer: SELECT count( * ), and SELECT without an order, which
\* may answer in any.
ProposalRows(t, p)   == { h \in t.leaf : Proposer[h] = p }
CountProposals(t, p) == Cardinality(ProposalRows(t, p))
GetProposals(t, p)   == SetToSeqs(ProposalRows(t, p))

\* Mutant: the oldest rows are selected.
GetLatestProposalsOldest(t, p, limit) ==
  LET ascending == Ascending(ProposalRows(t, p))
  IN  IF limit < BigintLimit THEN SubSeq(ascending, 1, Min({limit, Len(ascending)})) ELSE "error"

\* ORDER BY height DESC limit ..., which has to be a bigint; then reversed.
GetLatestProposals(t, p, limit) ==
  LET descending == Reverse(Ascending(ProposalRows(t, p)))
  IN  IF limit < BigintLimit THEN Reverse(SubSeq(descending, 1, Min({limit, Len(descending)})))
      ELSE "error"

-----------------------------------------------------------------------------
(* Behaviour *)

Usable == ds.session \in {"idle", "open", "aborted"}

Init == db = EmptyTables /\ ds = Stopped(EmptyTables) /\ asked = {}

\* `connect`, by a new process or one that stops: what was not committed is lost,
\* subscribers too; the genesis objects are inserted and committed if there is no
\* block at all.
Connect ==
  LET opened == InsertGenesis(Connected(db))
  IN  /\ db' = opened.tables
      /\ ds' = Flushed([ opened EXCEPT !.tx_in_progress = FALSE, !.session = "idle" ])
      /\ asked' = {}

\* `connect`, when inserting or committing the genesis objects fails.
ConnectFails ==
  /\ ConnectionFailures
  /\ db' \in { db, InsertGenesis(Connected(db)).tables }
  /\ ds' = Stopped(db')
  /\ asked' = {}

\* The events the data source may be updated with.
MayHappen(e) ==
  /\ IF Redelivery THEN e.first <= BlockHeight(ds.tables) ELSE e.first = BlockHeight(ds.tables)
  /\ Cardinality((ds.tables.leaf \cup e.first .. e.last) \ db.leaf) <= MaxPending

\* Mutant: no transaction is begun, so that every statement commits.
UpdateAutocommits(e) ==
  /\ Usable
  /\ MayHappen(e)
  /\ ds' = [ UpdateFrom(ds, e) EXCEPT !.session = "idle", !.tx_in_progress = FALSE ]
  /\ db' = ds'.tables
  /\ UNCHANGED asked

Update(e) ==
  /\ Usable
  /\ MayHappen(e)
  /\ ds' = UpdateFrom(ds, e)
  /\ UNCHANGED << db, asked >>

UpdateFails(e) ==
  /\ StatementFailures
  /\ Usable
  /\ MayHappen(e)
  /\ ds' \in FailedUpdates(ds, e)
  /\ UNCHANGED << db, asked >>

\* An application's own statement, through `transaction`: it may fail, and if not it
\* changes none of these tables.
ExecuteCustom ==
  /\ Usable
  /\ \/ ds' = Begin(ds)
     \/ StatementFailures /\ ds' = Aborted(Begin(ds))
  /\ UNCHANGED << db, asked >>

\* Whether a commit announces what it rolls back, and the history after a commit.
Misleads ==
  /\ ds.session = "aborted"
  /\ << ds.leaf_stream.pending, ds.block_stream.pending >> # << << >>, << >> >>

Remembered == IF Misleads THEN { [ sub EXCEPT !.misled = @ + 1 ] : sub \in asked } ELSE asked

MayCommit == Usable /\ (Misleads => \A sub \in asked : sub.misled < MaxMisled)

\* Mutant: the channels are not flushed.
CommitWithoutFlush ==
  /\ MayCommit
  /\ db' = IF ds.session = "open" THEN ds.tables ELSE db
  /\ ds' = [ ds EXCEPT !.tx_in_progress = FALSE, !.session = "idle", !.tables = db' ]
  /\ asked' = Remembered

\* `commit`: COMMIT if a transaction is in progress (of an aborted one: ROLLBACK),
\* then the channels are flushed.
Commit ==
  /\ MayCommit
  /\ db' = IF ds.session = "open" THEN ds.tables ELSE db
  /\ ds' = Flushed([ ds EXCEPT !.tx_in_progress = FALSE, !.session = "idle", !.tables = db' ])
  /\ asked' = Remembered

\* The connection ends.  When it does so during COMMIT, which then fails, the
\* transaction may have been committed.
LoseConnection ==
  /\ ConnectionFailures
  /\ Usable
  /\ ds' = [ ds EXCEPT !.session = "lost" ]
  /\ UNCHANGED << db, asked >>

CommitFails ==
  /\ ConnectionFailures
  /\ ds.session = "open"
  /\ db' \in { db, ds.tables }
  /\ ds' = [ ds EXCEPT !.session = "lost" ]
  /\ UNCHANGED asked

\* `revert`, which panics if a transaction cannot be rolled back.
Revert ==
  /\ Usable
  /\ ds' = Reverted(ds, db)
  /\ UNCHANGED << db, asked >>

RevertPanics ==
  /\ ds.session = "lost" /\ ds.tx_in_progress
  /\ ds' = Stopped(db)
  /\ asked' = {}
  /\ UNCHANGED db

\* `subscribe_leaves` and `subscribe_blocks`: the rows there are, then what is
\* flushed from now on.  The queries fail in an aborted transaction.
MaySubscribe == ds.session \in {"idle", "open"} /\ Cardinality(asked) < MaxSubscriptions

SubscriptionNow(stream, c, from) ==
  [ stream |-> stream, client |-> c, from |-> from,
    seen |-> ds.tables, kept |-> db, misled |-> 0 ]

SubscribeLeaves(c, from) ==
  /\ MaySubscribe
  /\ ds.leaf_stream.received[c] = NoStream
  /\ ds' = [ ds EXCEPT !.leaf_stream = Subscribed(@, c, LeavesFrom(ds.tables, from)) ]
  /\ asked' = asked \cup { SubscriptionNow("leaves", c, from) }
  /\ UNCHANGED db

SubscribeBlocks(c, from) ==
  /\ MaySubscribe
  /\ ds.block_stream.received[c] = NoStream
  /\ ds' = [ ds EXCEPT !.block_stream = Subscribed(@, c, BlocksFrom(ds.tables, from)) ]
  /\ asked' = asked \cup { SubscriptionNow("blocks", c, from) }
  /\ UNCHANGED db

Next ==
  \/ Connect \/ ConnectFails
  \/ \E e \in Event : Update(e) \/ UpdateFails(e)
  \/ ExecuteCustom
  \/ Commit \/ CommitFails \/ LoseConnection
  \/ Revert \/ RevertPanics
  \/ \E c \in Clients, from \in Heights : SubscribeLeaves(c, from) \/ SubscribeBlocks(c, from)

Spec == Init /\ [][Next]_vars

-----------------------------------------------------------------------------
(* Properties *)

TypeOK ==
  /\ db \in Tables
  /\ ds \in DataSource
  /\ asked \subseteq Subscription

\* The tables agree, on storage and in the open transaction, whatever statement or
\* commit failed before: each leaf has its header and its payload row, the rows of
\* the transaction table are those of the payloads that are there, and there are
\* tables without the genesis objects only before the first one.
TablesAgree ==
  \A t \in {db, ds.tables} :
    /\ t.leaf = t.header /\ t.payload = t.header
    /\ t.data \subseteq t.payload
    /\ \A h \in Heights :
         { row \in Range(t.transaction) : row.block_height = h }
           = IF h \in t.data THEN Range(TransactionRows(h)) ELSE {}
    /\ t # EmptyTables => 0 \in t.leaf \cap t.data

\* What the channels still have to announce is what the transaction in progress
\* has inserted and not yet committed: `tx_in_progress` is true of the server, and
\* no way out of a transaction leaves messages of it behind.
BuffersMatchTransaction ==
  Usable =>
    /\ ds.tx_in_progress <=> ds.session \in {"open", "aborted"}
    /\ ds.leaf_stream.pending  = Ascending(ds.tables.leaf \ db.leaf)
    /\ ds.block_stream.pending = Ascending(ds.tables.data \ db.data)

\* The channel of a subscription and what was received from it, the rows that its
\* stream is about, and those that a query yields when it begins.
Channel(d, sub)  == IF sub.stream = "leaves" THEN d.leaf_stream ELSE d.block_stream
Received(d, sub) == Channel(d, sub).received[sub.client]
Rows(t, sub)     == IF sub.stream = "leaves" THEN t.leaf ELSE t.data
RowsFrom(t, sub) == IF sub.stream = "leaves" THEN LeavesFrom(t, sub.from) ELSE BlocksFrom(t, sub.from)

\* What a subscriber should receive until the tables t are committed: the rows its
\* query saw, and after them those committed since.
Promised(t, sub) == RowsFrom(sub.seen, sub) \o Ascending(Rows(t, sub) \ Rows(sub.kept, sub))

\* The rows of t from the height asked for on, in order and none twice; among them
\* there may be blocks whose payload was missing.
GivesAll(t, sub, got) ==
  /\ Range(got) \ {Missing} = { h \in Rows(t, sub) : h >= sub.from }
  /\ \A i, j \in DOMAIN got : i < j /\ Missing \notin {got[i], got[j]} => got[i] < got[j]

\* Whenever it subscribed and whatever it asked for, a subscriber misses nothing that
\* is committed from that height on, as long as the connection stands.  Unless the
\* COMMIT of an aborted transaction announced what it rolled back, it receives what
\* is promised and nothing else, and no more than that when the connection is lost.
\* If it asked for a height up to the block height while nothing was uncommitted,
\* that is each object from the height on, in order, once.
StreamsFollowDatabase ==
  \A sub \in asked :
    LET got == Received(ds, sub)
    IN  /\ Usable => { h \in Rows(db, sub) : h >= sub.from } \subseteq Range(got)
        /\ sub.misled = 0 => IF Usable THEN got = Promised(db, sub) ELSE IsPrefix(got, Promised(db, sub))
        /\ Usable /\ sub.misled = 0 /\ sub.seen = sub.kept /\ sub.from <= BlockHeight(sub.kept)
             => GivesAll(db, sub, got)

\* A committed leaf or payload is never removed, and a query of a connection that
\* works finds it, with or without an open transaction.
CommittedStays ==
  [][ /\ db.leaf \subseteq db'.leaf
      /\ db.data \subseteq db'.data
      /\ IsPrefix(db.transaction, db'.transaction)
      /\ ds'.session \in {"idle", "open"} =>
           \A h \in Heights : /\ h \in db.leaf => GetLeaf(ds'.tables, h) = h
                              /\ h \in db.data => GetBlock(ds'.tables, h) = h ]_vars

\* A transaction is found at its first place in the ledger, among the blocks whose
\* payload is known: the first row of the table is the first in the ledger.
FirstIsFound ==
  \A x \in Transactions :
    LET places == UNION { { << h, i >> : i \in { j \in DOMAIN Payload[h] : Payload[h][j] = x } } :
                      h \in ds.tables.data }
    IN  GetBlockWithTransaction(ds.tables, x) =
          IF places = {} THEN NotFound
          ELSE CHOOSE p \in places : \A q \in places : p = q \/ PlaceBefore(p, q)

\* A range query yields what the queries by number answer, in order, as far as its
\* bounds are bigints: the answer to a number is at the place of the number among
\* those answered, and there is nothing else.  (A start that is none is negative, and
\* the range begins at the genesis; a query by such a number finds nothing.)
RangesMatchQueries ==
  \A start, end \in Bound :
    (\A bound \in {start, end} : bound.kind # "unbounded" => bound.n < BigintLimit) =>
    LET inside == { n \in Usize : /\ start.kind = "included" => n >= start.n
                                  /\ start.kind = "excluded" => n > start.n
                                  /\ end.kind = "included" => n <= end.n
                                  /\ end.kind = "excluded" => n < end.n }
        leaves == { n \in inside : GetLeaf(ds.tables, n) # NotFound }
        blocks == { n \in inside : GetBlock(ds.tables, n) # NotFound }
        leaf   == GetLeafRange(ds.tables, start, end)
        block  == GetBlockRange(ds.tables, start, end)
        place(n, numbers) == Cardinality({ m \in numbers : m < n }) + 1
    IN  /\ DOMAIN leaf  = 1 .. Cardinality(leaves)
        /\ \A n \in leaves : leaf[place(n, leaves)] = GetLeaf(ds.tables, n)
        /\ DOMAIN block = 1 .. Cardinality(blocks)
        /\ \A n \in blocks : block[place(n, blocks)] = GetBlock(ds.tables, n)

\* In whatever order the query without a limit yields the proposals of a proposer,
\* the one with a limit yields the highest of them, ascending: as many as there are
\* or as the limit allows, and all others are below.  (That all of them come ascending
\* too, and end with these, as the test data_source.rs:149-167 has it, is not so: the
\* query without a limit has no ORDER BY.)
LatestProposalsAreLast ==
  \A p \in { Proposer[h] : h \in Heights } : \A limit \in 0 .. BigintLimit - 1 :
    LET latest == GetLatestProposals(ds.tables, p, limit)
    IN  /\ \A i, j \in DOMAIN latest : i < j => latest[i] < latest[j]
        /\ Len(latest) = Min({limit, CountProposals(ds.tables, p)})
        /\ \A all \in GetProposals(ds.tables, p) :
             /\ Len(all) = CountProposals(ds.tables, p)
             /\ Range(latest) \subseteq Range(all)
             /\ \A h \in Range(all) \ Range(latest) : \A i \in DOMAIN latest : h < latest[i]

\* The data source is a versioned data source; in an aborted transaction, which
\* answers no query, it is taken to show what it showed last.
Visible(t) ==
  { << "leaf", h >> : h \in t.leaf } \cup { << "block", h >> : h \in t.data }

Versions == INSTANCE VersionedStore WITH
  Objects <- {"leaf", "block"} \X Heights,
  Base    <- {"leaf", "block"} \X {0},
  current <- IF ds.session = "none" THEN Visible(db) \cup {"leaf", "block"} \X {0}
             ELSE Visible(ds.tables),
  saved   <- Visible(db)

ImplementsVersionedStore == Versions!Spec
=============================================================================
