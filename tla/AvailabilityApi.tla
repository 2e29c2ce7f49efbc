--------------------------- MODULE AvailabilityApi ---------------------------
(***************************************************************************)
(* The routes of the availability and status APIs (availability.rs,        *)
(* status.rs) over the file system data source: each turns a request into  *)
(* queries and their results into an answer.                               *)
(***************************************************************************)
EXTENDS FileSystemOps

\* A transaction is told from none.
ASSUME TransactionsAssumption == None \notin Transactions

OK(body) == [ status |-> 200, body |-> body ]
Fails(status) == [ status |-> status, body |-> << >> ]

\* A handler that panics answers nothing.
Panic == [ status |-> 0, body |-> << >> ]

\* `QueryError::status`: an object that is not found or missing is a 404.
Answer(result) == IF result \in {NotFound, Missing} THEN Fails(404) ELSE OK(result)

-----------------------------------------------------------------------------
(* The payload of a block (QueryablePayload), whose indices are the places of  *)
(* its transactions.                                                           *)

\* What an implementation gives: `iter` and `transaction_with_proof` (with no proof).
TransactionIndices(h)      == [ i \in DOMAIN Payload[h] |-> i ]
TransactionWithProof(h, i) == IF i \in DOMAIN Payload[h] THEN Payload[h][i] ELSE None

\* Mutant: nth checks the bound as if it counted from 1.
NthIndexFromOne(h, n) == IF n <= Len(TransactionIndices(h)) THEN n + 1 ELSE None

\* `nth` and `nth_transaction`, which count from 0 and yield nothing past the end.
NthIndex(h, n) == IF n < Len(TransactionIndices(h)) THEN TransactionIndices(h)[n + 1] ELSE None
NthTransaction(h, n) ==
  IF NthIndex(h, n) = None THEN None ELSE TransactionWithProof(h, NthIndex(h, n))

\* `by_hash` and `transaction_by_hash`: the first index at which it is.
ByHash(h, t) ==
  LET found == { n \in DOMAIN TransactionIndices(h) :
                   TransactionWithProof(h, TransactionIndices(h)[n]) = t }
  IN  IF found = {} THEN None ELSE TransactionIndices(h)[Min(found)]
TransactionByHash(h, t) == IF ByHash(h, t) = None THEN None ELSE TransactionWithProof(h, ByHash(h, t))

-----------------------------------------------------------------------------
(* The routes *)

\* "getleaf", "getblock", "countproposals" and "getproposals".
GetLeafRequest(d, h)        == Answer(GetLeaf(d, h))
GetLeafByHashRequest(d, h)  == Answer(GetLeafByHash(d, h))
GetBlockRequest(d, h)       == Answer(GetBlock(d, h))
GetBlockByHashRequest(d, x) == Answer(GetBlockByHash(d, x))

CountProposalsRequest(d, p)      == OK(CountProposals(d, p))
GetProposalsRequest(d, p, limit) == Answer(GetProposals(d, p, limit))

\* "latest_block_height" of the status API.
HeightRequest(d) == OK(BlockHeight(d))

\* `BlockQueryData::transaction` and the `unwrap` of its result.
TransactionAnswer(h, index) ==
  IF TransactionWithProof(h, index) = None THEN Panic
  ELSE OK([ transaction |-> TransactionWithProof(h, index), height |-> h,
            block_hash |-> BlockHash[h] ])

\* "gettransaction" by hash, and by the height of its block and its index there.
GetTransactionRequest(d, t) ==
  LET found == GetBlockWithTransaction(d, t) IN
  IF found \in {NotFound, Missing} THEN Answer(found) ELSE TransactionAnswer(found[1], found[2])

GetTransactionAtRequest(d, h, n) ==
  IF GetBlock(d, h) \in {NotFound, Missing} THEN Answer(GetBlock(d, h))
  ELSE IF NthIndex(h, n) = None THEN Fails(404) ELSE TransactionAnswer(h, NthIndex(h, n))

\* "streamleaves" and "streamblocks" (and "streamblockheaders", of their headers): a
\* stream that cannot be opened is an internal error; there is no error later on.
StreamRequest(subscription) ==
  IF subscription = Missing THEN Fails(500) ELSE OK(subscription)

StreamLeavesRequest(d, from) == StreamRequest(SubscribeLeaves(d, from))
StreamBlocksRequest(d, from) == StreamRequest(SubscribeBlocks(d, from))
=============================================================================
