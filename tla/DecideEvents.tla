----------------------------- MODULE DecideEvents -----------------------------
(***************************************************************************)
(* The ledger, and the events by which HotShot announces it (the generic   *)
(* `update` of data_source/update.rs, which every data source uses).       *)
(*                                                                         *)
(* The ledger is given: at each height there is one leaf, whose proposer   *)
(* and block hash are known, and one block, whose payload is a sequence of *)
(* transactions.  A leaf's hash is unique, so the leaf, its hash and its   *)
(* height are identified; block hashes and transactions may repeat.        *)
(***************************************************************************)
EXTENDS Integers, SequencesExt

CONSTANTS
  NotFound, Missing,  \* the two errors a query answers with (QueryError)
  Proposer,           \* the proposer of the leaf at each height
  BlockHash,          \* the hash of the block at each height
  Payload             \* the transactions of the block at each height

CONSTANTS
  MaxHeight,  \* bound: the ledger has the heights 0 .. MaxHeight
  MaxChain    \* bound: most leaves a decide event announces

Heights      == 0 .. MaxHeight
Proposers    == { Proposer[h]  : h \in Heights }
Hashes       == { BlockHash[h] : h \in Heights }
Transactions == UNION { Range(Payload[h]) : h \in Heights }

ASSUME LedgerAssumption ==
  /\ MaxHeight \in Nat
  /\ \A h \in Heights : h \in DOMAIN Proposer /\ h \in DOMAIN BlockHash /\ h \in DOMAIN Payload
  /\ \A h \in Heights : Payload[h] \in Seq(Range(Payload[h]))

\* The leaf and the block that are there from the beginning.
Genesis == 0

\* The order of places: << height >> of a block, << height, index >> of a transaction.
PlaceBefore(p, q) ==
  \E k \in DOMAIN p : p[k] < q[k] /\ \A j \in 1 .. k - 1 : p[j] = q[j]

\* A decide event announces the leaves first .. last, newest first, with a QC
\* for the newest; `payloads` are the heights whose leaf carries its payload.
\* A QC is identified with the height of the leaf it references.  No event brings
\* the genesis leaf.
Event == { e \in [ first : Heights, last : Heights, payloads : SUBSET Heights ] :
             /\ 0 < e.first /\ e.first <= e.last /\ e.last - e.first < MaxChain
             /\ e.payloads \subseteq e.first .. e.last }

LeafChain(e) == [ i \in 1 .. e.last - e.first + 1 |-> e.last - i + 1 ]
JustifyQC(h) == h - 1

\* `LeafQueryData::new` and `BlockQueryData::new`: an error, on which `update`
\* panics, unless the QC references the leaf.
Consistent(leaf, qc) == qc = leaf

\* Mutants: the oldest QC is not skipped; the leaves are not reversed.
UpdatePairsUnskipped(e) ==
  LET qcs    == Reverse(<< e.last >> \o [ i \in DOMAIN LeafChain(e) |-> JustifyQC(LeafChain(e)[i]) ])
      leaves == Reverse(LeafChain(e))
  IN  [ i \in DOMAIN leaves |-> [ leaf |-> leaves[i], qc |-> qcs[i] ] ]
UpdatePairsNewestFirst(e) ==
  LET qcs == << e.last >> \o [ i \in DOMAIN LeafChain(e) |-> JustifyQC(LeafChain(e)[i]) ]
  IN  [ i \in DOMAIN LeafChain(e) |-> [ leaf |-> LeafChain(e)[i], qc |-> qcs[i] ] ]

\* The leaves of an event in the order they are inserted, each with its QC: the
\* event's QC and the leaves' justify_qc's, reversed, without the oldest.
UpdatePairs(e) ==
  LET qcs    == Reverse(<< e.last >> \o [ i \in DOMAIN LeafChain(e) |-> JustifyQC(LeafChain(e)[i]) ])
      leaves == Reverse(LeafChain(e))
  IN  [ i \in DOMAIN leaves |-> [ leaf |-> leaves[i], qc |-> Tail(qcs)[i] ] ]
=============================================================================
