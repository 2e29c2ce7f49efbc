------------------------------ MODULE StatusApi ------------------------------
(***************************************************************************)
(* The status API (status.rs, status/data_source.rs) over the metrics that *)
(* HotShot keeps in the group "consensus", and the data source that has    *)
(* nothing but these (data_source/metrics.rs).  Requests are answered      *)
(* while tasks create metrics and update them.                             *)
(***************************************************************************)
EXTENDS Metrics

CONSTANTS
  Consensus,  \* the name of the group
  OutstandingTransactions, OutstandingMemorySize, CurrentView, LastSyncedHeight
              \* the names of the gauges that are read

ASSUME StatusAssumption ==
  /\ Consensus \in Segments
  /\ { OutstandingTransactions, OutstandingMemorySize, CurrentView, LastSyncedHeight } \subseteq Names
  /\ "gauge" \in Kinds
  /\ 1 \in Values  \* there is at least one bit

\* `consensus_metrics`; `populate_metrics` is the action Subgroup at the root.
ConsensusMetrics == Resolve(Root, << Consensus >>)

\* The answer that is an internal error.
Fails == None

\* A gauge of consensus: the error when it, or the group, is missing.
ReadGauge(name) ==
  LET handle == IF ConsensusMetrics = None THEN None
                ELSE GetMetric(ConsensusMetrics, "gauge", name)
  IN  IF handle = None THEN Fails ELSE cells[handle].value

\* Mutant: before the first decide event the height is that of no block.
BlockHeightAsSynced == ReadGauge(LastSyncedHeight)

\* `block_height` of MetricsDataSource: 0 is what the gauge begins with, and the
\* genesis block is always there.
BlockHeight ==
  LET synced == ReadGauge(LastSyncedHeight) IN IF synced = 0 THEN 1 ELSE synced

\* `mempool_info` and `success_rate`, each of two reads: during a step of another
\* task, the first may come before it and the second after it.  The rate is a
\* quotient of floating point numbers, here its two parts.
MempoolInfo == << ReadGauge(OutstandingTransactions), ReadGauge(OutstandingMemorySize)' >>
SuccessRate == << BlockHeight', ReadGauge(CurrentView) >>

\* A quotient whose divisor alone is 0; with both 0 it is not a number.
Infinite(rate) == rate[1] # 0 /\ rate[2] = 0

\* Once a gauge of consensus is there, every read of it succeeds, in the middle of a
\* request too, and what is read changes only when that gauge is updated: not when
\* the same metrics are populated again or others of their name are created.  A
\* height is never 0, so that a rate is positive, and infinite while the view is 0 (the
\* test of data_source.rs:387), when it would otherwise be 0 / 0.
StatusStays ==
  [][ LET there(name) == ReadGauge(name) # Fails
          same(name)  == ReadGauge(name)' = ReadGauge(name)
          updated(name) == \E h \in DOMAIN cells :
            /\ cells[h].name = FqName(ConsensusMetrics, name)
            /\ cells'[h].value # cells[h].value
      IN  /\ \A name \in Names : there(name) => same(name) \/ updated(name)
          /\ there(OutstandingTransactions) /\ there(OutstandingMemorySize) =>
               MempoolInfo \in Values \X Values
          /\ there(LastSyncedHeight) /\ there(CurrentView) =>
               /\ SuccessRate \in (Values \ {0}) \X Values
               /\ SuccessRate[2] = 0 => Infinite(SuccessRate) ]_vars
=============================================================================
