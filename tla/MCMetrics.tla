------------------------------ MODULE MCMetrics ------------------------------
(* Metrics and the status API on a small tree: see the README for the bounds. *)
EXTENDS StatusApi, TLC

CONSTANTS t1, t2
MCTasks    == {t1, t2}
MCSymmetry == Permutations(MCTasks)

\* The groups "a", "a_b" and the metrics "c", "b_c": a_b_c is the name of two.
MCSegments == { << "a" >>, << "a", "b" >> }
MCNames    == { << "c" >>, << "b", "c" >> }
\* What the status API reads are two of these gauges, in the group "a".
MCConsensus == << "a" >>
MCCount     == << "c" >>
MCSize      == << "b", "c" >>

MCKinds    == {"counter", "gauge"}
MCAmounts  == {1}
MCDeltas   == {-2, 1}
=============================================================================
