--------------------------- MODULE MCMetricsReport ---------------------------
(* Model checking MetricsReport: two latencies overflow the sum. *)
EXTENDS MetricsReport, TLC

CONSTANTS w1, w2

MCWriters  == {w1, w2}
MCRequests == {[ok |-> TRUE, lat |-> 2], [ok |-> FALSE, lat |-> 0]}
MCMaxRecords == <<3, 2>>
Symmetry   == Permutations(MCWriters)
=============================================================================
