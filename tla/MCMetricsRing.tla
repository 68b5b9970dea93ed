---------------------------- MODULE MCMetricsRing ----------------------------
(* Model checking MetricsRing: the values are in the .cfg files. *)
EXTENDS MetricsRing
=============================================================================
