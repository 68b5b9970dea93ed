------------------------- MODULE PrometheusCounters -------------------------
(***************************************************************************)
(* The exporter built on prometheus-cpp                                    *)
(* (core/metrics/prometheus_exporter.cpp): its counters only go up, by the *)
(* difference of two snapshots of the collector.  Latency histogram and    *)
(* gauges are set, not counted, and left out.                              *)
(***************************************************************************)
EXTENDS Counters

CONSTANT MaxStarts   \* bound: how often the exporter is started

VARIABLES
  started,    \* how often it was
  exporting,  \* the counters are registered
  updating,   \* update_metrics() holds mtx_
  last,       \* last_total_, last_successful_ or last_failed_
  exported    \* the value of the registered counter

exporterVars == <<started, exporting, updating, last, exported>>

ExporterInit ==
  /\ started = 0 /\ exporting = FALSE /\ updating = FALSE
  /\ last = 0 /\ exported = 0

(* A new registry has new counters; the last values stay. *)
Start ==
  /\ kind = "single" /\ ~ exporting /\ ~ updating /\ started < MaxStarts
  /\ exporting' = TRUE /\ started' = started + 1
  /\ exported' = 0
  /\ UNCHANGED <<countVars, updating, last>>

Stop ==
  /\ exporting /\ ~ updating
  /\ exporting' = FALSE
  /\ exported' = 0
  /\ UNCHANGED <<countVars, started, updating, last>>

(* update_metrics(): the snapshot is taken under the lock. *)
BeginUpdate ==
  /\ exporting /\ ~ updating
  /\ updating' = TRUE
  /\ BeginSnapshot
  /\ UNCHANGED <<started, exporting, last, exported>>

(* Mutant: a lower value than the last is not seen to come from a reset,   *)
(* and the last one is added.                                              *)
DeltaOfLast == IF read >= last THEN read - last ELSE last

delta_or_reset == IF read >= last THEN read - last ELSE read

EndUpdate ==
  /\ updating
  /\ EndSnapshot
  /\ exported' = exported + delta_or_reset
  /\ last' = read
  /\ updating' = FALSE
  /\ UNCHANGED <<started, exporting>>
=============================================================================
