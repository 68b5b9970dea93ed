---------------------------- MODULE MetricsReport ----------------------------
(***************************************************************************)
(* Writers, a reader and reset() on one collector, with the prometheus-cpp *)
(* exporter as the reader of the single one.                               *)
(***************************************************************************)
EXTENDS PrometheusCounters

vars == <<countVars, exporterVars>>

ReportInit == Init /\ ExporterInit

Next ==
  \/ (\E w \in Writers : record_request(w)) /\ UNCHANGED exporterVars
  \/ (ReadCounter \/ reset) /\ UNCHANGED exporterVars
  \/ kind = "sharded" /\ (BeginSnapshot \/ EndSnapshot) /\ UNCHANGED exporterVars
  \/ Start \/ Stop \/ BeginUpdate \/ EndUpdate

Spec == ReportInit /\ [][Next]_vars

-----------------------------------------------------------------------------
TypeOK ==
  /\ \A s \in Shards : /\ \A f \in Counts : shards[s][f] \in 0 .. MaxRecords[num_shards]
                       /\ shards[s].sum \in 0 .. SumLimit
                       /\ shards[s].min \in 0 .. NoMin
  /\ index \in [Writers -> {0} \cup Shards]
  /\ samples.head \in 0 .. kMaxLatencySamples - 1 /\ samples.count \in 0 .. kMaxLatencySamples
  /\ updating => exporting /\ rpos > 0

(* When no thread is in record_request(), nothing that was recorded is     *)
(* missing: the counters and the minimum are exact, and the sum is, up to  *)
(* its width, however the writers interleaved.                             *)
Quiet == \A w \in Writers : pc[w] = "idle"
StoredSum(sum) == IF kind = "single" THEN sum % (SumLimit + 1) ELSE Lower(sum, SumLimit)
QuietExact ==
  Quiet /\ resets = 0 =>
    \A s \in Shards : shards[s] = [recorded[s] EXCEPT !.sum = StoredSum(@)]

(* A snapshot beside running writers is no consistent cut, but none of its *)
(* counters is lower than when it began or higher than when it ended.      *)
SnapshotBounds ==
  SnapshotRead /\ resets = 0 =>
    oldest <= read /\ read <= Total(shards, field)

(* The sharded snapshot copies the most recent samples, oldest first, also *)
(* when the ring has wrapped around or was reset.                          *)
SamplesRecent ==
  kind = "sharded" =>
    CopiedSamples = SubSeq(pushed, Upper(1, Len(pushed) - kMaxLatencySamples + 1), Len(pushed))

(* The three together, in well-typed states: what readers may find in a    *)
(* collector, when the writers are done and while they go on.              *)
CollectorExact == TypeOK /\ QuietExact /\ SnapshotBounds /\ SamplesRecent

(* "Resets may only zero the counters, so the total can never exceed the   *)
(* fixed number of recorded requests, regardless of scheduling"            *)
(* (tests/test_sharded_metrics.cpp); the same for what is exported, though *)
(* a reset shows only as a lower value, or not at all.                     *)
NeverOvercounts ==
  /\ \A f \in Counts : Total(shards, f) <= Total(recorded, f)
  /\ exported <= Total(recorded, field)

(* The index of a percentile lies in the samples; at least p of a hundred  *)
(* samples are at or below the sample there, and in the sharded collector  *)
(* not without it.  The indices of n + 100 samples are those of n and p    *)
(* more.                                                                   *)
Ranks ==
  next_shard = 0 =>
    \A n \in 1 .. 101, p \in {50, 95, 99} :
      LET below(i) == 100 * (i + 1) >= n * p IN
      /\ PercentileIndex(n, p) \in 0 .. n - 1 /\ below(PercentileIndex(n, p))
      /\ ShardedIndex(n, p) \in 0 .. n - 1 /\ below(ShardedIndex(n, p))
      /\ ShardedIndex(n, p) > 0 => ~ below(ShardedIndex(n, p) - 1)
=============================================================================
