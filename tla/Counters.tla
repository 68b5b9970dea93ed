------------------------------ MODULE Counters ------------------------------
(***************************************************************************)
(* The counters of MetricsCollector (core/metrics/collector.cpp) and of    *)
(* ShardedMetricsCollector (core/metrics/sharded_collector.cpp): writers   *)
(* in record_request(), one reader in snapshot(), and reset(), one atomic  *)
(* access at a time.                                                       *)
(*                                                                         *)
(* The two differ in the number of shards, in the latency sum, which wraps *)
(* around or saturates, and in where the samples go: the ring of the first *)
(* is MetricsRing.tla, the locked one of the second is here.  The byte     *)
(* counters and the window of requests_per_second() behave like the        *)
(* request counter and the maximum like the minimum; they are left out.    *)
(* All accesses are relaxed, and no property relates two counters while    *)
(* they change: a behaviour follows the reader through one field, and      *)
(* reset() clears the fields of a shard at once.                           *)
(***************************************************************************)
EXTENDS Integers, Sequences, FiniteSetsExt, Functions

CONSTANTS
  Writers,
  Requests,             \* what may be recorded: [ok, lat]
  MaxShards,            \* num_shards_ is up to this
  SumLimit,             \* UINT64_MAX
  kMaxLatencySamples,
  MaxRecords,           \* bound: requests recorded, by the number of shards
  MaxResets             \* bound: calls of reset()

VARIABLES
  kind,        \* single or sharded
  num_shards,
  field,       \* the counter the reader is followed through
  shards,      \* the counters of each shard
  samples,     \* of the sharded collector: [at, head, count]
  index,       \* t_shard_index, 0 before it is assigned
  next_shard,  \* s_next_shard
  pc, request, cur,      \* of each writer: its next access, what it records, what it loaded
  rpos, read, oldest,    \* of the reader: its next access, its sums, the counters when it began
  rstep, resets,         \* of reset(): its next access, how often it began
  recorded,    \* history: by shard, what an exact count of the requests begun would be
  pushed       \* history: the samples since the last reset

collector  == <<shards, samples>>
writerVars == <<index, next_shard, pc, request, cur>>
readerVars == <<rpos, read, oldest>>
resetVars  == <<rstep, resets>>
history    == <<recorded, pushed>>
config     == <<kind, num_shards, field>>
countVars  == <<config, collector, writerVars, readerVars, resetVars, history>>

Shards == 1 .. num_shards
Counts == {"requests", "successful", "failed"}

NoMin == SumLimit + 1      \* INT64_MAX
Cleared == [requests |-> 0, successful |-> 0, failed |-> 0, sum |-> 0, min |-> NoMin]
Idle    == [ok |-> TRUE, lat |-> 0]

Init ==
  /\ kind \in {"single", "sharded"}
  /\ field \in {"requests", "failed"}
  /\ num_shards \in IF kind = "single" THEN {1} ELSE 1 .. MaxShards
  /\ shards = [s \in Shards |-> Cleared]
  /\ samples = [at |-> [i \in 0 .. kMaxLatencySamples - 1 |-> 0], head |-> 0, count |-> 0]
  /\ index = [w \in Writers |-> 0] /\ next_shard = 0
  /\ pc = [w \in Writers |-> "idle"]
  /\ request = [w \in Writers |-> Idle] /\ cur = [w \in Writers |-> 0]
  /\ rpos = 0 /\ read = 0 /\ oldest = 0
  /\ rstep = 0 /\ resets = 0
  /\ recorded = [s \in Shards |-> Cleared] /\ pushed = <<>>

Total(c, f) == SumFunction([s \in Shards |-> c[s][f]])
Lower(a, b) == IF a < b THEN a ELSE b
Upper(a, b) == IF a > b THEN a ELSE b

-----------------------------------------------------------------------------
(* record_request() *)

(* Adding r to an exact count c, of which only the counts matter once      *)
(* there was a reset.                                                      *)
Exactly(c, r) ==
  LET counted == [c EXCEPT !.requests = @ + 1, !.successful = IF r.ok THEN @ + 1 ELSE @,
                           !.failed = IF r.ok THEN @ ELSE @ + 1]
  IN  IF resets > 0 THEN counted
      ELSE [counted EXCEPT !.sum = @ + r.lat, !.min = Lower(@, r.lat)]

(* A thread is given its shard when it first records. *)
get_shard_index(w) ==
  IF index[w] # 0 THEN UNCHANGED <<index, next_shard>>
  ELSE /\ index' = [index EXCEPT ![w] = (next_shard % num_shards) + 1]
       /\ next_shard' = next_shard + 1

(* An access of w to its shard: the new counters, the next access and what *)
(* it has in hand.                                                         *)
Access(w, c, next, loaded) ==
  /\ shards' = [shards EXCEPT ![index[w]] = c]
  /\ pc' = [pc EXCEPT ![w] = next]
  /\ cur' = [cur EXCEPT ![w] = loaded]
  /\ request' = IF next = "idle" THEN [request EXCEPT ![w] = Idle] ELSE request
  /\ UNCHANGED <<config, samples, index, next_shard, readerVars, resetVars, history>>

(* The first access counts the request. *)
CountRequest(w, r) ==
  /\ pc[w] = "idle" /\ Total(recorded, "requests") < MaxRecords[num_shards]
  /\ get_shard_index(w)
  /\ recorded' = [recorded EXCEPT ![index'[w]] = Exactly(@, r)]
  /\ shards' = [shards EXCEPT ![index'[w]].requests = @ + 1]
  /\ pc' = [pc EXCEPT ![w] = "sum"]
  /\ request' = [request EXCEPT ![w] = r]
  /\ UNCHANGED <<config, samples, cur, readerVars, resetVars, pushed>>

(* fetch_add of the single collector; a load in the sharded one, which     *)
(* leaves out what is not positive.                                        *)
AddLatency(w) ==
  LET c == shards[index[w]] IN
  /\ pc[w] = "sum"
  /\ CASE kind = "single" -> Access(w, [c EXCEPT !.sum = (@ + request[w].lat) % (SumLimit + 1)], "outcome", 0)
       [] kind = "sharded" /\ request[w].lat = 0 -> Access(w, c, "outcome", 0)
       [] OTHER -> Access(w, c, "sum_cas", c.sum)

(* Mutant: the new sum is stored without looking at the old one. *)
StoreLatency(w) ==
  LET c == shards[index[w]] IN
  /\ pc[w] = "sum_cas"
  /\ Access(w, [c EXCEPT !.sum = Lower(cur[w] + request[w].lat, SumLimit)], "outcome", 0)

(* One round of the loop around compare_exchange, which saturates. *)
SaturateLatency(w) ==
  LET c == shards[index[w]] IN
  /\ pc[w] = "sum_cas"
  /\ CASE cur[w] > SumLimit - request[w].lat -> Access(w, [c EXCEPT !.sum = SumLimit], "outcome", 0)
       [] cur[w] <= SumLimit - request[w].lat /\ c.sum = cur[w] ->
            Access(w, [c EXCEPT !.sum = @ + request[w].lat], "outcome", 0)
       [] OTHER -> Access(w, c, "sum_cas", c.sum)

CountOutcome(w) ==
  LET c == shards[index[w]] IN
  /\ pc[w] = "outcome"
  /\ Access(w, IF request[w].ok THEN [c EXCEPT !.successful = @ + 1] ELSE [c EXCEPT !.failed = @ + 1], "min", 0)

(* The load of the minimum and one round of its loop. *)
LoadMin(w) ==
  LET c == shards[index[w]] IN
  /\ pc[w] = "min"
  /\ Access(w, c, "min_cas", c.min)

AfterMin == IF kind = "single" THEN "idle" ELSE "sample"

LowerMin(w) ==
  LET c == shards[index[w]]
      lat == request[w].lat
  IN
  /\ pc[w] = "min_cas"
  /\ CASE lat >= cur[w]                    -> Access(w, c, AfterMin, 0)
       [] lat < cur[w] /\ c.min = cur[w]   -> Access(w, [c EXCEPT !.min = lat], AfterMin, 0)
       [] OTHER                            -> Access(w, c, "min_cas", c.min)

(* The sample, under samples_mtx_. *)
PushSample(w) ==
  /\ pc[w] = "sample"
  /\ samples' = [at    |-> [samples.at EXCEPT ![samples.head] = request[w].lat],
                 head  |-> (samples.head + 1) % kMaxLatencySamples,
                 count |-> Lower(samples.count + 1, kMaxLatencySamples)]
  /\ pushed' = Append(pushed, request[w].lat)
  /\ pc' = [pc EXCEPT ![w] = "idle"]
  /\ request' = [request EXCEPT ![w] = Idle]
  /\ UNCHANGED <<config, shards, index, next_shard, cur, readerVars, resetVars, recorded>>

record_request(w) ==
  \/ \E r \in Requests : CountRequest(w, r)
  \/ AddLatency(w) \/ SaturateLatency(w) \/ CountOutcome(w)
  \/ LoadMin(w) \/ LowerMin(w) \/ PushSample(w)

-----------------------------------------------------------------------------
(* snapshot(): the counter, shard by shard. *)
BeginSnapshot ==
  /\ rpos = 0
  /\ rpos' = 1 /\ read' = 0
  /\ oldest' = Total(shards, field)
  /\ UNCHANGED <<config, collector, writerVars, resetVars, history>>

ReadCounter ==
  /\ rpos \in Shards
  /\ read' = read + shards[rpos][field]
  /\ rpos' = rpos + 1
  /\ UNCHANGED <<config, collector, writerVars, oldest, resetVars, history>>

SnapshotRead == rpos = num_shards + 1

(* The samples it copies, under samples_mtx_: the older part of a full     *)
(* ring lies behind the head.                                              *)
CopiedSamples ==
  LET Part(a, b) == [i \in 1 .. b - a |-> samples.at[a + i - 1]] IN
  IF samples.count = kMaxLatencySamples
  THEN Part(samples.head, kMaxLatencySamples) \o Part(0, samples.head)
  ELSE Part(0, samples.count)

(* Mutant: the sharded index is rounded down. *)
IndexRoundedDown(n, p) == ((n * p) \div 100) - 1

(* The places of the percentiles among n sorted samples, from 0: of        *)
(* percentile() and of the sharded snapshot.                               *)
PercentileIndex(n, p) == Lower((n * p) \div 100, n - 1)
ShardedIndex(n, p) == ((n * p + 99) \div 100) - 1

EndSnapshot ==
  /\ SnapshotRead
  /\ rpos' = 0 /\ read' = 0 /\ oldest' = 0
  /\ UNCHANGED <<config, collector, writerVars, resetVars, history>>

-----------------------------------------------------------------------------
(* reset(): the shards one after the other, then the samples under     *)
(* their lock.                                                             *)
BeginReset ==
  /\ rstep = 0 /\ resets < MaxResets
  /\ rstep' = 1 /\ resets' = resets + 1
  /\ recorded' = [s \in Shards |-> [recorded[s] EXCEPT !.sum = 0, !.min = 0]]
  /\ UNCHANGED <<config, collector, writerVars, readerVars, pushed>>

ResetCounters ==
  /\ rstep \in Shards
  /\ shards' = [shards EXCEPT ![rstep] = Cleared]
  /\ rstep' = IF kind = "single" THEN 0 ELSE rstep + 1
  /\ UNCHANGED <<config, samples, writerVars, readerVars, resets, history>>

ResetSamples ==
  /\ rstep = num_shards + 1
  /\ samples' = [samples EXCEPT !.head = 0, !.count = 0]
  /\ pushed' = <<>>
  /\ rstep' = 0
  /\ UNCHANGED <<config, shards, writerVars, readerVars, resets, recorded>>

reset == BeginReset \/ ResetCounters \/ ResetSamples
=============================================================================
