---------------------------- MODULE MetricsRing ----------------------------
(***************************************************************************)
(* The latency ring of MetricsCollector (core/metrics/collector.cpp): the  *)
(* lock-free push at the end of record_request(), the scan behind          *)
(* snapshot() and percentile(), and the ring half of reset().              *)
(*                                                                         *)
(* Every action is one atomic access of the code.  A sample is named by    *)
(* the ring index its push reserved, so value[c] tells which               *)
(* record_request() call wrote cell c last.                                *)
(***************************************************************************)
EXTENDS Integers, Sequences, FiniteSets

CONSTANTS
  Writers,              \* threads that call record_request()
  kRingCapacity,        \* cells of the ring (1 << 20 in the code)
  kMaxSnapshotSamples,  \* most samples one scan copies (100000 in the code)
  MaxCalls,             \* bound: record_request() calls of a behaviour
  MaxScans,             \* bound: snapshot() calls of a behaviour
  MaxResets             \* bound: reset() calls of a behaviour

ASSUME RingAssumption ==
  /\ kRingCapacity \in Nat \ {0}
  /\ kMaxSnapshotSamples \in 1 .. kRingCapacity
  /\ MaxCalls \in Nat /\ MaxScans \in Nat /\ MaxResets \in Nat

VARIABLES
  head, tail,  \* head_, tail_
  seq, value,  \* the fields of ring_[c]
  pc, t, h,    \* per writer: the next access, and its locals t and h
  calls,       \* record_request() calls so far
  mtx,         \* snapshot_mtx_: "free", "scan" or "reset"
  scan,        \* the thread in collect_ring_samples()
  rst          \* the thread in reset()

ringVars   == <<head, tail, seq, value>>
writerVars == <<pc, t, h, calls>>
vars       == <<head, tail, seq, value, pc, t, h, calls, mtx, scan, rst>>

Cells   == 0 .. kRingCapacity - 1
Cell(i) == i % kRingCapacity

WriterPC == {"idle", "head", "check", "evict", "reload", "reserve", "write", "publish"}

Init ==
  /\ head = 0 /\ tail = 0
  /\ seq = [c \in Cells |-> c]
  /\ value = [c \in Cells |-> -1]
  /\ pc = [w \in Writers |-> "idle"]
  /\ t = [w \in Writers |-> 0]
  /\ h = [w \in Writers |-> 0]
  /\ calls = 0
  /\ mtx = "free"
  /\ scan = [pc |-> "idle", h |-> 0, t |-> 0, start |-> 0, i |-> 0,
             samples |-> <<>>, count |-> 0]
  /\ rst = [pc |-> "idle", i |-> 0, t |-> 0, count |-> 0]

-----------------------------------------------------------------------------
(* record_request(): the push.                                             *)

(* Mutant: the test for a full ring is off by one. *)
LooksFullLate(tt, hh) == tt < hh \/ tt - hh > kRingCapacity

(* Unsigned t - h >= kRingCapacity: a stale t below h wraps to a huge      *)
(* value, so it also counts as a full ring.                                *)
LooksFull(tt, hh) == tt < hh \/ tt - hh >= kRingCapacity

(* The call begins; the push loads tail_. *)
BeginPush(w) ==
  /\ pc[w] = "idle"
  /\ calls < MaxCalls
  /\ calls' = calls + 1
  /\ t' = [t EXCEPT ![w] = tail]
  /\ pc' = [pc EXCEPT ![w] = "head"]
  /\ UNCHANGED <<ringVars, h, mtx, scan, rst>>

(* Load head_ and choose between evicting and reserving. *)
LoadHead(w) ==
  /\ pc[w] = "head"
  /\ h' = [h EXCEPT ![w] = head]
  /\ pc' = [pc EXCEPT ![w] = IF LooksFull(t[w], head) THEN "check" ELSE "reserve"]
  /\ UNCHANGED <<ringVars, t, calls, mtx, scan, rst>>

(* The oldest slot may be evicted only once its seq says it is published. *)
CheckOldest(w) ==
  /\ pc[w] = "check"
  /\ pc' = [pc EXCEPT ![w] = IF seq[Cell(h[w])] # h[w] + 1 THEN "reload" ELSE "evict"]
  /\ UNCHANGED <<ringVars, t, h, calls, mtx, scan, rst>>

(* compare_exchange_weak(head_, h, h + 1) succeeds: index h is dropped. *)
EvictOldest(w) ==
  /\ pc[w] = "evict"
  /\ head = h[w]
  /\ head' = head + 1
  /\ pc' = [pc EXCEPT ![w] = "reload"]
  /\ UNCHANGED <<tail, seq, value, t, h, calls, mtx, scan, rst>>

(* It fails: head_ moved, or the weak exchange failed spuriously. *)
EvictFails(w) ==
  /\ pc[w] = "evict"
  /\ pc' = [pc EXCEPT ![w] = "reload"]
  /\ UNCHANGED <<ringVars, t, h, calls, mtx, scan, rst>>

ReloadTail(w) ==
  /\ pc[w] = "reload"
  /\ t' = [t EXCEPT ![w] = tail]
  /\ pc' = [pc EXCEPT ![w] = "head"]
  /\ UNCHANGED <<ringVars, h, calls, mtx, scan, rst>>

(* compare_exchange_weak(tail_, t, t + 1) succeeds: index t is ours. *)
Reserve(w) ==
  /\ pc[w] = "reserve"
  /\ tail = t[w]
  /\ tail' = tail + 1
  /\ pc' = [pc EXCEPT ![w] = "write"]
  /\ UNCHANGED <<head, seq, value, t, h, calls, mtx, scan, rst>>

(* It fails, spuriously or because tail_ moved, and loads tail_ into t. *)
ReserveFails(w) ==
  /\ pc[w] = "reserve"
  /\ t' = [t EXCEPT ![w] = tail]
  /\ pc' = [pc EXCEPT ![w] = "head"]
  /\ UNCHANGED <<ringVars, h, calls, mtx, scan, rst>>

WriteValue(w) ==
  /\ pc[w] = "write"
  /\ value' = [value EXCEPT ![Cell(t[w])] = t[w]]
  /\ pc' = [pc EXCEPT ![w] = "publish"]
  /\ UNCHANGED <<head, tail, seq, t, h, calls, mtx, scan, rst>>

(* Mutant: seq is stored as t instead of t + 1. *)
PublishWrongSeq(w) ==
  /\ pc[w] = "publish"
  /\ seq' = [seq EXCEPT ![Cell(t[w])] = t[w]]
  /\ pc' = [pc EXCEPT ![w] = "idle"]
  /\ UNCHANGED <<head, tail, value, t, h, calls, mtx, scan, rst>>

Publish(w) ==
  /\ pc[w] = "publish"
  /\ seq' = [seq EXCEPT ![Cell(t[w])] = t[w] + 1]
  /\ pc' = [pc EXCEPT ![w] = "idle"]
  /\ UNCHANGED <<head, tail, value, t, h, calls, mtx, scan, rst>>

PushStep(w) ==
  \/ LoadHead(w)   \/ CheckOldest(w)  \/ EvictOldest(w) \/ EvictFails(w)
  \/ ReloadTail(w) \/ Reserve(w)      \/ ReserveFails(w)
  \/ WriteValue(w) \/ Publish(w)

-----------------------------------------------------------------------------
(* collect_ring_samples(), called by snapshot() and percentile().          *)

(* Take snapshot_mtx_ and load head_. *)
ScanHead ==
  /\ scan.pc = "idle"
  /\ scan.count < MaxScans
  /\ mtx = "free"
  /\ mtx' = "scan"
  /\ scan' = [scan EXCEPT !.pc = "tail", !.h = head, !.samples = <<>>]
  /\ UNCHANGED <<ringVars, writerVars, rst>>

(* The samples the scan returns. *)
Return(s) ==
  [scan EXCEPT !.pc = "idle", !.samples = s, !.count = @ + 1]

(* The first index of the window: at most kMaxSnapshotSamples before tt. *)
WindowStart(hh, tt) ==
  IF tt - hh > kMaxSnapshotSamples THEN tt - kMaxSnapshotSamples ELSE hh

(* Load tail_, release snapshot_mtx_ and choose the window. *)
ScanTail ==
  /\ scan.pc = "tail"
  /\ mtx' = "free"
  /\ scan' = IF tail > scan.h
             THEN [scan EXCEPT !.pc = "seq", !.t = tail, !.i = WindowStart(scan.h, tail),
                               !.start = WindowStart(scan.h, tail)]
             ELSE Return(<<>>)
  /\ UNCHANGED <<ringVars, writerVars, rst>>

(* Mutant: the scan does not look at the slot's seq. *)
ScanSeqUnchecked ==
  /\ scan.pc = "seq"
  /\ scan' = [scan EXCEPT !.pc = "value"]
  /\ UNCHANGED <<ringVars, writerVars, mtx, rst>>

(* Load the slot's seq; the scan stops at the first unpublished slot. *)
ScanSeq ==
  /\ scan.pc = "seq"
  /\ scan' = IF seq[Cell(scan.i)] = scan.i + 1
             THEN [scan EXCEPT !.pc = "value"]
             ELSE Return(scan.samples)
  /\ UNCHANGED <<ringVars, writerVars, mtx, rst>>

(* Copy the slot's value, which may have been overwritten since ScanSeq. *)
ScanValue ==
  /\ scan.pc = "value"
  /\ LET s == Append(scan.samples, value[Cell(scan.i)])
     IN  scan' = IF scan.i + 1 < scan.t
                 THEN [scan EXCEPT !.pc = "seq", !.i = @ + 1, !.samples = s]
                 ELSE Return(s)
  /\ UNCHANGED <<ringVars, writerVars, mtx, rst>>

Scan == ScanHead \/ ScanTail \/ ScanSeq \/ ScanValue

-----------------------------------------------------------------------------
(* reset(): the ring half.  snapshot_mtx_ is held throughout; writers do   *)
(* not take it.                                                            *)

ResetHead ==
  /\ rst.pc = "idle"
  /\ rst.count < MaxResets
  /\ mtx = "free"
  /\ mtx' = "reset"
  /\ rst' = [rst EXCEPT !.pc = "tail", !.i = head]
  /\ UNCHANGED <<ringVars, writerVars, scan>>

ResetTail ==
  /\ rst.pc = "tail"
  /\ rst' = [rst EXCEPT !.pc = "slots", !.t = tail]
  /\ UNCHANGED <<ringVars, writerVars, mtx, scan>>

ResetSlot ==
  /\ rst.pc = "slots"
  /\ rst.i < rst.t
  /\ seq' = [seq EXCEPT ![Cell(rst.i)] = rst.i + kRingCapacity]
  /\ rst' = [rst EXCEPT !.i = @ + 1]
  /\ UNCHANGED <<head, tail, value, writerVars, mtx, scan>>

ResetDone ==
  /\ rst.pc = "slots"
  /\ rst.i >= rst.t
  /\ head' = rst.t
  /\ mtx' = "free"
  /\ rst' = [rst EXCEPT !.pc = "idle", !.count = @ + 1]
  /\ UNCHANGED <<tail, seq, value, writerVars, scan>>

ResetStep == ResetTail \/ ResetSlot \/ ResetDone

-----------------------------------------------------------------------------
(* The code as it is: reset() may overlap record_request(). *)
Next ==
  \/ \E w \in Writers : BeginPush(w) \/ PushStep(w)
  \/ Scan
  \/ ResetHead \/ ResetStep

(* The code under callers that never let the two overlap: the discipline   *)
(* the ring needs and does not enforce.                                    *)
SerialNext ==
  \/ \E w \in Writers : (rst.pc = "idle" /\ BeginPush(w)) \/ PushStep(w)
  \/ Scan
  \/ (\A w \in Writers : pc[w] = "idle") /\ ResetHead
  \/ ResetStep

(* Every thread keeps running, and a weak exchange does not fail           *)
(* spuriously for ever.  No call has to be made.                           *)
Fairness ==
  /\ \A w \in Writers : /\ WF_vars(PushStep(w))
                        /\ SF_vars(EvictOldest(w))
                        /\ SF_vars(Reserve(w))
  /\ WF_vars(ScanTail \/ ScanSeq \/ ScanValue)
  /\ WF_vars(ResetStep)

Spec           == Init /\ [][Next]_vars
SerialSpec     == Init /\ [][SerialNext]_vars
SerialFairSpec == SerialSpec /\ Fairness

-----------------------------------------------------------------------------
(* Properties. *)

Sample == Nat \cup {-1}

ScanType ==
  [pc : {"idle", "tail", "seq", "value"}, h : Nat, t : Nat, start : Nat, i : Nat,
   samples : Seq(Sample), count : Nat]

TypeOK ==
  /\ head \in Nat /\ tail \in Nat
  /\ seq \in [Cells -> Nat]
  /\ value \in [Cells -> Sample]
  /\ pc \in [Writers -> WriterPC]
  /\ t \in [Writers -> Nat]
  /\ h \in [Writers -> Nat]
  /\ calls \in Nat
  /\ mtx \in {"free", "scan", "reset"}
  /\ scan \in ScanType
  /\ rst \in [pc : {"idle", "tail", "slots"}, i : Nat, t : Nat, count : Nat]

(* Writer w holds index t[w]: reserved and not yet published. *)
Owns(w) == pc[w] \in {"write", "publish"}

(* No two record_request() calls ever write the same cell at once: the     *)
(* value and seq stores after the reservation need no lock.                *)
SlotExclusive ==
  \A v, w \in Writers : v # w /\ Owns(v) /\ Owns(w) => Cell(t[v]) # Cell(t[w])

(* Every index between head_ and tail_ is a buffered sample that can be    *)
(* read, or one that its owner is about to publish; the ring never holds   *)
(* more than kRingCapacity.  No buffered sample is lost by interleaved     *)
(* pushes and evictions.                                                   *)
WindowIntact ==
  rst.pc = "idle" =>
    /\ head <= tail /\ tail <= head + kRingCapacity
    /\ \A i \in head .. tail - 1 :
         \/ \E w \in Writers : Owns(w) /\ t[w] = i
         \/ seq[Cell(i)] = i + 1 /\ value[Cell(i)] = i

(* Eviction takes the oldest sample only, and only once its payload has    *)
(* been written and published.                                             *)
EvictPublished ==
  [][head' # head /\ rst.pc = "idle" =>
       head' = head + 1 /\ seq[Cell(head)] = head + 1 /\ value[Cell(head)] = head]_vars

(* A scan that races with pushes and evictions never returns what a cell   *)
(* held before the index it scans was pushed: each sample is the one of    *)
(* its index or a newer one.  And it counts no sample twice, so that no    *)
(* latency is over-weighted in a percentile.                               *)
ScanSound ==
  /\ \A k \in 1 .. Len(scan.samples) : scan.samples[k] >= scan.start + k - 1
  /\ \A j, k \in 1 .. Len(scan.samples) :
       scan.samples[j] = scan.samples[k] => j = k

(* Every record_request() returns: the eviction retry does not spin for    *)
(* ever ("they will be published momentarily, so we simply retry").        *)
PushReturns == \A w \in Writers : pc[w] # "idle" ~> pc[w] = "idle"

-----------------------------------------------------------------------------
(* The inductive invariant behind SlotExclusive, WindowIntact and          *)
(* EvictPublished under SerialSpec; each conjunct has a name.              *)

(* A slot beyond tail_ never looks published: seq = i + 1 implies i < tail_. *)
NotYetPublished ==
  \A c \in Cells : seq[c] <= tail \/ Cell(seq[c] - 1) # c

(* Reserved indices lie in the window, differ, and are unpublished; after  *)
(* WriteValue the payload is in place.                                     *)
OwnersInv ==
  /\ \A w \in Writers : Owns(w) =>
       head <= t[w] /\ t[w] < tail /\ seq[Cell(t[w])] # t[w] + 1
  /\ \A v, w \in Writers : v # w /\ Owns(v) /\ Owns(w) => t[v] # t[w]
  /\ \A w \in Writers : pc[w] = "publish" => value[Cell(t[w])] = t[w]

(* What a writer's stale locals still say about the shared counters. *)
LocalsInv ==
  \A w \in Writers :
    /\ pc[w] \in {"check", "evict", "reserve"} => h[w] <= head
    /\ pc[w] = "reserve" => h[w] <= t[w] /\ t[w] < h[w] + kRingCapacity
    /\ pc[w] = "evict" /\ h[w] = head => seq[Cell(head)] = head + 1

(* A reset() under way is alone; it has cleared the slots below rst.i. *)
ResetInv ==
  /\ rst.pc # "idle" => \A w \in Writers : pc[w] = "idle"
  /\ rst.pc = "tail"  => rst.i = head
  /\ rst.pc = "slots" => rst.t = tail /\ head <= rst.i /\ rst.i <= tail

(* WindowIntact, also while reset() clears the window from below. *)
LiveFrom == IF rst.pc = "slots" THEN rst.i ELSE head

WindowInv ==
  /\ head <= tail /\ tail <= head + kRingCapacity
  /\ \A i \in LiveFrom .. tail - 1 :
       \/ \E w \in Writers : Owns(w) /\ t[w] = i
       \/ seq[Cell(i)] = i + 1 /\ value[Cell(i)] = i

(* All of it holds, for callers that do not let reset() overlap a push:    *)
(* no buffered sample is lost, no cell has two owners, and what a writer   *)
(* read earlier still says enough about the counters for its next step.    *)
RingInv ==
  TypeOK /\ NotYetPublished /\ OwnersInv /\ LocalsInv /\ ResetInv /\ WindowInv
=============================================================================
