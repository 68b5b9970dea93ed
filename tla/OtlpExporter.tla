---------------------------- MODULE OtlpExporter ----------------------------
(***************************************************************************)
(* Tracer (core/otel/otlp_exporter.cpp): threads that start, end and label *)
(* the tracer's one current span, the bounded buffer of completed spans,   *)
(* the thread that exports it in batches, and the destructor.              *)
(*                                                                         *)
(* span_mtx_ and spans_mutex_ are two locks: a completed span is in no     *)
(* shared variable between them.  A span is its number; of an attribute    *)
(* only the span that was current when it was added is kept, and the ids   *)
(* of parent spans are left out.                                           *)
(***************************************************************************)
EXTENDS Integers, Sequences, SequencesExt

CONSTANTS
  Callers,                \* threads that use the tracer
  kOtlpBatchSize,         \* spans of a batch (64 in the code)
  kOtlpMaxBufferedSpans,  \* capacity of the buffer (4096 in the code)
  kMinBackoff,            \* in ms (200 in the code)
  kMaxBackoff,            \* in ms (5000 in the code)
  MaxSpans                \* bound: spans of a behaviour

ASSUME TracerAssumption ==
  /\ {kOtlpBatchSize, kOtlpMaxBufferedSpans, kMinBackoff, kMaxBackoff} \subseteq Nat \ {0}
  /\ kMinBackoff <= kMaxBackoff /\ MaxSpans \in Nat

VARIABLES
  enabled,   \* endpoint_host_ is set
  current,   \* current_span_id_ while span_active_, 0 otherwise
  tags,      \* attributes_: for each the span that was current, 0 for none
  started,   \* spans so far
  hand,      \* the span each caller carries from one lock to the other
  queue,     \* completed_spans_
  stop,      \* stop_
  exporter,  \* where export_loop() is
  batch,     \* to_export
  backoff,   \* in ms
  dtor,      \* where ~Impl() is
  pushed,    \* history: the spans in the order of enqueue()
  out,       \* history: the numbers of the spans handed to do_export(), in order
  evicted,   \* history: dropped from a full buffer
  skipped    \* history: sampled out, or dropped because export is disabled

spanVars   == <<current, tags, started>>
exportVars == <<exporter, batch, backoff>>
vars == <<enabled, spanVars, hand, queue, stop, exportVars, dtor, pushed, out, evicted,
          skipped>>

None == [id |-> 0, tags |-> {}]

Init ==
  /\ enabled \in BOOLEAN
  /\ current = 0 /\ tags = {} /\ started = 0
  /\ hand = [w \in Callers |-> None]
  /\ queue = <<>> /\ stop = FALSE
  /\ exporter = "wait" /\ batch = <<>> /\ backoff = kMinBackoff
  /\ dtor = "no"
  /\ pushed = <<>> /\ out = <<>> /\ evicted = {} /\ skipped = {}

(* The numbers of a sequence of spans, in order and as a set. *)
Ids(s)   == [i \in DOMAIN s |-> s[i].id]
IdsOf(s) == {s[i].id : i \in DOMAIN s}

-----------------------------------------------------------------------------
(* The callers.  Nobody calls a tracer that is being destroyed. *)

Calls(w) == dtor = "no" /\ hand[w] = None

(* The current span is complete; it is kept or, with a sample rate below   *)
(* one, possibly sampled out.                                              *)
CloseSpan(w, keep) ==
  /\ hand' = [hand EXCEPT ![w] = IF keep THEN [id |-> current, tags |-> tags] ELSE None]
  /\ skipped' = IF keep THEN skipped ELSE skipped \cup {current}
  /\ tags' = {}

(* start_span(): ends the current span, if any, and opens another. *)
StartSpan(w, keep) ==
  /\ Calls(w) /\ started < MaxSpans
  /\ IF current # 0
     THEN CloseSpan(w, keep)
     ELSE keep /\ UNCHANGED <<hand, skipped, tags>>
  /\ started' = started + 1
  /\ current' = started + 1
  /\ UNCHANGED <<enabled, queue, stop, exportVars, dtor, pushed, out, evicted>>

EndSpan(w, keep) ==
  /\ Calls(w) /\ current # 0
  /\ CloseSpan(w, keep)
  /\ current' = 0
  /\ UNCHANGED <<enabled, started, queue, stop, exportVars, dtor, pushed, out,
                 evicted>>

AddAttribute(w) ==
  /\ Calls(w)
  /\ tags' = tags \cup {current}
  /\ UNCHANGED <<enabled, current, started, hand, queue, stop, exportVars,
                 dtor, pushed, out, evicted, skipped>>

(* Mutant: the span is put at the front. *)
BufferedFront(s) ==
  LET t == <<Last(s)>> \o Front(s)
  IN  IF Len(t) > kOtlpMaxBufferedSpans THEN Tail(t) ELSE t

(* The buffer after push_back(): the oldest span makes room. *)
Buffered(s) ==
  IF Len(s) > kOtlpMaxBufferedSpans THEN Tail(s) ELSE s

(* Mutant: a full buffer refuses the span. *)
EnqueueWhenRoom(w) ==
  /\ hand[w] # None
  /\ queue' = IF Len(queue) < kOtlpMaxBufferedSpans THEN Append(queue, hand[w]) ELSE queue
  /\ pushed' = Append(pushed, hand[w].id)
  /\ hand' = [hand EXCEPT ![w] = None]
  /\ UNCHANGED <<enabled, spanVars, stop, exportVars, dtor, out, evicted, skipped>>

(* enqueue(), under the second lock.  The wake-up is the exporter's guard. *)
Enqueue(w) ==
  /\ hand[w] # None
  /\ LET s == Append(queue, hand[w])
     IN  /\ queue' = Buffered(s)
         /\ evicted' = evicted \cup (IdsOf(s) \ IdsOf(Buffered(s)))
  /\ pushed' = Append(pushed, hand[w].id)
  /\ hand' = [hand EXCEPT ![w] = None]
  /\ UNCHANGED <<enabled, spanVars, stop, exportVars, dtor, out, skipped>>

-----------------------------------------------------------------------------
(* export_loop() *)

WakeUp == stop \/ Len(queue) >= kOtlpBatchSize

(* Mutant: the loop never ends. *)
TakeBatchForever ==
  LET n == IF Len(queue) < kOtlpBatchSize THEN Len(queue) ELSE kOtlpBatchSize
  IN  /\ queue' = SubSeq(queue, n + 1, Len(queue))
      /\ batch' = IF enabled THEN SubSeq(queue, 1, n) ELSE <<>>
      /\ skipped' = IF enabled THEN skipped ELSE skipped \cup IdsOf(SubSeq(queue, 1, n))
      /\ exporter' = IF enabled THEN "export" ELSE "wait"

(* After the wait: leave the loop, or move a batch out of the buffer.      *)
(* Without an endpoint it is thrown away.                                  *)
TakeBatch ==
  LET n == IF Len(queue) < kOtlpBatchSize THEN Len(queue) ELSE kOtlpBatchSize
  IN  IF stop /\ queue = <<>>
      THEN exporter' = "drain" /\ UNCHANGED <<queue, batch, skipped>>
      ELSE /\ queue' = SubSeq(queue, n + 1, Len(queue))
           /\ batch' = IF enabled THEN SubSeq(queue, 1, n) ELSE <<>>
           /\ skipped' = IF enabled THEN skipped ELSE skipped \cup IdsOf(SubSeq(queue, 1, n))
           /\ exporter' = IF enabled THEN "export" ELSE "wait"

CollectReady ==
  /\ exporter = "wait" /\ WakeUp
  /\ TakeBatch
  /\ UNCHANGED <<enabled, spanVars, hand, stop, backoff, dtor, pushed, out, evicted>>

(* The wait lasted for backoff. *)
CollectTimeout ==
  /\ exporter = "wait" /\ ~WakeUp
  /\ TakeBatch
  /\ UNCHANGED <<enabled, spanVars, hand, stop, backoff, dtor, pushed, out, evicted>>

(* do_export(): one attempt, which an empty batch cannot fail. *)
Export(ok) ==
  /\ exporter = "export"
  /\ batch = <<>> => ok
  /\ out' = out \o Ids(batch)
  /\ batch' = <<>>
  /\ backoff' = IF ok THEN kMinBackoff
                ELSE IF backoff * 2 < kMaxBackoff THEN backoff * 2 ELSE kMaxBackoff
  /\ exporter' = "wait"
  /\ UNCHANGED <<enabled, spanVars, hand, queue, stop, dtor, pushed, evicted, skipped>>

(* The buffer is exported whole, if there is an endpoint. *)
ExportRest ==
  /\ out' = IF enabled THEN out \o Ids(queue) ELSE out
  /\ skipped' = IF enabled THEN skipped ELSE skipped \cup IdsOf(queue)
  /\ queue' = <<>>

(* What is left after the loop. *)
Drain ==
  /\ exporter = "drain"
  /\ ExportRest
  /\ exporter' = "done"
  /\ UNCHANGED <<enabled, spanVars, hand, stop, batch, backoff, dtor, pushed, evicted>>

-----------------------------------------------------------------------------
(* ~Impl() *)

Destroy ==
  /\ \A w \in Callers : Calls(w)
  /\ stop' = TRUE
  /\ dtor' = "join"
  /\ UNCHANGED <<enabled, spanVars, hand, queue, exportVars, pushed, out, evicted,
                 skipped>>

(* The exporter is joined; flush() is the safety net. *)
DestroyFlush ==
  /\ dtor = "join" /\ exporter = "done"
  /\ ExportRest
  /\ dtor' = "done"
  /\ UNCHANGED <<enabled, spanVars, hand, stop, exportVars, pushed, evicted>>

ExporterStep == CollectReady \/ CollectTimeout \/ (\E ok \in BOOLEAN : Export(ok)) \/ Drain

Next ==
  \/ \E w \in Callers :
       \/ \E keep \in BOOLEAN : StartSpan(w, keep) \/ EndSpan(w, keep)
       \/ AddAttribute(w) \/ Enqueue(w)
  \/ ExporterStep
  \/ Destroy \/ DestroyFlush

Spec == Init /\ [][Next]_vars

(* Every thread runs on, and do_post_json() has deadlines. *)
FairSpec ==
  /\ Spec
  /\ WF_vars(ExporterStep) /\ WF_vars(DestroyFlush)
  /\ \A w \in Callers : WF_vars(Enqueue(w))

-----------------------------------------------------------------------------
(* Properties. *)

Spans == [id : 0 .. MaxSpans, tags : SUBSET (0 .. MaxSpans)]

(* In particular the buffer respects its capacity, so an unreachable       *)
(* collector cannot make it grow.                                          *)
TypeOK ==
  /\ {enabled, stop} \subseteq BOOLEAN
  /\ {current, started} \subseteq 0 .. MaxSpans
  /\ tags \subseteq 0 .. MaxSpans
  /\ hand \in [Callers -> Spans]
  /\ queue \in Seq(Spans) /\ Len(queue) <= kOtlpMaxBufferedSpans
  /\ batch \in Seq(Spans) /\ Len(batch) <= kOtlpBatchSize
  /\ exporter \in {"wait", "export", "drain", "done"}
  /\ backoff \in kMinBackoff .. kMaxBackoff
  /\ dtor \in {"no", "join", "done"}
  /\ {out, pushed} \subseteq Seq(1 .. MaxSpans)
  /\ evicted \cup skipped \subseteq 1 .. MaxSpans

Rank(id) == CHOOSE i \in DOMAIN pushed : pushed[i] = id

(* Export, batch and buffer together are in the order of enqueue(), each   *)
(* span once: no batch overtakes another, no span is sent twice, and what  *)
(* a full buffer drops is older than all it keeps.                         *)
InOrder ==
  LET line == out \o Ids(batch) \o Ids(queue)
  IN  /\ \A i, j \in DOMAIN line : i < j => Rank(line[i]) < Rank(line[j])
      /\ \A i \in DOMAIN queue, j \in DOMAIN pushed :
           pushed[j] \in evicted => j < Rank(queue[i].id)

(* No completed span is lost silently: between the two locks, buffered,    *)
(* in a batch, handed to do_export(), evicted, sampled out or disabled,    *)
(* and nothing is left in the exporter once the destructor is done.        *)
Accounted ==
  /\ (1 .. started) \ {current} =
       {hand[w].id : w \in {v \in Callers : hand[v] # None}}
         \cup IdsOf(queue) \cup IdsOf(batch) \cup Range(out) \cup evicted \cup skipped
  /\ dtor = "done" => queue = <<>> /\ batch = <<>>

(* An attribute is exported with the span that was current when it was     *)
(* added (or, added between spans, with the next one), however the calls   *)
(* of several threads interleave.                                          *)
TagsOwn ==
  \A s \in Range(hand) \cup Range(queue) \cup Range(batch) :
    s.tags \subseteq {0, s.id}

(* The two together, in well-typed states with a bounded buffer: each      *)
(* completed span is in one known place, with its own attributes.          *)
SpansIntact == TypeOK /\ Accounted /\ TagsOwn

(* The destructor returns, whether or not the collector answers. *)
DestructorReturns == dtor = "join" ~> dtor = "done"
=============================================================================
