---------------------------- MODULE MCHttpServer ----------------------------
(* Model checking the control plane. *)
EXTENDS HttpServer

CONSTANTS c1, c2

Rule(metric, op, threshold) == [metric |-> metric, op |-> op, threshold |-> threshold]

(* Two rules of which a result may violate the first only, and one about a *)
(* metric nobody measures.                                                 *)
MCRuleLists ==
  {<<Rule("error_rate_pct", "<", 1), Rule("p99_latency_ms", "!=", 2)>>,
   <<Rule("apdex", ">=", 1)>>}

MCResults == {[error_rate_pct |-> e, p99_latency_ms |-> 1] : e \in {0, 1}}
=============================================================================
