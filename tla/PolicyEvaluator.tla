-------------------------- MODULE PolicyEvaluator --------------------------
(***************************************************************************)
(* The verdict of PolicyEvaluator (core/platform/policy.cpp) once the run  *)
(* and the policy are in hand.  The result of a run gives each known       *)
(* metric an integer; NoResult stands for an empty optional.               *)
(***************************************************************************)
EXTENDS Integers, Sequences

KnownMetrics == {"error_rate_pct", "p99_latency_ms"}

NoResult == [m \in {} |-> 0]

(* get_metric_value(): whether the metric is one of a RunResult's. *)
HasMetric(result, metric) == metric \in DOMAIN result

(* check_threshold(): whether the rule is violated; a comparison the code  *)
(* does not know always is.                                                *)
check_threshold(actual, op, threshold) ==
  CASE op = "<"  -> ~ (actual < threshold)
    [] op = "<=" -> ~ (actual <= threshold)
    [] op = ">"  -> ~ (actual > threshold)
    [] op = ">=" -> ~ (actual >= threshold)
    [] op = "==" -> actual # threshold
    [] op = "!=" -> actual = threshold
    [] OTHER     -> TRUE

(* Mutant: the last rule decides. *)
LastRulePasses(result, rules) ==
  LET r == rules[Len(rules)]
  IN  HasMetric(result, r.metric) => ~ check_threshold(result[r.metric], r.op, r.threshold)

(* The loop over the rules: a metric that is not known only warns. *)
RulesPass(result, rules) ==
  \A i \in DOMAIN rules :
    HasMetric(result, rules[i].metric) =>
      ~ check_threshold(result[rules[i].metric], rules[i].op, rules[i].threshold)

(* evaluate() for a run and a policy that were both found. *)
Passes(result, rules) == result # NoResult /\ RulesPass(result, rules)
=============================================================================
