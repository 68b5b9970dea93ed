--------------------------- MODULE ScenarioConfig ---------------------------
(***************************************************************************)
(* What a scenario file becomes: parse_config_file() and                   *)
(* validate_scenario_config() (core/scenario/yaml_parser.cpp), and the     *)
(* helpers of core/scenario/engine.cpp that use the result.                *)
(*                                                                         *)
(* A document is a record of what the parser tells apart.  Bad stands for  *)
(* a value yaml-cpp cannot convert; a text is whether it is empty; a       *)
(* quantity is a number (Bad: no digits) and a unit; an assertion is its   *)
(* parts and the blanks around its operator.                               *)
(***************************************************************************)
EXTENDS Integers, Sequences, SequencesExt

CONSTANTS
  Bad,
  Thousand, Sixty,   \* the ratios of the time units
  MsMax,             \* durations are cut at milliseconds::max()
  UsMax,             \* the largest long long
  kMaxWeight, kMaxRps, kMaxUsers

-----------------------------------------------------------------------------
(* Durations. *)

scale_to_ms(value, multiplier) ==
  CASE value * multiplier < 0 -> 0
    [] value * multiplier >= MsMax -> MsMax
    [] OTHER -> value * multiplier

parse_number(number) == IF number = Bad THEN -1 ELSE number

(* The suffixes are tried in the order min, ms, s, m, h, and std::stod     *)
(* ignores what follows the number: 5us is 5 s.                            *)
StageMs == [min |-> Sixty * Thousand, ms |-> 1, s |-> Thousand, us |-> Thousand,
            m |-> Sixty * Thousand, h |-> Sixty * Sixty * Thousand]

(* parse_duration(), of the stages: 0 when the text is not understood. *)
parse_duration(q) ==
  IF q.unit \notin DOMAIN StageMs THEN 0 ELSE scale_to_ms(parse_number(q.number), StageMs[q.unit])

(* parse_latency(), of the SLA; without digits it is kDefaultLatencyMs. *)
parse_latency(q) ==
  IF q.number = Bad THEN 500
  ELSE scale_to_ms(q.number, IF q.unit \in {"s", "us"} THEN Thousand ELSE 1)

AssertionUs == [us |-> 1, ms |-> Thousand, s |-> Thousand * Thousand,
                m |-> Sixty * Thousand * Thousand, h |-> Sixty * Sixty * Thousand * Thousand]

(* parse_duration_us(), of the assertions: -1 when not understood or when  *)
(* the product would overflow.                                             *)
parse_duration_us(q) ==
  IF q.number = Bad \/ q.unit \notin DOMAIN AssertionUs THEN -1
  ELSE IF q.number > UsMax \div AssertionUs[q.unit] THEN -1
  ELSE q.number * AssertionUs[q.unit]

-----------------------------------------------------------------------------
(* Assertions. *)

compare_op(actual, op, expected) ==
  CASE op = <<"=", "=">> -> actual = expected
    [] op = <<"!", "=">> -> actual # expected
    [] op = <<">">> -> actual > expected
    [] op = <<">", "=">> -> actual >= expected
    [] op = <<"<">> -> actual < expected
    [] op = <<"<", "=">> -> actual <= expected
    [] OTHER -> FALSE

kValid == {<<"=", "=">>, <<"!", "=">>, <<">", "=">>, <<"<", "=">>, <<">">>, <<"<">>}

(* The operator without its blanks is a valid one; the right side is not   *)
(* looked at, nor are blanks required.                                     *)
check_assertion_format(a) ==
  /\ a.lhs # "none"
  /\ SelectSeq(a.op, LAMBDA ch : ch # " ") \in kValid

(* The parts are read as words: each must end at a blank. *)
evaluate_assertion(a, response) ==
  /\ a.spaced /\ a.given
  /\ CASE a.lhs = "status_code" -> a.rhs.number # Bad /\ compare_op(response.status_code, a.op, a.rhs.number)
       [] a.lhs = "latency" -> parse_duration_us(a.rhs) >= 0 /\ compare_op(response.latency, a.op, parse_duration_us(a.rhs))
       [] OTHER -> FALSE

evaluate_assertions(step, response) ==
  \A i \in DOMAIN step.assertions : evaluate_assertion(step.assertions[i], response)

-----------------------------------------------------------------------------
(* The document. *)

(* A conversion outside the try block throws out of parse_config_file();   *)
(* Bad for prometheus stands for any value of the later sections.          *)
Unconvertible(f) ==
  \/ \E i \in DOMAIN f.stages : Bad \in {f.stages[i].target_rps, f.stages[i].concurrent_users}
  \/ \E i \in DOMAIN f.scenarios : f.scenarios[i].weight = Bad
  \/ f.prometheus = Bad

(* load_config(): true, false or an exception.  A variable without a value *)
(* matters when it left base_url empty.                                    *)
load_config(f) ==
  CASE ~ f.opened \/ f.root # "map" \/ f.target # "map" -> "false"
    [] f.missing_var /\ ~ f.base_url -> "false"
    [] Unconvertible(f) -> "throws"
    [] OTHER -> "true"

(* Steps that are not http steps are skipped. *)
Steps(scenario) == SelectSeq(scenario.steps, LAMBDA step : step.http)

validate(f) == f.test_id /\ f.base_url

StepAccepted(step) ==
  /\ step.method /\ step.path
  /\ \A k \in DOMAIN step.assertions : check_assertion_format(step.assertions[k])

ScenarioAccepted(scenario) ==
  /\ scenario.weight <= kMaxWeight
  /\ Steps(scenario) # <<>>
  /\ \A j \in DOMAIN Steps(scenario) : StepAccepted(Steps(scenario)[j])

validate_scenario_config(f) ==
  /\ f.test_id /\ f.base_url /\ f.scenarios # <<>>
  /\ \A i \in DOMAIN f.scenarios : ScenarioAccepted(f.scenarios[i])
  /\ \A i \in DOMAIN f.stages :
       f.stages[i].target_rps <= kMaxRps /\ f.stages[i].concurrent_users <= kMaxUsers

(* load_config(), validate() and validate_schema(), as main() and          *)
(* do_dry_run() call them: what the configuration is found to be.          *)
Checked(f) ==
  CASE load_config(f) # "true" -> load_config(f)
    [] ~ validate(f) \/ ~ validate_scenario_config(f) -> "false"
    [] OTHER -> "true"

-----------------------------------------------------------------------------
(* The choice of a scenario. *)

Weight(scenario) == IF scenario.weight > 0 THEN scenario.weight ELSE 1

TotalWeight(scenarios) == FoldLeft(LAMBDA sum, s : sum + Weight(s), 0, scenarios)


(* The first scenario whose weight is above what is left of the pick; the  *)
(* last one if there is none.                                              *)
pick_weighted_scenario(scenarios, pick) ==
  LET left(i) == pick - TotalWeight(SubSeq(scenarios, 1, i - 1))
      hit == {i \in DOMAIN scenarios : left(i) < Weight(scenarios[i])}
  IN  IF hit = {} THEN Len(scenarios) ELSE CHOOSE i \in hit : \A j \in hit : i <= j
=============================================================================
