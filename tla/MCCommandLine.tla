---------------------------- MODULE MCCommandLine ---------------------------
(***************************************************************************)
(* The command with two workers and two clients of the exporter, one of    *)
(* which may be served at once.  The files are one good document and the   *)
(* documents that differ from it in one part.                              *)
(***************************************************************************)
EXTENDS CommandLine

Options ==
  {<<"help", "">>, <<"version", "">>, <<"unknown", "">>, <<"rps", "invalid">>, <<"config", "file">>,
   <<"dry_run", "yes">>}
    \cup {<<"init", v>> : v \in {"unknown", "unwritable", "written"}}
    \cup {<<"duration", v>> : v \in {"zero", "positive", "invalid"}}
    \cup {<<"target", v>> : v \in {"no_host", "bad_port", "good"}}
    \cup {<<"auth", v>> : v \in {"ok", "throws"}}

(* Every command line of at most two options, and some of three. *)
MCArgvs ==
  UNION {[1 .. n -> Options] : n \in 0 .. 2}
    \cup {<< <<"duration", d>>, <<"auth", a>>, o>> :
            d \in {"zero", "positive"}, a \in {"ok", "throws"}, o \in {<<"config", "file">>, <<"target", "good">>}}

Quantity(n, u) == [number |-> n, unit |-> u]
Assertion(lhs, op, spaced, given) ==
  [lhs |-> lhs, op |-> op, spaced |-> spaced, given |-> given, rhs |-> Quantity(200, "ms")]
Step(assertions) == [http |-> TRUE, method |-> TRUE, path |-> TRUE, assertions |-> assertions]
Scenario(w, steps) == [weight |-> w, steps |-> steps]
Stage(q) == [duration |-> q, target_rps |-> 1, concurrent_users |-> 1]

Good == [opened |-> TRUE, root |-> "map", target |-> "map", missing_var |-> FALSE,
         base_url |-> TRUE, test_id |-> TRUE, stages |-> <<Stage(Quantity(2, "s"))>>,
         scenarios |-> <<Scenario(2, <<Step(<<Assertion("status_code", <<"=", "=">>, TRUE, TRUE)>>)>>)>>,
         prometheus |-> "off"]

MCSteps ==
  {Step(<<Assertion(l, o, TRUE, g)>>) : l \in {"none", "latency"}, o \in {<<"=">>, <<"<", " ", "=">>}, g \in BOOLEAN}
    \cup {Step(<<Assertion(l, o, b, TRUE)>>) : l \in {"status_code", "latency", "other"}, o \in kValid, b \in BOOLEAN}
    \cup {[Step(<<>>) EXCEPT !.http = FALSE], [Step(<<>>) EXCEPT !.method = FALSE], [Step(<<>>) EXCEPT !.path = FALSE]}

MCFiles ==
  {Good, [Good EXCEPT !.opened = FALSE], [Good EXCEPT !.test_id = FALSE]}
    \cup {[Good EXCEPT !.root = r, !.target = t] : r \in {"broken", "scalar", "map"}, t \in {"absent", "scalar", "map"}}
    \cup {[Good EXCEPT !.missing_var = v, !.base_url = b] : v, b \in BOOLEAN}
    \cup {[Good EXCEPT !.prometheus = v] : v \in {"on", Bad}}
    \cup {[Good EXCEPT !.stages = <<Stage(Quantity(n, u))>>] :
            n \in {0, 3, 20, Bad}, u \in {"min", "ms", "us", "s", "m", "h", "none"}}
    \cup {[Good EXCEPT !.stages = <<[Stage(Quantity(2, "s")) EXCEPT !.target_rps = n, !.concurrent_users = m]>>] :
            n \in {1, kMaxRps + 1, Bad}, m \in {1, kMaxUsers + 1}}
    \cup {[Good EXCEPT !.stages = <<>>], [Good EXCEPT !.scenarios = <<>>]}
    \cup {[Good EXCEPT !.scenarios = <<Scenario(v, Good.scenarios[1].steps), Scenario(w, Good.scenarios[1].steps)>>] :
            v \in {0, 1, Bad}, w \in {0, kMaxWeight, kMaxWeight + 1}}
    \cup {[Good EXCEPT !.scenarios[1].steps = <<s>>] : s \in MCSteps}
=============================================================================
