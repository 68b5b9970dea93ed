---------------------------- MODULE PlatformApi ----------------------------
(***************************************************************************)
(* What the REST control plane promises its clients and the program that   *)
(* embeds it: a store of projects, each with its own scenarios, runs and   *)
(* policies, on which every operation takes effect at one instant.         *)
(***************************************************************************)
EXTENDS Integers, PolicyEvaluator

CONSTANTS Projects, RuleLists, Outcomes, Results

VARIABLES
  store,    \* project -> [scenarios, runs, policies]
  used,     \* identifiers handed out
  answer    \* the response on its way: [to, status, listed, passed]

vars == <<store, used, answer>>

(* Responses to a request: its operation and what it names. *)
Bare(to, status)    == [to |-> to, status |-> status, listed |-> {}, passed |-> FALSE]
Listing(to, found)  == [Bare(to, 200) EXCEPT !.listed = found]
Verdict(to, passed) == [Bare(to, 200) EXCEPT !.passed = passed]
Nothing             == Bare(<<"none">>, 0)

(* A request is served once: the response is computed, then delivered. *)
Respond(a) == answer = Nothing /\ answer' = a

(* f with x mapped to v. *)
With(f, x, v) == [y \in DOMAIN f \cup {x} |-> IF y = x THEN v ELSE f[y]]

NoObjects  == [x \in {} |-> 0]
NewProject == [scenarios |-> {}, runs |-> NoObjects, policies |-> NoObjects]

Init == store = NoObjects /\ used = 0 /\ answer = Nothing

-----------------------------------------------------------------------------
CreateProject ==
  /\ used' = used + 1
  /\ store' = With(store, used + 1, NewProject)
  /\ Respond(Bare(<<"create_project">>, 201))

(* A project p and, in it, something new. *)
Create(op, p, new) ==
  /\ p \in DOMAIN store
  /\ used' = used + 1
  /\ store' = [store EXCEPT ![p] = new]
  /\ Respond(Bare(<<op, p>>, 201))

CreateScenario(p) ==
  Create("create_scenario", p, [store[p] EXCEPT !.scenarios = @ \cup {used + 1}])

CreateRun(p) ==
  Create("create_run", p, [store[p] EXCEPT !.runs =
    With(@, used + 1, [status |-> "pending", result |-> NoResult])])

CreatePolicy(p, rules) ==
  Create("create_policy", p, [store[p] EXCEPT !.policies = With(@, used + 1, rules)])

DeleteProject(p) ==
  /\ p \in DOMAIN store
  /\ store' = [q \in DOMAIN store \ {p} |-> store[q]]
  /\ Respond(Bare(<<"delete_project", p>>, 200))
  /\ UNCHANGED used

GetProject(p) ==
  /\ p \in DOMAIN store
  /\ Respond(Bare(<<"get_project", p>>, 200))
  /\ UNCHANGED <<store, used>>

(* A request about a project that is not there. *)
NotFound(p) ==
  /\ p \notin DOMAIN store
  /\ \E op \in {"get_project", "delete_project", "create_scenario", "create_run", "create_policy"} :
       Respond(Bare(<<op, p>>, 404))
  /\ UNCHANGED <<store, used>>

(* A request that names no operation of the store, or is malformed. *)
Other ==
  /\ \E s \in {200, 400, 404, 405} : Respond(Bare(<<"other">>, s))
  /\ UNCHANGED <<store, used>>

List(p) ==
  /\ LET q == IF p \in DOMAIN store THEN store[p] ELSE NewProject
     IN  \/ Respond(Listing(<<"list_scenarios", p>>, q.scenarios))
         \/ Respond(Listing(<<"list_runs", p>>, DOMAIN q.runs))
         \/ Respond(Listing(<<"list_policies", p>>, DOMAIN q.policies))
  /\ UNCHANGED <<store, used>>

ListProjects ==
  /\ Respond(Listing(<<"list_projects">>, DOMAIN store))
  /\ UNCHANGED <<store, used>>

(* The verdict on run r under policy l: FALSE unless both are there. *)
Evaluate(r, l) ==
  /\ Respond(Verdict(<<"evaluate", r, l>>,
       \E p, q \in DOMAIN store :
         /\ r \in DOMAIN store[p].runs
         /\ l \in DOMAIN store[q].policies
         /\ Passes(store[p].runs[r].result, store[q].policies[l])))
  /\ UNCHANGED <<store, used>>

(* The response reaches the client, or its connection is gone. *)
Deliver ==
  /\ answer' = Nothing
  /\ UNCHANGED <<store, used>>

Finish(r, status, result) ==
  /\ \E p \in DOMAIN store :
       /\ r \in DOMAIN store[p].runs
       /\ store[p].runs[r].status \notin {"completed", "failed"}
       /\ store' = [store EXCEPT ![p].runs[r] = [status |-> status, result |-> result]]
  /\ UNCHANGED <<used, answer>>

Next ==
  \/ CreateProject \/ ListProjects \/ Other \/ Deliver
  \/ \E p \in Projects :
       \/ CreateScenario(p) \/ CreateRun(p) \/ DeleteProject(p) \/ GetProject(p)
       \/ NotFound(p) \/ List(p)
       \/ \E rules \in RuleLists : CreatePolicy(p, rules)
       \/ \E l \in Projects : Evaluate(p, l)
       \/ \E s \in Outcomes, f \in Results : Finish(p, s, f)

Spec == Init /\ [][Next]_vars
=============================================================================
