----------------------------- MODULE Repository -----------------------------
(***************************************************************************)
(* InMemoryRepository (core/platform/in_memory_repo.cpp): four tables      *)
(* under one mutex.  An operator stands for one critical section, so that  *)
(* the create operations for what a project owns are two: CheckProject,    *)
(* then an insertion.  Names, versions, environments and time stamps are   *)
(* left out; an identifier is the next of 1 .. MaxIds.                     *)
(***************************************************************************)
EXTENDS Integers, FiniteSets, PolicyEvaluator

CONSTANTS MaxIds   \* bound: objects created in a behaviour

VARIABLES
  projects,   \* projects_: the identifiers
  scenarios,  \* scenarios_: identifier -> the project's
  runs,       \* runs_: identifier -> [project, status, result]
  policies,   \* policies_: identifier -> [project, rules]
  ids         \* the counter of generate_id()

tables == <<projects, scenarios, runs, policies>>
repoVars == <<tables, ids>>

Ids      == 1 .. MaxIds
Statuses == {"pending", "running", "completed", "failed"}
Finished == {"completed", "failed"}

Empty == [i \in {} |-> 0]

RepoInit ==
  /\ projects = {}
  /\ scenarios = Empty /\ runs = Empty /\ policies = Empty
  /\ ids = 0

-----------------------------------------------------------------------------
generate_id == ids' = ids + 1

(* table[id] = object *)
Stored(table, id, object) == [i \in DOMAIN table \cup {id} |-> IF i = id THEN object ELSE table[i]]

(* erase_if(): what is left of a table. *)
Without(table, gone) == [i \in DOMAIN table \ gone |-> table[i]]

list_scenarios(p) == {s \in DOMAIN scenarios : scenarios[s] = p}
list_runs(p)      == {r \in DOMAIN runs : runs[r].project = p}
list_policies(p)  == {l \in DOMAIN policies : policies[l].project = p}

create_project ==
  /\ generate_id
  /\ projects' = projects \cup {ids + 1}
  /\ UNCHANGED <<scenarios, runs, policies>>

delete_project(p) ==
  /\ projects' = projects \ {p}
  /\ scenarios' = Without(scenarios, {i \in DOMAIN scenarios : scenarios[i] = p})
  /\ runs' = Without(runs, {i \in DOMAIN runs : runs[i].project = p})
  /\ policies' = Without(policies, {i \in DOMAIN policies : policies[i].project = p})
  /\ UNCHANGED ids

create_scenario(p) ==
  /\ generate_id
  /\ scenarios' = Stored(scenarios, ids + 1, p)
  /\ UNCHANGED <<projects, runs, policies>>

create_run(p) ==
  /\ generate_id
  /\ runs' = Stored(runs, ids + 1, [project |-> p, status |-> "pending", result |-> NoResult])
  /\ UNCHANGED <<projects, scenarios, policies>>

create_policy(p, rules) ==
  /\ generate_id
  /\ policies' = Stored(policies, ids + 1, [project |-> p, rules |-> rules])
  /\ UNCHANGED <<projects, scenarios, runs>>

(* Mutant: a finished run may be finished again. *)
FinishAgain(r, status, result) ==
  /\ r \in DOMAIN runs
  /\ runs' = [runs EXCEPT ![r].status = status, ![r].result = result]
  /\ UNCHANGED <<projects, scenarios, policies, ids>>

(* finish_run(), where it succeeds: any status and result is taken. *)
finish_run(r, status, result) ==
  /\ r \in DOMAIN runs
  /\ runs[r].status \notin Finished
  /\ runs' = [runs EXCEPT ![r].status = status, ![r].result = result]
  /\ UNCHANGED <<projects, scenarios, policies, ids>>
=============================================================================
