----------------------------- MODULE HttpServer -----------------------------
(***************************************************************************)
(* The control plane (core/platform/http_server.cpp and                    *)
(* platform/control-plane/main.cpp): the accept thread, which serves one   *)
(* connection at a time, the main thread that starts and stops it, clients *)
(* and a caller that finishes runs in the shared repository.               *)
(*                                                                         *)
(* What a request asks for is chosen when http::read() returns it.  A body *)
(* is "ok", "rejected" (no JSON, or a required field is empty) or "throws" *)
(* (JSON the field accessors do not accept); nothing catches that          *)
(* exception, so it ends the process.                                      *)
(***************************************************************************)
EXTENDS Repository

CONSTANTS
  Clients,       \* connections that may be open at the same time
  MaxSessions,   \* bound: connections of a behaviour
  RuleLists,     \* the rules of a policy
  Outcomes,      \* the statuses a run is finished with
  Results        \* the results

VARIABLES
  running,     \* running_
  open,        \* the acceptor is open
  main,        \* main(): serving, close, join, returned
  pc,          \* where the accept thread is
  client,      \* what each client has done: idle, connected, sent
  backlog,     \* connections not accepted yet, oldest first
  peer,        \* the connection being served
  req,         \* its request
  copy,        \* evaluate()'s copy of the run
  answer,      \* the response computed last
  judged,      \* the last verdict on a finished run: [run, policy, passed]
  sessions,    \* connections so far
  terminated   \* an exception left the accept thread

threadVars == <<pc, client, backlog, peer, req, copy, answer, judged, sessions>>
vars == <<repoVars, running, open, main, threadVars, terminated>>

(* Responses: to names the operation and the objects of the request. *)
Bare(to, status)    == [to |-> to, status |-> status, listed |-> {}, passed |-> FALSE]
Listing(to, found)  == [Bare(to, 200) EXCEPT !.listed = found]
Verdict(to, passed) == [Bare(to, 200) EXCEPT !.passed = passed]
Nothing             == Bare(<<"none">>, 0)

NoRun   == [project |-> 0, status |-> "pending", result |-> NoResult]
NoPeer  == "none"
NoReq   == [op |-> "none", id |-> 0, policy |-> 0, rules |-> <<>>]
To      == <<req.op, req.id>>
Request(op, id, policy, rules) == [op |-> op, id |-> id, policy |-> policy, rules |-> rules]

Requests ==
  {Request(op, id, 0, <<>>) : op \in {"delete_project", "create_scenario", "create_run",
     "get_project", "list_scenarios", "list_runs", "list_policies"}, id \in Ids}
  \cup {Request("create_policy", id, 0, rules) : id \in Ids, rules \in RuleLists}
  \cup {Request("evaluate", id, l, <<>>) : id \in Ids, l \in Ids}
  \cup {Request(op, 0, 0, <<>>) : op \in {"create_project", "list_projects"}}

Creations == {"create_project", "create_scenario", "create_run", "create_policy"}

Init ==
  /\ RepoInit
  /\ running = TRUE /\ open = TRUE /\ main = "serving"
  /\ pc = "loop"
  /\ client = [c \in Clients |-> "idle"] /\ backlog = <<>>
  /\ peer = NoPeer /\ req = NoReq /\ copy = NoRun
  /\ answer = Nothing
  /\ judged = [run |-> 0, policy |-> 0, passed |-> FALSE]
  /\ sessions = 0
  /\ terminated = FALSE

-----------------------------------------------------------------------------
(* while (running_) *)
Loop ==
  /\ pc = "loop"
  /\ pc' = IF running THEN "nonblock" ELSE "ended"
  /\ UNCHANGED <<repoVars, running, open, main, client, backlog, peer, req, copy, answer, judged,
                 sessions, terminated>>

(* acceptor_.non_blocking(): on a closed acceptor it throws. *)
NonBlocking(from, to) ==
  /\ pc = from
  /\ IF open THEN pc' = to /\ UNCHANGED terminated
             ELSE pc' = "ended" /\ terminated' = TRUE
  /\ UNCHANGED <<repoVars, running, open, main, client, backlog, peer, req, copy, answer, judged,
                 sessions>>

(* Mutant: the acceptor still blocks, and close() does not wake it. *)
AcceptBlocks ==
  /\ pc = "accept" /\ backlog # <<>>
  /\ pc' = "block" /\ peer' = Head(backlog) /\ backlog' = Tail(backlog)
  /\ UNCHANGED <<repoVars, running, open, main, client, req, copy, answer, judged, sessions,
                 terminated>>

(* acceptor_.accept(): a connection, would_block or, closed, an error. *)
Accept ==
  /\ pc = "accept"
  /\ IF open /\ backlog # <<>>
     THEN pc' = "block" /\ peer' = Head(backlog) /\ backlog' = Tail(backlog)
     ELSE pc' = "loop" /\ UNCHANGED <<peer, backlog>>
  /\ UNCHANGED <<repoVars, running, open, main, client, req, copy, answer, judged, sessions,
                 terminated>>

(* Mutant: the thread ends with its first session. *)
EndThread ==
  /\ pc' = "ended"
  /\ client' = [client EXCEPT ![peer] = "idle"]
  /\ peer' = NoPeer /\ req' = NoReq /\ copy' = NoRun /\ answer' = Nothing

(* The session is over: the socket is shut down. *)
EndSession ==
  /\ pc' = "loop"
  /\ client' = [client EXCEPT ![peer] = "idle"]
  /\ peer' = NoPeer /\ req' = NoReq /\ copy' = NoRun /\ answer' = Nothing

(* http::read() fails: the client closed the connection. *)
ReadFails ==
  /\ pc = "read" /\ client[peer] = "closed"
  /\ EndSession
  /\ UNCHANGED <<repoVars, running, open, main, backlog, judged, sessions, terminated>>

(* http::read() returns a request for one of the handlers. *)
Read(q) ==
  /\ pc = "read" /\ client[peer] = "sent"
  /\ q.op \in Creations => ids < MaxIds
  /\ req' = q
  /\ pc' = "handle"
  /\ UNCHANGED <<repoVars, running, open, main, client, backlog, peer, copy, answer, judged,
                 sessions, terminated>>

(* A request route() or a handler answers without the repository: a path   *)
(* or a method it does not know, /health, a body it rejects.               *)
ReadOther(status) ==
  /\ pc = "read" /\ client[peer] = "sent"
  /\ answer' = Bare(<<"other">>, status)
  /\ pc' = "write"
  /\ UNCHANGED <<repoVars, running, open, main, client, backlog, peer, req, copy, judged,
                 sessions, terminated>>

(* A body that makes a handler throw. *)
ReadThrows ==
  /\ pc = "read" /\ client[peer] = "sent"
  /\ pc' = "ended" /\ terminated' = TRUE
  /\ UNCHANGED <<repoVars, running, open, main, client, backlog, peer, req, copy, answer, judged,
                 sessions>>

(* A handler goes on at `to' with the response `a' so far. *)
Respond(to, a) ==
  /\ pc' = to
  /\ answer' = a
  /\ UNCHANGED <<running, open, main, client, backlog, peer, req, sessions, terminated>>

HandleProjects ==
  /\ pc = "handle"
  /\ \/ /\ req.op = "list_projects"
        /\ Respond("write", Listing(<<req.op>>, projects)) /\ UNCHANGED repoVars
     \/ /\ req.op = "create_project"
        /\ create_project /\ Respond("write", Bare(<<req.op>>, 201))
  /\ UNCHANGED <<copy, judged>>

HandleProject ==
  /\ pc = "handle" /\ req.op \in {"get_project", "delete_project"}
  /\ IF req.id \in projects
     THEN /\ Respond("write", Bare(To, 200))
          /\ IF req.op = "delete_project" THEN delete_project(req.id) ELSE UNCHANGED repoVars
     ELSE Respond("write", Bare(To, 404)) /\ UNCHANGED repoVars
  /\ UNCHANGED <<copy, judged>>

(* The create operations for what a project owns look for it first. *)
CheckProject ==
  IF req.id \in projects THEN Respond("insert", answer) ELSE Respond("write", Bare(To, 404))

(* The lists do not look for the project. *)
HandleScenarios ==
  /\ pc = "handle"
  /\ \/ req.op = "list_scenarios" /\ Respond("write", Listing(To, list_scenarios(req.id)))
     \/ req.op = "create_scenario" /\ CheckProject
  /\ UNCHANGED <<repoVars, copy, judged>>

HandleRuns ==
  /\ pc = "handle"
  /\ \/ req.op = "list_runs" /\ Respond("write", Listing(To, list_runs(req.id)))
     \/ req.op = "create_run" /\ CheckProject
  /\ UNCHANGED <<repoVars, copy, judged>>

HandlePolicies ==
  /\ pc = "handle"
  /\ \/ req.op = "list_policies" /\ Respond("write", Listing(To, list_policies(req.id)))
     \/ req.op = "create_policy" /\ CheckProject
  /\ UNCHANGED <<repoVars, copy, judged>>

(* The second critical section stores the object. *)
Insert ==
  /\ pc = "insert"
  /\ \/ req.op = "create_scenario" /\ create_scenario(req.id)
     \/ req.op = "create_run" /\ create_run(req.id)
     \/ req.op = "create_policy" /\ create_policy(req.id, req.rules)
  /\ Respond("write", Bare(To, 201))
  /\ UNCHANGED <<copy, judged>>

(* evaluate(): get_run(). *)
EvaluateRun ==
  /\ pc = "handle" /\ req.op = "evaluate"
  /\ IF req.id \in DOMAIN runs
     THEN copy' = runs[req.id] /\ Respond("policy", answer)
     ELSE UNCHANGED copy /\ Respond("write", Verdict(<<req.op, req.id, req.policy>>, FALSE))
  /\ UNCHANGED <<repoVars, judged>>

(* Mutant: the run is read again for the verdict. *)
EvaluateReread ==
  /\ pc = "policy"
  /\ LET passed == /\ req.policy \in DOMAIN policies
                   /\ Passes(runs[req.id].result, policies[req.policy].rules)
     IN  /\ Respond("write", Verdict(<<req.op, req.id, req.policy>>, passed))
         /\ UNCHANGED <<copy, judged>>
  /\ UNCHANGED repoVars

(* evaluate(): get_policy() and the verdict on the copy of the run. *)
EvaluatePolicy ==
  /\ pc = "policy"
  /\ LET passed == /\ req.policy \in DOMAIN policies
                   /\ Passes(copy.result, policies[req.policy].rules)
     IN  /\ Respond("write", Verdict(<<req.op, req.id, req.policy>>, passed))
         /\ judged' = IF copy.status \in Finished /\ req.policy \in DOMAIN policies
                      THEN [run |-> req.id, policy |-> req.policy, passed |-> passed]
                      ELSE judged
  /\ UNCHANGED <<repoVars, copy>>

(* http::write(), which may fail, and the shutdown. *)
Write ==
  /\ pc = "write"
  /\ EndSession
  /\ UNCHANGED <<repoVars, running, open, main, backlog, judged, sessions, terminated>>

ServerStep ==
  \/ Loop \/ NonBlocking("nonblock", "accept") \/ Accept \/ NonBlocking("block", "read")
  \/ ReadFails \/ (\E q \in Requests : Read(q))
  \/ (\E status \in {200, 400, 404, 405} : ReadOther(status)) \/ ReadThrows
  \/ HandleProjects \/ HandleProject \/ HandleScenarios \/ HandleRuns \/ HandlePolicies \/ Insert
  \/ EvaluateRun \/ EvaluatePolicy \/ Write

-----------------------------------------------------------------------------
(* Clients: connect, send the request, or close the connection. *)
Connect(c) ==
  /\ client[c] = "idle" /\ open /\ sessions < MaxSessions
  /\ client' = [client EXCEPT ![c] = "connected"]
  /\ backlog' = Append(backlog, c)
  /\ sessions' = sessions + 1
  /\ UNCHANGED <<repoVars, running, open, main, pc, peer, req, copy, answer, judged, terminated>>

Send(c) ==
  /\ client[c] = "connected"
  /\ client' = [client EXCEPT ![c] = "sent"]
  /\ UNCHANGED <<repoVars, running, open, main, pc, backlog, peer, req, copy, answer, judged,
                 sessions, terminated>>

Hangup(c) ==
  /\ client[c] = "connected"
  /\ client' = [client EXCEPT ![c] = "closed"]
  /\ UNCHANGED <<repoVars, running, open, main, pc, backlog, peer, req, copy, answer, judged,
                 sessions, terminated>>

(* A caller of the repository that finishes runs (no endpoint does). *)
FinishRun(r, status, result) ==
  /\ finish_run(r, status, result)
  /\ UNCHANGED <<running, open, main, threadVars, terminated>>

(* stop(): running_ = false *)
Stop ==
  /\ main = "serving"
  /\ running' = FALSE
  /\ main' = "close"
  /\ UNCHANGED <<repoVars, open, threadVars, terminated>>

(* acceptor_.close(): connections that were not accepted are reset. *)
Close ==
  /\ main = "close"
  /\ open' = FALSE
  /\ client' = [c \in Clients |-> IF c # peer THEN "idle" ELSE client[c]]
  /\ backlog' = <<>>
  /\ main' = "join"
  /\ UNCHANGED <<repoVars, running, pc, peer, req, copy, answer, judged, sessions, terminated>>

Join ==
  /\ main = "join" /\ pc = "ended"
  /\ main' = "returned"
  /\ UNCHANGED <<repoVars, running, open, threadVars, terminated>>

Next ==
  /\ ~ terminated
  /\ \/ ServerStep \/ Stop \/ Close \/ Join
     \/ \E c \in Clients : Connect(c) \/ Send(c) \/ Hangup(c)
     \/ \E r \in Ids, s \in Outcomes, f \in Results : FinishRun(r, s, f)

Spec == Init /\ [][Next]_vars

(* The two threads run; a client need not say anything. *)
FairSpec == Spec /\ WF_vars(~ terminated /\ ServerStep) /\ WF_vars(~ terminated /\ (Close \/ Join))

-----------------------------------------------------------------------------
(* Types. *)
TypeOK ==
  /\ projects \subseteq Ids /\ ids \in 0 .. MaxIds
  /\ DOMAIN scenarios \subseteq Ids /\ DOMAIN runs \subseteq Ids /\ DOMAIN policies \subseteq Ids
  /\ \A r \in DOMAIN runs : runs[r].status \in Statuses
  /\ client \in [Clients -> {"idle", "connected", "sent", "closed"}]
  /\ peer \in Clients \cup {NoPeer}
  /\ pc \in {"read", "handle", "insert", "policy", "write"} => peer # NoPeer /\ client[peer] # "idle"

(* No scenario, run or policy outlives its project, although the create    *)
(* operations look for the project in one critical section and store the   *)
(* object in another: the accept thread serves one connection at a time.   *)
NoOrphans ==
  /\ \A s \in DOMAIN scenarios : scenarios[s] \in projects
  /\ \A r \in DOMAIN runs : runs[r].project \in projects
  /\ \A l \in DOMAIN policies : policies[l].project \in projects

Holds(op, a, b) ==
  <<op, a, b>> \in {<<o, x, y>> \in {"<", "<=", ">", ">=", "==", "!="} \X {a} \X {b} :
    \/ x < y /\ o \in {"<", "<=", "!="}
    \/ x = y /\ o \in {"<=", ">=", "=="}
    \/ x > y /\ o \in {">", ">=", "!="}}

(* A verdict given on a finished run stays right: as long as the run and   *)
(* the policy exist, it passed exactly if every rule about a known metric  *)
(* holds for the result that is stored now.  finish_run() refuses a second *)
(* result, and evaluate() looks at every rule.                             *)
VerdictStands ==
  judged.run \in DOMAIN runs /\ judged.policy \in DOMAIN policies =>
    LET result == runs[judged.run].result
        rules  == policies[judged.policy].rules
    IN  judged.passed = \A i \in DOMAIN rules : rules[i].metric \in KnownMetrics =>
                          Holds(rules[i].op, result[rules[i].metric], rules[i].threshold)

(* The two together, in well-typed states: what the tables refer to is     *)
(* there, and what was said about it is still true.                        *)
StoreConsistent == TypeOK /\ NoOrphans /\ VerdictStands

Api == INSTANCE PlatformApi WITH
  Projects <- Ids,
  store <- [p \in projects |->
    [scenarios |-> {s \in DOMAIN scenarios : scenarios[s] = p},
     runs |-> [r \in {r \in DOMAIN runs : runs[r].project = p} |->
                 [status |-> runs[r].status, result |-> runs[r].result]],
     policies |-> [l \in {l \in DOMAIN policies : policies[l].project = p} |-> policies[l].rules]]],
  used <- ids,
  answer <- IF pc = "policy"
            THEN Verdict(<<req.op, req.id, req.policy>>,
                         /\ req.policy \in DOMAIN policies
                         /\ Passes(copy.result, policies[req.policy].rules))
            ELSE answer

(* Every request takes effect, and is answered from the state, at one      *)
(* instant, though creations and evaluations take two critical sections    *)
(* and a run may be finished between them: the server implements           *)
(* PlatformApi.  An evaluation happens when the run is read.               *)
Atomic == Api!Spec

WaitsForClient == pc = "read" /\ client[peer] = "connected"

(* stop() returns, unless the process ended or a client that is connected  *)
(* sends nothing for ever: the read has no deadline.                       *)
StopReturns == main = "close" ~> (main = "returned" \/ terminated \/ []WaitsForClient)

(* A client that sent its request is served, one after the other, unless   *)
(* the server is stopped, the process ended or another client is silent.   *)
ClientsServed ==
  \A c \in Clients :
    client[c] = "sent" ~> (client[c] = "idle" \/ ~ running \/ terminated \/ []WaitsForClient)
=============================================================================
