---------------------------- MODULE CommandLine -----------------------------
(***************************************************************************)
(* The volley command (tools/main.cpp): what main() does with its          *)
(* arguments, the direct mode with its worker threads, the scenario mode   *)
(* around ScenarioEngine::run(), the watcher thread, SIGINT, the exporter  *)
(* main() owns, the report and the exit code.                              *)
(*                                                                         *)
(* The engine is what main() sees of it: a call that makes callbacks and   *)
(* returns or throws, and a stop flag that run() clears when it starts     *)
(* (ScenarioEngine has its threads).  A request of the direct mode is its  *)
(* one completion handler (Http11Client has its phases).                   *)
(***************************************************************************)
EXTENDS PrometheusServer, ScenarioConfig

CONSTANTS
  Workers,          \* worker threads of the direct mode
  Argvs,            \* command lines: sequences of <<option, value>>
  Files,            \* the documents --config may name
  MaxRequests,      \* bound: requests of a behaviour
  max_error_rate    \* of the SLA of the configuration, in percent

VARIABLES
  args, file,
  mode,       \* none, direct or scenario
  main,       \* where main() is
  timed,      \* the run has an end; over: it has passed
  over,
  g_stop,     \* g_stop_requested
  watcher,    \* none, loop, tick, update (a snapshot is taken), stop or done
  snap,       \* the watcher's snapshot
  work,       \* of each worker: none, loop, slot, wait, drain, done or failed
  pending,    \* workers with a request whose handler has not run
  issued,     \* requests sent
  count,      \* the MetricsCollector: ok, slow and failed requests
  halt,       \* the engine's stopped_
  lost,       \* a stop() came before run() cleared the flag
  failed,     \* worker_failures is not 0; threw: run() threw
  threw,
  report,     \* total requests that print_results() showed, -1 before
  sla,        \* and whether the SLA passed
  exit        \* the exit code, "abort", or "none" before

runVars  == <<mode, timed>>
flagVars == <<over, g_stop, halt, lost>>
loadVars == <<work, pending, issued, count, failed, threw>>
endVars  == <<report, sla, exit>>
watchVars == <<watcher, snap>>
vars == <<serverVars, args, file, runVars, main, flagVars, watchVars, loadVars, endVars>>

Total == count.ok + count.slow + count.failed

(* parse_args(): --help and --version end it, an error does not; the last  *)
(* value of an option counts.                                              *)
parse_args(argv) ==
  LET ends == {i \in DOMAIN argv : argv[i][1] \in {"help", "version"}}
      opts == IF ends = {} THEN argv ELSE SubSeq(argv, 1, Min(ends) - 1)
      value(option) == LET at == {i \in DOMAIN opts : opts[i][1] = option}
                       IN  IF at = {} THEN "none" ELSE opts[Max(at)][2]
  IN  [parsed   |-> IF \E i \in DOMAIN opts : opts[i][1] = "unknown" \/ opts[i][2] = "invalid" THEN "error"
                    ELSE IF ends = {} THEN "ok" ELSE argv[Min(ends)][1],
       init     |-> value("init"),
       dry_run  |-> value("dry_run") # "none",
       config   |-> value("config") # "none",
       target   |-> value("target"),
       auth     |-> value("auth"),
       duration |-> value("duration")]

ReadsFile(a) == a.config /\ a.parsed = "ok" /\ a.init = "none"

Init ==
  /\ ServerInit
  /\ args \in {parse_args(argv) : argv \in Argvs} /\ file \in Files
  /\ ~ ReadsFile(args) => file = CHOOSE f \in Files : TRUE
  /\ mode = "none" /\ main = "setup"
  /\ timed = FALSE /\ over = FALSE /\ g_stop = FALSE
  /\ watcher = "none" /\ snap = 0
  /\ work = [w \in Workers |-> "none"] /\ pending = {}
  /\ issued = 0 /\ count = [ok |-> 0, slow |-> 0, failed |-> 0]
  /\ halt = FALSE /\ lost = FALSE
  /\ failed = FALSE /\ threw = FALSE
  /\ report = -1 /\ sla = FALSE /\ exit = "none"

-----------------------------------------------------------------------------
(* main(), up to the start of the load. *)

(* do_init(): the template is written, loaded and validated. *)
do_init(init) == IF init = "written" THEN "0" ELSE "1"

(* The verdict on a configuration file: an exception ends the program. *)
FileExit(f) == [true |-> "none", false |-> "1", throws |-> "abort"][Checked(f)]


do_dry_run(f) == IF FileExit(f) = "none" THEN "0" ELSE FileExit(f)

(* The early returns, in their order; "none" when the load starts. *)
SetupExit(a, f) ==
  CASE a.parsed = "error" -> "1"
    [] a.parsed \in {"help", "version"} -> "0"
    [] a.init # "none" -> do_init(a.init)
    [] a.dry_run -> IF a.config THEN do_dry_run(f) ELSE "1"
    [] a.config /\ FileExit(f) # "none" -> FileExit(f)
    [] ~ a.config /\ a.target = "none" -> "1"
    [] a.auth = "throws" -> "1"
    [] ~ a.config /\ a.target \in {"no_host", "bad_port"} -> "1"
    [] OTHER -> "none"

Setup ==
  /\ main = "setup"
  /\ LET code == SetupExit(args, file) IN
     /\ exit' = code
     /\ main' = IF code = "none" THEN "accepted" ELSE "exited"
     /\ mode' = CASE code # "none" -> "none" [] args.config -> "scenario" [] OTHER -> "direct"
  /\ UNCHANGED <<serverVars, args, file, timed, flagVars, watchVars, loadVars, report, sla>>

(* SIGINT or SIGTERM, once the handlers are installed. *)
signal_handler ==
  /\ main \notin {"setup", "exited"} /\ ~ g_stop
  /\ g_stop' = TRUE
  /\ UNCHANGED <<serverVars, args, file, runVars, main, over, halt, lost, watchVars, loadVars, endVars>>

(* The end time of a run that has one passes. *)
Clock ==
  /\ main \notin {"setup", "accepted", "exited"} /\ timed /\ ~ over
  /\ over' = TRUE
  /\ UNCHANGED <<serverVars, args, file, runVars, main, g_stop, halt, lost, watchVars, loadVars, endVars>>

-----------------------------------------------------------------------------
(* The direct mode. *)

ForgetArgs == args' = parse_args(<<>>) /\ file' = CHOOSE f \in Files : TRUE

StartDirect ==
  /\ main = "accepted" /\ mode = "direct"
  /\ main' = "join_workers"
  /\ timed' = (args.duration # "zero")
  /\ watcher' = "loop"
  /\ work' = [w \in Workers |-> "loop"]
  /\ ForgetArgs
  /\ UNCHANGED <<serverVars, mode, flagVars, snap, pending, issued, count, failed, threw, endVars>>

WorkerUnchanged == <<serverVars, args, file, runVars, main, flagVars, watchVars, threw, endVars>>

(* The head of the loop lets the worker wait for its slot. *)
WorkerSlot(w) ==
  /\ work[w] = "loop" /\ ~ g_stop /\ ~ over
  /\ work' = [work EXCEPT ![w] = "slot"]
  /\ UNCHANGED <<WorkerUnchanged, pending, issued, count, failed>>

(* No token: back to the head. *)
WorkerRefused(w) ==
  /\ work[w] = "slot"
  /\ work' = [work EXCEPT ![w] = "loop"]
  /\ UNCHANGED <<WorkerUnchanged, pending, issued, count, failed>>

(* A token: the request goes out, whatever happened since the head. *)
WorkerSends(w) ==
  /\ work[w] = "slot" /\ issued < MaxRequests
  /\ work' = [work EXCEPT ![w] = "wait"]
  /\ pending' = pending \cup {w}
  /\ issued' = issued + 1
  /\ UNCHANGED <<WorkerUnchanged, count, failed>>


(* The loop ends: at its head, after the slot, or when run_one() is back   *)
(* from a handler of the request under way.                                *)
WorkerLeaves(w) ==
  /\ \/ work[w] = "loop" /\ (g_stop \/ over)
     \/ work[w] = "slot" /\ over
     \/ work[w] = "wait" /\ g_stop
  /\ work' = [work EXCEPT ![w] = "drain"]
  /\ UNCHANGED <<WorkerUnchanged, pending, issued, count, failed>>

Counted(outcome) == [count EXCEPT ![outcome] = @ + 1]

(* The completion handler, in run_one() or in the run() that drains. *)
WorkerHandler(w, outcome) ==
  /\ w \in pending /\ work[w] \in {"wait", "drain"}
  /\ count' = Counted(outcome)
  /\ pending' = pending \ {w}
  /\ work' = [work EXCEPT ![w] = IF @ = "wait" THEN "loop" ELSE @]
  /\ UNCHANGED <<WorkerUnchanged, issued, failed>>

(* The io_context has nothing left. *)
WorkerDone(w) ==
  /\ work[w] = "drain" /\ w \notin pending
  /\ work' = [work EXCEPT ![w] = "done"]
  /\ UNCHANGED <<WorkerUnchanged, pending, issued, count, failed>>

(* An exception ends the worker, with the request it waits for. *)
WorkerThrows(w) ==
  /\ work[w] \in {"slot", "wait", "drain"}
  /\ work' = [work EXCEPT ![w] = "failed"]
  /\ pending' = pending \ {w}
  /\ failed' = TRUE
  /\ UNCHANGED <<WorkerUnchanged, issued, count>>


(* The workers are joined, or run() is back: the watcher is told. *)
LoadOver ==
  /\ \/ main = "join_workers" /\ \A w \in Workers : work[w] \in {"done", "failed"}
     \/ main = "returned"
  /\ g_stop' = TRUE
  /\ main' = "join_watcher"
  /\ UNCHANGED <<serverVars, args, file, runVars, over, halt, lost, watchVars, loadVars, endVars>>

-----------------------------------------------------------------------------
(* The scenario mode. *)

(* Every stage has a duration, or there is a cap; without stages the       *)
(* engine runs one default stage.                                          *)
HasEnd(a, f) == a.duration = "positive" \/ \A i \in DOMAIN f.stages : parse_duration(f.stages[i].duration) > 0

(* The exporter is started if the file asks for it, then the watcher. *)
StartScenario(ok) ==
  /\ main = "accepted" /\ mode = "scenario"
  /\ main' = "run"
  /\ timed' = HasEnd(args, file)
  /\ watcher' = "loop"
  /\ StartServer(ok /\ file.prometheus = "on")
  /\ ForgetArgs
  /\ UNCHANGED <<mode, flagVars, snap, loadVars, endVars>>

(* run() clears stopped_. *)
EngineRun ==
  /\ main = "run"
  /\ main' = "running"
  /\ halt' = FALSE
  /\ lost' = halt
  /\ UNCHANGED <<serverVars, args, file, runVars, over, g_stop, watchVars, loadVars, endVars>>

(* The step callback; an assertion that fails makes the request a failed   *)
(* one.                                                                    *)
Callback(outcome) ==
  /\ main = "running" /\ issued < MaxRequests
  /\ issued' = issued + 1
  /\ count' = Counted(outcome)
  /\ UNCHANGED <<serverVars, args, file, runVars, main, flagVars, watchVars, work, pending, failed,
                 threw, endVars>>

(* run() ends: by itself, refused, stopped, with a failed worker, or by an *)
(* exception.                                                              *)
EngineReturns(how) ==
  /\ main = "running"
  /\ main' = "returned"
  /\ failed' = (how = "failed") /\ threw' = (how = "threw")
  /\ UNCHANGED <<serverVars, args, file, runVars, flagVars, watchVars, work, pending, issued, count, endVars>>

-----------------------------------------------------------------------------
(* The watcher. *)

WatcherUnchanged == <<args, file, runVars, main, loadVars, endVars>>

WatcherMayLeave == g_stop \/ (mode = "direct" /\ over)

(* The loop goes on: it sleeps, and may have nothing to do. *)
WatcherTick ==
  /\ \/ watcher = "loop" /\ ~ WatcherMayLeave /\ watcher' = "tick"
     \/ watcher = "tick" /\ watcher' = "loop"
  /\ UNCHANGED <<WatcherUnchanged, serverVars, flagVars, snap>>

(* update_metrics(), once a second: the snapshot is taken here. *)
WatcherSnapshot ==
  /\ watcher = "tick" /\ mode = "scenario" /\ running
  /\ snap' = Total
  /\ watcher' = "update"
  /\ UNCHANGED <<WatcherUnchanged, serverVars, flagVars>>

(* And stored here. *)
WatcherStore ==
  /\ watcher = "update"
  /\ StoreMetrics(snap)
  /\ watcher' = "loop" /\ snap' = 0
  /\ UNCHANGED <<WatcherUnchanged, flagVars>>

(* The loop ends; that of the direct mode at the end time too. *)
WatcherLeaves ==
  /\ watcher = "loop" /\ WatcherMayLeave
  /\ watcher' = IF mode = "scenario" THEN "stop" ELSE "done"
  /\ UNCHANGED <<WatcherUnchanged, serverVars, flagVars, snap>>

(* engine->stop() *)
WatcherStops ==
  /\ watcher = "stop"
  /\ halt' = TRUE
  /\ watcher' = "done"
  /\ UNCHANGED <<WatcherUnchanged, serverVars, over, g_stop, lost, snap>>

-----------------------------------------------------------------------------
(* The end of main(). *)

MainUnchanged == <<args, file, runVars, flagVars, watchVars, loadVars>>

(* Mutant: the watcher is not waited for. *)
WatcherNotJoined ==
  /\ main = "join_watcher"
  /\ main' = CASE mode = "direct" -> "report" [] running /\ ~ threw -> "update" [] OTHER -> "stopping"
  /\ UNCHANGED <<MainUnchanged, serverVars, endVars>>

WatcherJoined ==
  /\ main = "join_watcher" /\ watcher = "done"
  /\ main' = CASE mode = "direct" -> "report" [] running /\ ~ threw -> "update" [] OTHER -> "stopping"
  /\ UNCHANGED <<MainUnchanged, serverVars, endVars>>

(* The last update_metrics(). *)
FinalUpdate ==
  /\ main = "update"
  /\ StoreMetrics(Total)
  /\ main' = "stopping"
  /\ UNCHANGED <<MainUnchanged, endVars>>

(* stop(), called by main() or by the destructor after an exception. *)
StopServer ==
  /\ main = "stopping"
  /\ StopAccepting \/ JoinIo \/ JoinHandlers
  /\ UNCHANGED <<MainUnchanged, main, endVars>>

ServerStopped ==
  /\ main = "stopping" /\ Stopped
  /\ main' = IF threw THEN "exited" ELSE "report"
  /\ exit' = IF threw THEN "3" ELSE exit
  /\ UNCHANGED <<MainUnchanged, serverVars, report, sla>>

(* The sample the collector reports as p99 is a slow one. *)
P99Slow == Total > 0 /\ (Total * 99) \div 100 >= Total - count.slow

(* The SLA of the direct mode is fixed; check_sla() has the file's. *)
SlaPassed ==
  /\ count.failed * 100 <= (IF mode = "direct" THEN 10 ELSE max_error_rate) * Total
  /\ ~ P99Slow

(* Mutant: the failure of a worker is only printed. *)
ReportSlaOnly ==
  /\ main = "report"
  /\ report' = Total
  /\ sla' = SlaPassed
  /\ exit' = IF SlaPassed THEN "0" ELSE "2"
  /\ main' = "exited"
  /\ UNCHANGED <<MainUnchanged, serverVars>>

(* print_results() and the exit code. *)
print_results ==
  /\ main = "report"
  /\ report' = Total
  /\ sla' = (SlaPassed /\ (mode = "scenario" => ~ failed))
  /\ exit' = CASE failed -> "3" [] SlaPassed -> "0" [] OTHER -> "2"
  /\ main' = "exited"
  /\ UNCHANGED <<MainUnchanged, serverVars>>

-----------------------------------------------------------------------------
Outcomes == {"ok", "slow", "failed"}

WorkerStep(w) ==
  \/ WorkerSlot(w) \/ WorkerRefused(w) \/ WorkerSends(w) \/ WorkerLeaves(w) \/ WorkerDone(w)
  \/ \E outcome \in Outcomes : WorkerHandler(w, outcome)

WatcherStep == WatcherTick \/ WatcherSnapshot \/ WatcherStore \/ WatcherLeaves \/ WatcherStops

MainStep ==
  \/ Setup \/ StartDirect \/ (\E ok \in BOOLEAN : StartScenario(ok)) \/ EngineRun
  \/ LoadOver \/ WatcherJoined \/ FinalUpdate \/ StopServer \/ ServerStopped \/ print_results

EngineStep == \E how \in {"done", "failed", "threw"} : EngineReturns(how)

ClientStep(c) ==
  /\ \/ ClientConnects(c) \/ Accepted(c) \/ do_accept(c) \/ HandlerEnds(c)
     \/ \E asks \in {"metrics", "other"} : handle_request(c, asks)
  /\ UNCHANGED <<MainUnchanged, main, endVars>>

Exited == main = "exited"

Next ==
  \/ MainStep \/ WatcherStep \/ EngineStep \/ signal_handler \/ Clock
  \/ \E outcome \in Outcomes : Callback(outcome)
  \/ \E w \in Workers : WorkerStep(w) \/ WorkerThrows(w)
  \/ \E c \in Clients : ClientStep(c)
  \/ Exited /\ UNCHANGED vars

(* The program's own threads run and time passes.  The engine returns once *)
(* it is stopped or its time is over; nothing is asked of the clients of   *)
(* the exporter.                                                           *)
Spec ==
  /\ Init /\ [][Next]_vars
  /\ WF_vars(MainStep) /\ WF_vars(WatcherStep) /\ WF_vars(Clock)
  /\ WF_vars((halt \/ over) /\ EngineStep)
  /\ \A w \in Workers : WF_vars(WorkerStep(w))
  /\ \A c \in Clients : WF_vars(HandlerEnds(c) /\ UNCHANGED <<MainUnchanged, main, endVars>>)

-----------------------------------------------------------------------------
(* Properties. *)

TypeOK ==
  /\ main \in {"setup", "accepted", "join_workers", "run", "running", "returned", "join_watcher",
               "update", "stopping", "report", "exited"}
  /\ watcher \in {"none", "loop", "tick", "update", "stop", "done"}
  /\ work \in [Workers -> {"none", "loop", "slot", "wait", "drain", "done", "failed"}]
  /\ pending \subseteq Workers /\ issued \in 0 .. MaxRequests
  /\ Total + Cardinality(pending) <= issued
  /\ conn \in [Clients -> {"away", "queued", "accepted", "refused", "reading", "answered", "ended"}]
  /\ exit \in {"none", "0", "1", "2", "3", "abort"}


(* The exit codes mean what the help text says: 3 exactly when a worker or *)
(* run() failed; 2 and 0 are the verdict of the SLA on the counts that     *)
(* were reported; 1 before anything was started or sent (main.cpp:240).    *)
ExitMeaning ==
  Exited =>
    /\ (exit = "3") = (failed \/ threw)
    /\ exit = "2" => report = Total /\ ~ SlaPassed
    /\ exit = "0" /\ mode # "none" => report = Total /\ SlaPassed
    /\ exit = "1" => mode = "none" /\ issued = 0 /\ watcher = "none" /\ io = "none"

(* No thread outlives main(): workers, watcher, the exporter's io thread   *)
(* and the threads of its connections, one accepted while stop() waited    *)
(* included (prometheus_exporter_embedded.cpp:97).                         *)
AllJoined ==
  Exited =>
    /\ watcher \in {"none", "done"} /\ io \in {"none", "joined"}
    /\ \A w \in Workers : work[w] \in {"none", "done", "failed"}
    /\ \A c \in Clients : conn[c] \notin {"accepted", "reading", "answered"}

(* The counter /metrics shows never goes down from one scrape to the next: *)
(* the last update of main() comes after the watcher's last one.           *)
ScrapesGrow == [][scraped' >= scraped]_scraped

(* Connections that are served never exceed kMaxConnections, and the       *)
(* counter agrees with the threads that have not ended.                    *)
Connections ==
  /\ active <= kMaxConnections
  /\ active = Cardinality({c \in Clients : conn[c] \in {"reading", "answered"}})

(* The two together, in well-typed states: the threads of the program are  *)
(* limited while it runs and gone when it ends.                            *)
ThreadsBounded == TypeOK /\ AllJoined /\ Connections


(* Of the picks from 0 to the total weight, each scenario of an accepted   *)
(* file gets as many as its weight says, and one with weight 0 still gets  *)
(* one; each has a step to send (engine.cpp:86).                           *)
PicksByWeight ==
  main = "accepted" /\ mode = "scenario" =>
    \A i \in DOMAIN file.scenarios :
      /\ Steps(file.scenarios[i]) # <<>>
      /\ Cardinality({pick \in 0 .. TotalWeight(file.scenarios) - 1 :
                        pick_weighted_scenario(file.scenarios, pick) = i}) = Weight(file.scenarios[i])

(* An assertion of an accepted file that its evaluation can read, and the  *)
(* one with the opposite operator, never have the same value: at the       *)
(* bound, below it and above it, exactly one holds (engine.cpp:56).        *)
OppositesDiffer ==
  main = "accepted" /\ mode = "scenario" =>
    \A i \in DOMAIN file.scenarios :
      LET steps == Steps(file.scenarios[i])
          opposite == [op \in kValid |->
            CASE op = <<"=", "=">> -> <<"!", "=">> [] op = <<"!", "=">> -> <<"=", "=">>
              [] op = <<"<">> -> <<">", "=">> [] op = <<">", "=">> -> <<"<">>
              [] op = <<">">> -> <<"<", "=">> [] op = <<"<", "=">> -> <<">">>]
      IN  \A j \in DOMAIN steps : \A k \in DOMAIN steps[j].assertions :
            LET a == steps[j].assertions[k]
                bound == IF a.lhs = "latency" THEN parse_duration_us(a.rhs) ELSE a.rhs.number
            IN  a.spaced /\ a.given /\ a.op \in kValid /\ a.lhs # "other" /\ bound >= 0 =>
                  \A v \in bound - 1 .. bound + 1 :
                    LET response == [status_code |-> v, latency |-> v] IN
                    evaluate_assertion(a, response)
                      # evaluate_assertions([assertions |-> <<[a EXCEPT !.op = opposite[a.op]]>>], response)

(* The three parsers of times agree on the units they share: ms and s      *)
(* everywhere, m and h between the stages and the assertions.              *)
UnitsAgree ==
  \A i \in DOMAIN file.stages :
    LET q == file.stages[i].duration IN
    /\ q.unit \in {"ms", "s"} /\ q.number # Bad => parse_latency(q) = parse_duration(q)
    /\ q.unit \in {"ms", "s", "m", "h"} /\ q.number # Bad /\ parse_duration_us(q) >= 0 /\ parse_duration(q) < MsMax
         => parse_duration_us(q) = Thousand * parse_duration(q)


=============================================================================
