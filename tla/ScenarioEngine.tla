--------------------------- MODULE ScenarioEngine ---------------------------
(***************************************************************************)
(* ScenarioEngine::run() (core/scenario/engine.cpp) for the http1.1        *)
(* protocol: the thread that runs the stages, the worker threads of a      *)
(* stage, the io_context they share, the ConnectionPool, and another       *)
(* thread that calls stop().                                               *)
(*                                                                         *)
(* Time is two flags: the stage deadline and the global cap have passed.   *)
(* A request is one completion that any worker inside run_one() may        *)
(* execute: the phases inside Http11Client are not told apart.  The token  *)
(* bucket grants or refuses as it likes.                                   *)
(***************************************************************************)
EXTENDS Integers, Sequences, FiniteSets, FiniteSetsExt

CONSTANTS
  Users,                \* concurrent_users of the stages of the load_profile
  kDefaultConcurrency,  \* workers of a stage that names no number
  Configs,              \* the configurations to run, see Config
  kAcquireAttempts,     \* tries of a worker to get a client (200 in the code)
  MaxStops              \* bound: stop() calls of a behaviour

VARIABLES
  pools, total_created, held, dropped, clock, sweep,  \* the ConnectionPool
  cfg,         \* the configuration of this run, which never changes
  stopped,     \* stopped_
  active,      \* active_ioc_ is set
  ioc,         \* the io_context: "running" or "stopped"
  failures,    \* worker_failures_
  eng,         \* where run() is
  st,          \* stage_idx, from 1
  ext,         \* externally_stopped
  expired,     \* stage_end has passed
  capped,      \* global_end has passed
  pc,          \* where each worker is
  attempts,    \* its failed acquire() calls
  client,      \* the client it holds, 0 for none
  done,        \* last_done: "none", or whether it is set
  inflight,    \* requests whose completion handler has not run
  stopper,     \* where the caller of stop() is
  stops,       \* stop() calls so far
  stopping,    \* a stop() began after run() had registered its io_context
  threw        \* the callback threw an exception

poolVars == <<pools, total_created, held, dropped, clock, sweep>>
engVars  == <<eng, st, ext, active>>
workVars == <<pc, attempts, client, done>>
stopVars == <<stopper, stops, stopping>>
timeVars == <<expired, capped>>
rest     == <<poolVars, timeVars, workVars, inflight, stopVars, cfg, threw>>
vars     == <<poolVars, stopped, ioc, failures, engVars, timeVars, workVars, inflight,
              stopVars, cfg, threw>>

-----------------------------------------------------------------------------
(* The configuration. *)

(* What a run depends on besides Users: which stages have a duration,      *)
(* whether set_max_duration() was called, whether any scenario has a step, *)
(* and whether the caller's StepCallback may throw.                        *)
Config == [timed : [DOMAIN Users -> BOOLEAN], capped : BOOLEAN, any_steps : BOOLEAN,
           may_throw : BOOLEAN]

(* An empty load_profile runs one default stage. *)
stages == IF Users = <<>> THEN <<kDefaultConcurrency>> ELSE Users

Timed(i) == Users = <<>> \/ cfg.timed[i]

concurrency == IF stages[1] = 0 THEN kDefaultConcurrency ELSE stages[1]

stage_concurrency(i) == IF stages[i] > 0 THEN stages[i] ELSE concurrency

(* Mutant: the pool is sized for the first stage. *)
pool_max_first == concurrency

(* The pool must cover the peak stage concurrency. *)
pool_max == Max({concurrency} \cup {stage_concurrency(i) : i \in DOMAIN stages})

HasDeadline(i) == Timed(i) \/ cfg.capped

Workers == 1 .. Max({stage_concurrency(i) : i \in DOMAIN stages})
Clients == 1 .. Max({stage_concurrency(i) : i \in DOMAIN stages})
Host    == "host"

Pool == INSTANCE ConnectionPool WITH
          Keys <- {Host}, max_connections <- pool_max, idle_timeout <- 0, MaxClock <- 0

Requests == [w : Workers, st : DOMAIN stages, c : Clients]

Init ==
  /\ Pool!Init
  /\ cfg \in Configs /\ threw = FALSE
  /\ stopped = FALSE /\ active = FALSE /\ ioc = "running"
  /\ failures = 0
  /\ eng = "start" /\ st = 1 /\ ext = FALSE
  /\ expired = FALSE /\ capped = FALSE
  /\ pc = [w \in Workers |-> "exited"]
  /\ attempts = [w \in Workers |-> 0]
  /\ client = [w \in Workers |-> 0]
  /\ done = [w \in Workers |-> "none"]
  /\ inflight = {}
  /\ stopper = "idle" /\ stops = 0 /\ stopping = FALSE

-----------------------------------------------------------------------------
(* run(): the stage loop. *)

(* stopped_ is cleared, and then the io_context becomes visible to stop(). *)
RunStart ==
  /\ eng = "start"
  /\ stopped' = FALSE
  /\ eng' = "register"
  /\ UNCHANGED <<rest, ioc, failures, st, ext, active>>

RunRegister ==
  /\ eng = "register"
  /\ active' = TRUE
  /\ eng' = "stage"
  /\ UNCHANGED <<rest, stopped, ioc, failures, st, ext>>

(* The loop ends: no stage is left, or stopped_ is set. *)
StagesDone ==
  /\ eng = "stage"
  /\ st > Len(stages) \/ stopped
  /\ eng' = "finish"
  /\ UNCHANGED <<rest, stopped, ioc, failures, st, ext, active>>

(* The global cap passed between two stages. *)
StageCapped ==
  /\ eng = "stage"
  /\ st <= Len(stages) /\ ~stopped /\ capped
  /\ stopped' = TRUE
  /\ ioc' = "stopped"
  /\ eng' = "finish"
  /\ UNCHANGED <<rest, failures, st, ext, active>>

(* Fix the deadline and start the stage's workers. *)
StageSpawn ==
  /\ eng = "stage"
  /\ st <= Len(stages) /\ ~stopped /\ ~capped
  /\ expired' = FALSE
  /\ pc' = [w \in Workers |-> IF w <= stage_concurrency(st) THEN "acquire" ELSE "exited"]
  /\ attempts' = [w \in Workers |-> 0]
  /\ done' = [w \in Workers |-> "none"]
  /\ eng' = "spawned"
  /\ UNCHANGED <<poolVars, stopped, ioc, failures, st, ext, active, capped, client, inflight,
                 stopVars, cfg, threw>>

(* externally_stopped = stopped_ *)
MonitorBegin ==
  /\ eng = "spawned"
  /\ ext' = stopped
  /\ eng' = "monitor"
  /\ UNCHANGED <<rest, stopped, ioc, failures, st, active>>

(* Without a deadline the workers are joined at once. *)
MonitorChoose ==
  /\ eng = "monitor"
  /\ eng' = IF HasDeadline(st) /\ ~stopped THEN "sleep" ELSE "join"
  /\ UNCHANGED <<rest, stopped, ioc, failures, st, ext, active>>

(* The 100 ms sleeps end at the deadline, on stopped_ or on a failure. *)
MonitorWake ==
  /\ eng = "sleep"
  /\ expired \/ stopped \/ failures > 0
  /\ eng' = "mark"
  /\ UNCHANGED <<rest, stopped, ioc, failures, st, ext, active>>

MonitorMark ==
  /\ eng = "mark"
  /\ ext' = (stopped \/ failures > 0)
  /\ eng' = "setstop"
  /\ UNCHANGED <<rest, stopped, ioc, failures, st, active>>

MonitorStop ==
  /\ eng = "setstop"
  /\ stopped' = TRUE
  /\ eng' = "stopioc"
  /\ UNCHANGED <<rest, ioc, failures, st, ext, active>>

(* Mutant: the io_context is left running when the stage ends. *)
MonitorLeaveIoc ==
  /\ eng = "stopioc"
  /\ eng' = "join"
  /\ UNCHANGED <<rest, stopped, ioc, failures, st, ext, active>>

(* Unblock the workers parked in run_one(). *)
MonitorStopIoc ==
  /\ eng = "stopioc"
  /\ ioc' = "stopped"
  /\ eng' = "join"
  /\ UNCHANGED <<rest, stopped, failures, st, ext, active>>

JoinWorkers ==
  /\ eng = "join"
  /\ \A w \in Workers : pc[w] = "exited"
  /\ eng' = "joined"
  /\ UNCHANGED <<rest, stopped, ioc, failures, st, ext, active>>

(* Mutant: a failure after externally_stopped was read is overlooked. *)
KeepGoingUnlessStopped == st < Len(stages) /\ ~ext

(* Another stage follows and this one ended by its deadline. *)
KeepGoing == st < Len(stages) /\ ~ext /\ failures = 0

(* ioc->restart(), or straight on to the loop's test of stopped_. *)
StageNext ==
  /\ eng = "joined"
  /\ IF KeepGoing
     THEN /\ ioc' = "running" /\ eng' = "clear"
          /\ UNCHANGED st
     ELSE /\ eng' = "stage" /\ st' = st + 1
          /\ UNCHANGED ioc
  /\ UNCHANGED <<rest, stopped, failures, ext, active>>

(* stopped_ = false, after the restart. *)
StageClear ==
  /\ eng = "clear"
  /\ stopped' = FALSE
  /\ eng' = "stage"
  /\ st' = st + 1
  /\ UNCHANGED <<rest, ioc, failures, ext, active>>

RunFinish ==
  /\ eng = "finish"
  /\ active' = FALSE
  /\ eng' = "done"
  /\ UNCHANGED <<rest, stopped, ioc, failures, st, ext>>

RunStep ==
  \/ RunStart \/ RunRegister \/ StagesDone \/ StageCapped \/ StageSpawn
  \/ MonitorBegin \/ MonitorChoose \/ MonitorWake \/ MonitorMark \/ MonitorStop
  \/ MonitorStopIoc \/ JoinWorkers \/ StageNext \/ StageClear \/ RunFinish

-----------------------------------------------------------------------------
(* A worker thread. *)

wrest == <<stopped, ioc, engVars, timeVars, stopVars, cfg>>
calm  == <<wrest, threw>>

Goto(w, l) == pc' = [pc EXCEPT ![w] = l]

(* Mutant: a client goes back to the pool whatever became of its request. *)
GiveBackAlways(w, drop) ==
  /\ Pool!Release(Host, client[w])
  /\ client' = [client EXCEPT ![w] = 0]

(* ~ClientGuard(): a client with an unanswered request is not pooled. *)
GiveBack(w, drop) ==
  /\ IF drop THEN Pool!Drop(Host, client[w]) ELSE Pool!Release(Host, client[w])
  /\ client' = [client EXCEPT ![w] = 0]


(* The pool hands out a client. *)
AcquireClient(w) ==
  /\ pc[w] = "acquire"
  /\ \E c \in Clients : /\ Pool!Acquire(Host, c)
                         /\ client' = [client EXCEPT ![w] = c]
  /\ Goto(w, IF cfg.any_steps THEN "loop" ELSE "fail")
  /\ UNCHANGED <<calm, failures, attempts, done, inflight>>

(* acquire() returned nullptr: sleep and try again, or give up. *)
AcquireNull(w) ==
  /\ pc[w] = "acquire"
  /\ Pool!Exhausted(Host)
  /\ attempts' = [attempts EXCEPT ![w] = @ + 1]
  /\ IF attempts[w] + 1 < kAcquireAttempts
     THEN UNCHANGED <<pc, failures>>
     ELSE Goto(w, "exited") /\ failures' = failures + 1
  /\ UNCHANGED <<poolVars, calm, client, done, inflight>>

(* fail_worker() and return, for a configuration without steps. *)
FailWorker(w) ==
  /\ pc[w] = "fail"
  /\ failures' = failures + 1
  /\ GiveBack(w, FALSE)
  /\ Goto(w, "exited")
  /\ UNCHANGED <<calm, attempts, done, inflight>>

(* while (!stopped_), and the test of the deadline. *)
LoopTest(w) ==
  /\ pc[w] = "loop"
  /\ Goto(w, IF stopped \/ expired THEN "leave" ELSE "slot")
  /\ UNCHANGED <<poolVars, calm, failures, attempts, client, done, inflight>>

(* The slot came but there is no token, or the deadline passed meanwhile. *)
SlotMissed(w) ==
  /\ pc[w] = "slot"
  /\ Goto(w, IF expired THEN "leave" ELSE "loop")
  /\ UNCHANGED <<poolVars, calm, failures, attempts, client, done, inflight>>

(* async_request(): the request is under way. *)
IssueRequest(w) ==
  /\ pc[w] = "slot"
  /\ done' = [done EXCEPT ![w] = "no"]
  /\ inflight' = inflight \cup {[w |-> w, st |-> st, c |-> client[w]]}
  /\ Goto(w, "wait")
  /\ UNCHANGED <<poolVars, calm, failures, attempts, client>>

(* async_request() could not build the request and ran the handler itself. *)
IssueFails(w) ==
  /\ pc[w] = "slot"
  /\ done' = [done EXCEPT ![w] = "yes"]
  /\ Goto(w, "wait")
  /\ UNCHANGED <<poolVars, calm, failures, attempts, client, inflight>>

(* The same, and the callback throws. *)
IssueThrows(w) ==
  /\ cfg.may_throw
  /\ pc[w] = "slot"
  /\ done' = [done EXCEPT ![w] = "no"]
  /\ GiveBack(w, FALSE)
  /\ failures' = failures + 1
  /\ Goto(w, "exited")
  /\ threw' = TRUE
  /\ UNCHANGED <<wrest, attempts, inflight>>

(* while (!done && !stopped_) *)
WaitTest(w) ==
  /\ pc[w] = "wait"
  /\ Goto(w, IF done[w] = "yes" \/ stopped THEN "loop" ELSE "run_one")
  /\ UNCHANGED <<poolVars, calm, failures, attempts, client, done, inflight>>

(* run_one() on a stopped io_context returns at once. *)
RunOneStopped(w) ==
  /\ pc[w] = "run_one"
  /\ ioc = "stopped"
  /\ Goto(w, "wait")
  /\ UNCHANGED <<poolVars, calm, failures, attempts, client, done, inflight>>

(* run_one() waits until a request is answered, fails or times out, and    *)
(* executes its completion handler, of any worker and of any stage: it     *)
(* records the request, calls the callback and sets done.                  *)
RunOne(w) ==
  /\ pc[w] = "run_one"
  /\ ioc = "running"
  /\ \E r \in inflight :
       /\ inflight' = inflight \ {r}
       /\ done' = IF r.st = st THEN [done EXCEPT ![r.w] = "yes"] ELSE done
  /\ Goto(w, "wait")
  /\ UNCHANGED <<poolVars, calm, failures, attempts, client>>

(* The callback throws out of run_one(): the worker that executed the      *)
(* handler unwinds, its guard releases the client, and the request's done  *)
(* stays unset.                                                            *)
RunOneThrows(w) ==
  /\ cfg.may_throw
  /\ pc[w] = "run_one"
  /\ ioc = "running"
  /\ \E r \in inflight : inflight' = inflight \ {r}
  /\ GiveBack(w, FALSE)
  /\ failures' = failures + 1
  /\ Goto(w, "exited")
  /\ threw' = TRUE
  /\ UNCHANGED <<wrest, attempts, done>>

(* The end of the worker: drop is set if the last request is unanswered. *)
Leave(w) ==
  /\ pc[w] = "leave"
  /\ GiveBack(w, done[w] = "no")
  /\ Goto(w, "exited")
  /\ UNCHANGED <<calm, failures, attempts, done, inflight>>

WorkerStep(w) ==
  \/ AcquireClient(w) \/ AcquireNull(w)  \/ FailWorker(w) \/ LoopTest(w)
  \/ SlotMissed(w)    \/ IssueRequest(w) \/ IssueFails(w) \/ IssueThrows(w)
  \/ WaitTest(w)      \/ RunOneStopped(w) \/ RunOne(w)    \/ RunOneThrows(w)
  \/ Leave(w)

-----------------------------------------------------------------------------
(* The clock and the caller of stop(). *)

StageRunning == eng \in {"spawned", "monitor", "sleep", "mark", "setstop", "stopioc", "join"}

(* stage_end passes. *)
DeadlinePasses ==
  /\ StageRunning /\ Timed(st) /\ ~expired
  /\ expired' = TRUE
  /\ UNCHANGED <<poolVars, stopped, ioc, failures, engVars, capped, workVars, inflight,
                 stopVars, cfg, threw>>

(* global_end passes; stage_end is never later. *)
CapPasses ==
  /\ cfg.capped /\ ~capped /\ eng \notin {"start", "register"}
  /\ capped' = TRUE
  /\ expired' = TRUE
  /\ UNCHANGED <<poolVars, stopped, ioc, failures, engVars, workVars, inflight, stopVars, cfg,
                 threw>>

(* stop(): stopped_ first, then the io_context if there is one. *)
StopFlag ==
  /\ stopper = "idle" /\ stops < MaxStops
  /\ stopped' = TRUE
  /\ stopper' = "ioc"
  /\ stops' = stops + 1
  /\ stopping' = (stopping \/ active)
  /\ UNCHANGED <<poolVars, ioc, failures, engVars, timeVars, workVars, inflight, cfg,
                 threw>>

(* Mutant: the io_context is not stopped. *)
StopIocForgotten ==
  /\ stopper = "ioc"
  /\ stopper' = "idle"
  /\ UNCHANGED <<poolVars, stopped, ioc, failures, engVars, timeVars, workVars, inflight,
                 stops, stopping, cfg, threw>>

StopIoc ==
  /\ stopper = "ioc"
  /\ ioc' = IF active THEN "stopped" ELSE ioc
  /\ stopper' = "idle"
  /\ UNCHANGED <<poolVars, stopped, failures, engVars, timeVars, workVars, inflight, stops,
                 stopping, cfg, threw>>

Terminated == eng = "done" /\ stopper = "idle" /\ UNCHANGED vars

Next ==
  \/ RunStep
  \/ \E w \in Workers : WorkerStep(w)
  \/ DeadlinePasses \/ CapPasses
  \/ StopFlag \/ StopIoc
  \/ Terminated

Spec == Init /\ [][Next]_vars

(* Threads run, requests end in an answer or a timeout, and time passes.   *)
(* Nothing obliges anybody to call stop(), but a call that began returns.  *)
Fairness ==
  /\ WF_vars(RunStep)
  /\ \A w \in Workers : WF_vars(WorkerStep(w))
  /\ WF_vars(StopIoc)
  /\ WF_vars(DeadlinePasses) /\ WF_vars(CapPasses)

FairSpec == Spec /\ Fairness

-----------------------------------------------------------------------------
(* Properties. *)

TypeOK ==
  /\ Pool!TypeOK
  /\ cfg \in Configs
  /\ {stopped, active, ext, expired, capped, stopping, threw} \subseteq BOOLEAN
  /\ ioc \in {"running", "stopped"} /\ stopper \in {"idle", "ioc"}
  /\ failures \in Nat /\ stops \in 0 .. MaxStops
  /\ eng \in {"start", "register", "stage", "joined", "clear", "finish", "done"}
              \cup {"spawned", "monitor", "sleep", "mark", "setstop", "stopioc", "join"}
  /\ st \in 1 .. Len(stages) + 1
  /\ pc \in [Workers -> {"acquire", "fail", "loop", "slot", "wait", "run_one", "leave",
                         "exited"}]
  /\ attempts \in [Workers -> 0 .. kAcquireAttempts]
  /\ client \in [Workers -> Clients \cup {0}]
  /\ done \in [Workers -> {"none", "no", "yes"}]
  /\ inflight \subseteq Requests

(* "A client handed back with a request still in-flight must never re-enter *)
(* the pool": no idle client has a request under way, so its next borrower *)
(* is alone with it.  A callback that throws breaks this: the guard of the *)
(* worker that ran the handler releases its client whatever its request.   *)
NoInflightInPool == ~threw => \A r \in inflight : r.c \notin Pool!Idle

(* Http11Client is not safe for concurrent use: two requests are never     *)
(* under way on one client, across workers and stages.                     *)
OneRequestPerClient ==
  ~threw => \A r, q \in inflight : r.c = q.c => r = q

(* The two together, in well-typed states: who may use a client now, and   *)
(* who may be given it next.                                               *)
ClientsExclusive == TypeOK /\ NoInflightInPool /\ OneRequestPerClient

(* The pool covers the peak stage: a worker is refused a client only after *)
(* another one dropped its client, the pool not being told.                *)
RefusedOnlyAfterDrop == (\E w \in Workers : attempts[w] > 0) => dropped # {}

(* "worker errors must abort instead of silently continuing": a stage that *)
(* starts after a worker failed can only follow a stage without deadline,  *)
(* which nobody monitors.                                                  *)
FailureAborts ==
  [][eng = "stage" /\ eng' = "spawned" /\ failures > 0 =>
       st > 1 /\ ~HasDeadline(st - 1)]_vars

(* Once a stop() has returned, no further stage is started ("otherwise the *)
(* run ends here").                                                        *)
NoStageAfterStop ==
  [][eng = "stage" /\ eng' = "spawned" => ~(stopping /\ stopper = "idle")]_vars


(* run() returns if every stage has a deadline: no worker stays parked in  *)
(* run_one(), whatever happens to its request, the other workers and       *)
(* stop().                                                                 *)
RunReturns == (\A i \in DOMAIN stages : HasDeadline(i)) ~> eng = "done"

(* A stop() ends the run if it comes while the monitor of a stage looks at *)
(* stopped_, or during the last stage, with a deadline or without.         *)
StopEndsRun ==
  stopped /\ (eng \in {"sleep", "mark"} \/ (StageRunning /\ st = Len(stages)))
    ~> eng = "done"
=============================================================================
