-------------------------- MODULE PrometheusServer --------------------------
(***************************************************************************)
(* The exporter that serves /metrics itself                                *)
(* (core/metrics/prometheus_exporter_embedded.cpp): an io thread that      *)
(* accepts, a thread for each connection, the metrics they show and        *)
(* stop(), which joins them all.  It is started at most once, as main()    *)
(* does.                                                                   *)
(***************************************************************************)
EXTENDS Integers, FiniteSets

CONSTANTS
  Clients,          \* connections to /metrics
  kMaxConnections

VARIABLES
  running,    \* running_
  acceptor,   \* closed or listening
  io,         \* the io thread: none, running or joined
  conn,       \* of each client: away, queued, accepted, refused, reading, answered, ended
  active,     \* active_connections_
  threads,    \* handler_threads_
  shown,      \* metrics_.total_requests
  scraped,    \* what a client was last shown
  stopping    \* where stop() is: no, io, handlers or done

serverVars == <<running, acceptor, io, conn, active, threads, shown, scraped, stopping>>

ServerInit ==
  /\ running = FALSE /\ acceptor = "closed" /\ io = "none"
  /\ conn = [c \in Clients |-> "away"]
  /\ active = 0 /\ threads = {}
  /\ shown = 0 /\ scraped = 0
  /\ stopping = "no"

-----------------------------------------------------------------------------
(* start(): everything that may throw comes before the thread. *)
StartServer(ok) ==
  /\ running' = ok
  /\ acceptor' = IF ok THEN "listening" ELSE "closed"
  /\ io' = IF ok THEN "running" ELSE "none"
  /\ UNCHANGED <<conn, active, threads, shown, scraped, stopping>>

(* A client connects: the kernel queues it, whatever the io thread does. *)
ClientConnects(c) ==
  /\ conn[c] = "away" /\ acceptor = "listening"
  /\ conn' = [conn EXCEPT ![c] = "queued"]
  /\ UNCHANGED <<running, acceptor, io, active, threads, shown, scraped, stopping>>

(* The pending async_accept takes a connection; its handler is yet to run. *)
Accepted(c) ==
  /\ conn[c] = "queued" /\ \A d \in Clients : conn[d] # "accepted"
  /\ conn' = [conn EXCEPT ![c] = "accepted"]
  /\ UNCHANGED <<running, acceptor, io, active, threads, shown, scraped, stopping>>

(* The handler of async_accept.  It does not look at running_: it may      *)
(* start a thread while stop() waits for the io thread.                    *)
do_accept(c) ==
  /\ io = "running" /\ conn[c] = "accepted"
  /\ IF active >= kMaxConnections
     THEN conn' = [conn EXCEPT ![c] = "refused"] /\ UNCHANGED <<active, threads>>
     ELSE /\ conn' = [conn EXCEPT ![c] = "reading"]
          /\ active' = active + 1
          /\ threads' = threads \cup {c}
  /\ UNCHANGED <<running, acceptor, io, shown, scraped, stopping>>

(* handle_request(): the read fails or times out, something else is asked  *)
(* for, or the metrics are shown under metrics_mtx_.                       *)
handle_request(c, asks) ==
  /\ conn[c] = "reading"
  /\ scraped' = IF asks = "metrics" THEN shown ELSE scraped
  /\ conn' = [conn EXCEPT ![c] = "answered"]
  /\ UNCHANGED <<running, acceptor, io, active, threads, shown, stopping>>

(* The thread of a connection ends; it stays in handler_threads_. *)
HandlerEnds(c) ==
  /\ conn[c] = "answered"
  /\ conn' = [conn EXCEPT ![c] = "ended"]
  /\ active' = active - 1
  /\ UNCHANGED <<running, acceptor, io, threads, shown, scraped, stopping>>

(* update_metrics() with a snapshot taken before the lock. *)
StoreMetrics(total) ==
  /\ shown' = total
  /\ UNCHANGED <<running, acceptor, io, conn, active, threads, scraped, stopping>>

(* stop(), up to the join of the io thread; queued connections are reset. *)
StopAccepting ==
  /\ running /\ stopping = "no"
  /\ running' = FALSE /\ acceptor' = "closed"
  /\ conn' = [c \in Clients |-> IF conn[c] = "queued" THEN "refused" ELSE conn[c]]
  /\ stopping' = "io"
  /\ UNCHANGED <<io, active, threads, shown, scraped>>

(* Mutant: stop() takes the handler threads before the io thread is done. *)
JoinIoLater ==
  /\ stopping = "io"
  /\ stopping' = "handlers"
  /\ UNCHANGED <<running, acceptor, io, conn, active, threads, shown, scraped>>

(* ioc_.stop() ends the io thread; an accept handler that has not run is   *)
(* dropped with its socket.                                                *)
JoinIo ==
  /\ stopping = "io"
  /\ io' = "joined"
  /\ conn' = [c \in Clients |-> IF conn[c] = "accepted" THEN "refused" ELSE conn[c]]
  /\ stopping' = "handlers"
  /\ UNCHANGED <<running, acceptor, active, threads, shown, scraped>>

(* The join of the handlers returns when all have ended. *)
JoinHandlers ==
  /\ stopping = "handlers"
  /\ \A c \in threads : conn[c] = "ended"
  /\ threads' = {}
  /\ stopping' = "done"
  /\ UNCHANGED <<running, acceptor, io, conn, active, shown, scraped>>

(* stop() of an exporter that does not run returns at once. *)
Stopped == ~ running /\ stopping \in {"no", "done"}
=============================================================================
