---------------------------- MODULE Http11Client ----------------------------
(***************************************************************************)
(* Http11Client (core/net/http_client.cpp): one request at a time over a   *)
(* cached keep-alive connection or a fresh one, and the server's side of   *)
(* each connection.                                                        *)
(*                                                                         *)
(* A request is its number, the class of its method and its endpoint; an   *)
(* answer is the number of the request it answers.  Every phase of a       *)
(* request (resolve, connect, handshake, write, read) ends in a completion *)
(* handler, which is one action.  The plaintext and the TLS variants of    *)
(* the code differ in the handshake only.                                  *)
(***************************************************************************)
EXTENDS Integers, FiniteSets

CONSTANTS
  MaxRequests,   \* bound: requests of a behaviour
  Endpoints,     \* host, port and whether TLS is used
  TlsEndpoints   \* the endpoints with TLS

ASSUME ClientAssumption == MaxRequests \in Nat /\ TlsEndpoints \subseteq Endpoints

VARIABLES
  keep_alive,  \* keep_alive_
  cached,      \* cached_: the number of a connection, 0 for none
  phase,       \* what the request under way waits for
  req,         \* the request: [id, ep]
  asked,       \* the class of each request's method
  conn,        \* the connection it uses, 0 before there is one
  reused,      \* it is on the cached path
  result,      \* the Response: [ec, answer], see Answered
  conns,       \* the connections, as the two sides see them
  opened,      \* connections so far
  issued,      \* requests so far
  served,      \* how often the server executed each request
  calls        \* how often the handler of each request ran

clientVars ==
  <<keep_alive, cached, phase, req, asked, conn, reused, result, opened, issued, calls>>
vars == <<clientVars, conns, served>>

Ids     == 1 .. MaxRequests
Methods == {"idempotent", "other", "unknown"}

(* owed: the request the server has received and not executed; inbox: the  *)
(* answer in the client's socket; late: an answer whose rest is still on   *)
(* its way; closed: by the server or by a deadline.                        *)
Fresh(ep) == [ep |-> ep, owed |-> 0, inbox |-> 0, late |-> 0, closed |-> FALSE]

NoRequest == [id |-> 0, ep |-> CHOOSE e \in Endpoints : TRUE]

(* What populate_response() makes of a read: an answer, a response nothing *)
(* was parsed into (answer 0), or an error.                                *)
Answered(a) == [ec |-> "none", answer |-> a]
Failed(ec)  == [ec |-> ec, answer |-> -1]
Pending     == Failed("none")

Init ==
  /\ keep_alive = TRUE /\ cached = 0
  /\ phase = "idle" /\ req = NoRequest /\ asked = [r \in Ids |-> "unknown"]
  /\ conn = 0 /\ reused = FALSE
  /\ result = Pending
  /\ conns = [n \in Ids |-> Fresh(NoRequest.ep)]
  /\ opened = 0 /\ issued = 0
  /\ served = [r \in Ids |-> 0]
  /\ calls = [r \in Ids |-> 0]

-----------------------------------------------------------------------------
(* handler(ec, response): the request is over. *)
Handler(res) ==
  /\ phase' = "idle"
  /\ result' = res
  /\ calls' = [calls EXCEPT ![req.id] = @ + 1]
  /\ conn' = 0
  /\ reused' = FALSE

(* request_fresh(): start over with the resolver. *)
RequestFresh ==
  /\ phase' = "resolve"
  /\ conn' = 0
  /\ reused' = FALSE
  /\ result' = Pending
  /\ UNCHANGED calls

drop_cached(n) == IF cached = n THEN 0 ELSE cached

(* Mutant: every method may be retried. *)
AnyMethodRetried == TRUE

method_is_idempotent == asked[req.id] = "idempotent"

(* The peek finds an EOF, an error or stray bytes; under TLS these may be  *)
(* records that hold no answer (stray).                                    *)
cached_connection_dead(n, stray) == conns[n].closed \/ conns[n].inbox # 0 \/ stray

CachedFor(ep) == keep_alive /\ cached # 0 /\ conns[cached].ep = ep

(* async_request() of a method Beast does not know: no I/O at all. *)
RejectRequest(ep) ==
  /\ phase = "idle" /\ issued < MaxRequests
  /\ issued' = issued + 1
  /\ req' = [id |-> issued + 1, ep |-> ep]
  /\ result' = Failed("invalid_method")
  /\ calls' = [calls EXCEPT ![issued + 1] = @ + 1]
  /\ UNCHANGED <<keep_alive, cached, phase, asked, conn, reused, conns, opened, served>>

(* request_on_cached(): a dead connection is dropped for a fresh one. *)
RequestOnCached(stray) ==
  IF cached_connection_dead(cached, stray)
  THEN RequestFresh /\ cached' = drop_cached(cached)
  ELSE /\ phase' = "write" /\ conn' = cached /\ reused' = TRUE
       /\ result' = Pending
       /\ UNCHANGED <<cached, calls>>

(* async_request(): on the cached connection if it fits. *)
AsyncRequest(m, ep) ==
  /\ phase = "idle" /\ issued < MaxRequests
  /\ issued' = issued + 1
  /\ req' = [id |-> issued + 1, ep |-> ep]
  /\ asked' = [asked EXCEPT ![issued + 1] = m]
  /\ IF CachedFor(ep)
     THEN \E stray \in {FALSE, (ep \in TlsEndpoints)} : RequestOnCached(stray)
     ELSE RequestFresh /\ UNCHANGED cached
  /\ UNCHANGED <<keep_alive, conns, opened, served>>

Resolve(ec) ==
  /\ phase = "resolve"
  /\ IF ec = "none"
     THEN phase' = "connect" /\ UNCHANGED <<conn, reused, result, calls>>
     ELSE Handler(Failed(IF ec = "host_not_found" THEN "dns_failure" ELSE "connection_refused"))
  /\ UNCHANGED <<keep_alive, cached, req, asked, conns, opened, issued, served>>

(* connect_tcp() and connect_tls(): a new connection, or an error. *)
Connect(ec) ==
  /\ phase = "connect"
  /\ IF ec = "none"
     THEN /\ phase' = IF req.ep \in TlsEndpoints THEN "handshake" ELSE "write"
          /\ opened' = opened + 1
          /\ conn' = opened + 1
          /\ conns' = [conns EXCEPT ![opened + 1] = Fresh(req.ep)]
          /\ UNCHANGED <<reused, result, calls>>
     ELSE /\ Handler(Failed(IF ec = "timed_out" THEN "connection_timeout"
                                                ELSE "connection_refused"))
          /\ UNCHANGED <<opened, conns>>
  /\ UNCHANGED <<keep_alive, cached, req, asked, issued, served>>

Handshake(ec) ==
  /\ phase = "handshake"
  /\ IF ec = "none"
     THEN phase' = "write" /\ UNCHANGED <<conn, reused, result, calls>>
     ELSE Handler(Failed("tls_handshake_failed"))
  /\ UNCHANGED <<keep_alive, cached, req, asked, conns, opened, issued, served>>

(* The request is in the socket.  A server that closed never sees it. *)
WriteDone ==
  /\ phase = "write"
  /\ phase' = "read"
  /\ conns' = [conns EXCEPT ![conn].owed = IF conns[conn].closed THEN 0 ELSE req.id]
  /\ UNCHANGED <<keep_alive, cached, req, asked, conn, reused, result, opened, issued, served,
                 calls>>

(* The write fails, possibly after the server got the whole request. *)
WriteFails(ec) ==
  /\ phase = "write"
  /\ \E got \in {0, req.id} :
       conns' = [conns EXCEPT ![conn].owed = IF conns[conn].closed THEN 0 ELSE got,
                              ![conn].closed = TRUE]
  /\ cached' = IF reused THEN drop_cached(conn) ELSE cached
  /\ IF reused /\ method_is_idempotent THEN RequestFresh ELSE Handler(Failed("write_error"))
  /\ UNCHANGED <<keep_alive, req, asked, opened, issued, served>>

(* The answer is read.  A fresh connection is cached for the next request. *)
ReadDone ==
  /\ phase = "read" /\ conns[conn].inbox # 0
  /\ conns' = [conns EXCEPT ![conn].inbox = 0]
  /\ Handler(Answered(conns[conn].inbox))
  /\ cached' = IF ~reused /\ keep_alive THEN conn ELSE cached
  /\ UNCHANGED <<keep_alive, req, asked, opened, issued, served>>

(* The server closed before it answered: http::error::end_of_stream, which *)
(* populate_response() reports without an error code.  The status of a     *)
(* response nothing was parsed into is Beast's; zero says that it is 0,    *)
(* and then a reused connection makes the request start over.              *)
ReadEnd(zero) ==
  /\ phase = "read" /\ conns[conn].inbox = 0 /\ conns[conn].closed
  /\ cached' = IF reused THEN drop_cached(conn) ELSE cached
  /\ IF reused /\ zero /\ method_is_idempotent THEN RequestFresh ELSE Handler(Answered(0))
  /\ UNCHANGED <<keep_alive, req, asked, conns, opened, issued, served>>

(* The connection after a read error: a deadline closes the socket, and an *)
(* answer Beast refuses (too large, not HTTP) leaves the rest unread.      *)
AfterReadError(c, ec) ==
  IF ec = "refused" THEN [c EXCEPT !.late = c.inbox, !.inbox = 0] ELSE [c EXCEPT !.closed = TRUE]

(* Mutant: a fresh connection is cached whatever the read returned. *)
ReadFailsCached(ec) ==
  /\ phase = "read" /\ (ec = "refused" => conns[conn].inbox # 0)
  /\ conns' = [conns EXCEPT ![conn] = AfterReadError(@, ec)]
  /\ cached' = IF reused THEN drop_cached(conn) ELSE IF keep_alive THEN conn ELSE cached
  /\ IF reused /\ ec # "timed_out" /\ method_is_idempotent
     THEN RequestFresh
     ELSE Handler(Failed("read_error"))
  /\ UNCHANGED <<keep_alive, req, asked, opened, issued, served>>

(* Mutant: the return after the retry is missing. *)
ReadFailsNoReturn(ec) ==
  /\ phase = "read" /\ (ec = "refused" => conns[conn].inbox # 0)
  /\ conns' = [conns EXCEPT ![conn] = AfterReadError(@, ec)]
  /\ cached' = IF reused THEN drop_cached(conn) ELSE cached
  /\ IF reused /\ ec # "timed_out" /\ method_is_idempotent
     THEN /\ phase' = "resolve" /\ conn' = 0 /\ reused' = FALSE
          /\ result' = Failed("read_error")
          /\ calls' = [calls EXCEPT ![req.id] = @ + 1]
     ELSE Handler(Failed("read_error"))
  /\ UNCHANGED <<keep_alive, req, asked, opened, issued, served>>

(* Any other read error.  The code looks for asio::error::timed_out; the   *)
(* deadline of a Beast stream is reported as beast::error::timeout.        *)
ReadFails(ec) ==
  /\ phase = "read" /\ (ec = "refused" => conns[conn].inbox # 0)
  /\ conns' = [conns EXCEPT ![conn] = AfterReadError(@, ec)]
  /\ cached' = IF reused THEN drop_cached(conn) ELSE cached
  /\ IF reused /\ ec # "timed_out" /\ method_is_idempotent
     THEN RequestFresh
     ELSE Handler(Failed("read_error"))
  /\ UNCHANGED <<keep_alive, req, asked, opened, issued, served>>

(* set_keep_alive(), at any time. *)
SetKeepAlive(b) ==
  /\ keep_alive' = b
  /\ cached' = IF b THEN cached ELSE 0
  /\ UNCHANGED <<phase, req, asked, conn, reused, result, conns, opened, issued, served,
                 calls>>

-----------------------------------------------------------------------------
(* The server and the network. *)

(* The request is executed; the answer gets through unless the connection  *)
(* is closed by then.                                                      *)
Execute(n) ==
  /\ conns[n].owed # 0
  /\ served' = [served EXCEPT ![conns[n].owed] = @ + 1]
  /\ conns' = [conns EXCEPT ![n].owed = 0,
                            ![n].inbox = IF conns[n].closed THEN @ ELSE conns[n].owed]
  /\ UNCHANGED clientVars

(* The rest of an answer arrives, whoever waits for what by now. *)
Arrive(n) ==
  /\ conns[n].late # 0 /\ conns[n].inbox = 0
  /\ conns' = [conns EXCEPT ![n].late = 0, ![n].inbox = conns[n].late]
  /\ UNCHANGED <<clientVars, served>>

(* The end of a connection the client has let go of changes nothing. *)
ServerClose(n) ==
  /\ n \in {conn, cached} /\ ~conns[n].closed
  /\ conns' = [conns EXCEPT ![n].closed = TRUE]
  /\ UNCHANGED <<clientVars, served>>

Progress ==
  \/ \E ec \in {"none", "host_not_found", "other"} : Resolve(ec)
  \/ \E ec \in {"none", "timeout", "timed_out", "refused"} : Connect(ec)
  \/ \E ec \in {"none", "timeout", "other"} : Handshake(ec)
  \/ WriteDone \/ \E ec \in {"timeout", "reset"} : WriteFails(ec)
  \/ ReadDone \/ \E zero \in BOOLEAN : ReadEnd(zero)
  \/ \E ec \in {"timeout", "timed_out", "reset", "refused"} : ReadFails(ec)

Next ==
  \/ \E ep \in Endpoints : RejectRequest(ep) \/ \E m \in Methods \ {"unknown"} : AsyncRequest(m, ep)
  \/ Progress
  \/ \E b \in BOOLEAN : SetKeepAlive(b)
  \/ \E n \in Ids : Execute(n) \/ Arrive(n) \/ ServerClose(n)

Spec == Init /\ [][Next]_vars

(* Every phase ends: the resolver returns, and the others have a deadline. *)
FairSpec == Spec /\ WF_vars(Progress)

-----------------------------------------------------------------------------
(* Properties. *)

TypeOK ==
  /\ keep_alive \in BOOLEAN /\ reused \in BOOLEAN
  /\ cached \in 0 .. opened
  /\ phase \in {"idle", "resolve", "connect", "handshake", "write", "read"}
  /\ req \in [id : 0 .. issued, ep : Endpoints]
  /\ asked \in [Ids -> Methods]
  /\ conn \in 0 .. opened
  /\ (conn = 0) = (phase \in {"idle", "resolve", "connect"})
  /\ opened \in 0 .. issued /\ issued \in 0 .. MaxRequests
  /\ conns \in [Ids -> [ep : Endpoints, owed : 0 .. issued, inbox : 0 .. issued,
                        late : 0 .. issued, closed : BOOLEAN]]
  /\ served \in [Ids -> Nat] /\ calls \in [Ids -> Nat]

(* "a blind retry of POST/PATCH could duplicate a side effect": the server *)
(* executes a non-idempotent request at most once, and an idempotent one   *)
(* at most twice (one retry), whatever is lost, late, reset or timed out.  *)
AtMostOnce ==
  \A r \in Ids : served[r] <= IF asked[r] = "idempotent" THEN 2 ELSE 1

(* The answer a handler is given is that of its own request, never the     *)
(* late answer to an earlier request on a reused connection.               *)
AnswerMatches == phase = "idle" /\ result.answer > 0 => result.answer = req.id

(* A cached connection nobody uses owes nothing: no request is unanswered  *)
(* on it and no part of an answer is unread.                               *)
CachedClean ==
  cached # 0 /\ conn # cached =>
    conns[cached].owed = 0 /\ conns[cached].inbox = 0 /\ conns[cached].late = 0

(* The two together, in well-typed states: answers are not mixed up, and   *)
(* what is kept for the next request cannot mix them up later.             *)
AnswersKeptApart == TypeOK /\ AnswerMatches /\ CachedClean

(* Every request's handler runs exactly once, through every retry and      *)
(* error path: the client implements AsyncClient.                          *)
Contract == INSTANCE AsyncClient WITH pending <- IF phase = "idle" THEN {} ELSE {req.id}

HandlerOnce == Contract!Spec
=============================================================================
