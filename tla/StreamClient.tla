---------------------------- MODULE StreamClient ----------------------------
(***************************************************************************)
(* What the WebSocket client, the raw TCP client and the connectors share: *)
(* one operation at a time on a Beast stream, whose phases (resolve,       *)
(* connect, TLS handshake, protocol handshake, write, read) each end in a  *)
(* completion handler, and the stream's deadline.                          *)
(*                                                                         *)
(* Time is counted in ticks.  left is what remains of the deadline that    *)
(* was armed last; it fires promptly, as no tick happens at 0.  The        *)
(* resolver has no deadline.                                               *)
(***************************************************************************)
EXTENDS Integers

CONSTANTS
  MaxRequests,   \* bound: operations of a behaviour
  Timeouts       \* what set_timeout() may be called with

ASSUME TimeoutAssumption == Timeouts \subseteq Nat \ {0}

VARIABLES
  kind,      \* which component: ws, tcp or connection
  tls,       \* req.use_tls
  phase,     \* what the operation under way waits for, or idle
  left,      \* ticks to the deadline
  elapsed,   \* ticks since the resolver answered
  timeout,   \* timeout_ms_
  result,    \* the error code the last handler was given
  seen,      \* the server got the message of the operation under way
  open,      \* a connector handed out a connection that is not closed
  issued,    \* operations so far
  calls      \* how often the handler of each of them ran

vars == <<kind, tls, phase, left, elapsed, timeout, result, seen, open, issued, calls>>

Ids == 1 .. MaxRequests

Longest == CHOOSE t \in Timeouts : \A u \in Timeouts : u <= t

(* What a completion handler may be given.  "timeout" is the deadline      *)
(* (beast::error::timeout); "timed_out" is the kernel's.                   *)
Codes == {"none", "timeout", "timed_out", "other"}

Init ==
  /\ kind \in {"ws", "tcp", "connection"} /\ tls \in BOOLEAN
  /\ phase = "idle" /\ left = 0 /\ elapsed = 0
  /\ timeout \in Timeouts
  /\ result = "none" /\ seen = FALSE /\ open = FALSE
  /\ issued = 0 /\ calls = [r \in Ids |-> 0]

-----------------------------------------------------------------------------
(* A completion of phase p with ec: the deadline has to be over for it to  *)
(* fire, and an operation may still win against it at that instant.        *)
Completes(p, ec) == phase = p /\ (ec = "timeout" => left = 0)

(* expires_after(), then the operation of phase p. *)
Enter(p) ==
  /\ phase' = p
  /\ left' = timeout
  /\ UNCHANGED <<result, calls>>

(* The operation of phase p under the deadline of the one before. *)
EnterSameDeadline(p) ==
  /\ phase' = p
  /\ UNCHANGED <<left, result, calls>>

(* handler(ec, response): the stream and its deadline are gone. *)
Handler(err) ==
  /\ phase' = "idle"
  /\ left' = 0
  /\ result' = err
  /\ calls' = [calls EXCEPT ![issued] = @ + 1]

(* async_request(): the resolver is asked. *)
Start(p) ==
  /\ phase = "idle" /\ issued < MaxRequests
  /\ issued' = issued + 1
  /\ phase' = p /\ elapsed' = 0 /\ seen' = FALSE /\ result' = "none"
  /\ left' = IF p = "resolve" THEN 0 ELSE timeout
  /\ UNCHANGED <<kind, tls, timeout, open, calls>>

ResolveError(ec)  == IF ec = "host_not_found" THEN "dns_failure" ELSE "connection_refused"
ConnectError(ec)  == IF ec = "timed_out" THEN "connection_timeout" ELSE "connection_refused"

(* The resolver answers: connect, with the first deadline. *)
Resolve(ec) ==
  /\ phase = "resolve"
  /\ IF ec = "none" THEN Enter("connect") ELSE Handler(ResolveError(ec))
  /\ UNCHANGED <<kind, tls, elapsed, timeout, seen, open, issued>>

(* set_timeout(), by another thread at any time. *)
SetTimeout(t) ==
  /\ timeout' = t
  /\ UNCHANGED <<kind, tls, phase, left, elapsed, result, seen, open, issued, calls>>

Tick ==
  /\ phase \notin {"idle", "resolve", "closing"} /\ left > 0
  /\ left' = left - 1 /\ elapsed' = elapsed + 1
  /\ UNCHANGED <<kind, tls, phase, timeout, result, seen, open, issued, calls>>
=============================================================================
