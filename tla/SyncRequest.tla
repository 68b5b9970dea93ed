---------------------------- MODULE SyncRequest ----------------------------
(***************************************************************************)
(* One blocking HTTP exchange: do_sync_post() of the token provider        *)
(* (core/security/auth_provider.cpp) and do_request_once() of the Vault    *)
(* client (core/vault/vault_client.cpp), which go through the same phases. *)
(* Each phase but the first has a deadline of Timeout ticks; a tick waits  *)
(* for a deadline that is due.                                             *)
(***************************************************************************)
EXTENDS Integers

CONSTANTS
  Timeout,   \* the deadline of a phase
  Replies    \* the status classes a server answers with

ASSUME TimeoutAssumption == Timeout \in Nat \ {0}

VARIABLES
  use_tls,
  phase,     \* of the exchange; idle: there is none; done: it returned
  left,      \* ticks to the deadline of the phase
  request,   \* at the server: none, received or executed
  reply,     \* on its way back: none or one of Replies
  outcome    \* what it returned: [ec, status]

exchange == <<phase, left, request, reply, outcome>>

Returned(ec, status) == [ec |-> ec, status |-> status]
Nothing == Returned("none", "none")

Phases == {"resolve", "connect", "handshake", "write", "read", "shutdown"}
Armed  == Phases \ {"resolve"}

SyncInit ==
  /\ use_tls \in BOOLEAN
  /\ phase = "idle" /\ left = 0
  /\ request = "none" /\ reply = "none"
  /\ outcome = Nothing

-----------------------------------------------------------------------------
(* The resolver, which has no deadline, is asked. *)
BeginExchange ==
  /\ phase' = "resolve" /\ left' = 0
  /\ request' = "none" /\ reply' = "none"
  /\ outcome' = Nothing

(* The caller has used what the exchange returned. *)
EndExchange ==
  /\ phase' = "idle" /\ left' = 0
  /\ request' = "none" /\ reply' = "none"
  /\ outcome' = Nothing

(* expires_after(timeout) and the operation of phase p *)
Enter(p) == phase' = p /\ left' = Timeout /\ UNCHANGED outcome

Return(ec, status) == phase' = "done" /\ left' = 0 /\ outcome' = Returned(ec, status)

Resolve(ok) ==
  /\ phase = "resolve"
  /\ IF ok THEN Enter("connect") ELSE Return("dns_failure", "none")
  /\ UNCHANGED <<request, reply>>

(* A phase ends with ec; the deadline has to be due to end it. *)
Ends(p, ec) == phase = p /\ (ec = "timeout" => left = 0)

Connect(ec) ==
  /\ Ends("connect", ec)
  /\ CASE ec = "none"    -> Enter(IF use_tls THEN "handshake" ELSE "write")
       [] ec = "timeout" -> Return("connection_timeout", "none")
       [] OTHER          -> Return("connection_refused", "none")
  /\ UNCHANGED <<request, reply>>

Handshake(ec) ==
  /\ Ends("handshake", ec)
  /\ IF ec = "none" THEN Enter("write") ELSE Return("tls_handshake_failed", "none")
  /\ UNCHANGED <<request, reply>>

(* The request is out, or the write fails, perhaps after it arrived. *)
Write(ec) ==
  /\ Ends("write", ec)
  /\ IF ec = "none" THEN Enter("read") /\ request' = "received"
                    ELSE Return("write_error", "none") /\ request' \in {"none", "received"}
  /\ UNCHANGED reply

(* The answer is read.  A connection that ends before it (end_of_stream)   *)
(* is no error: the status of a response nothing was parsed into is        *)
(* Beast's, and may be one of Replies.                                     *)
Read(ec) ==
  /\ Ends("read", ec)
  /\ \/ /\ ec = "none" /\ reply # "none"
        /\ IF use_tls THEN Enter("shutdown") ELSE Return("none", reply)
        /\ UNCHANGED reply
     \/ /\ ec = "end_of_stream" /\ reply = "none"
        /\ reply' \in {"eof", "eof_2xx"}
        /\ IF use_tls THEN Enter("shutdown") ELSE Return("none", reply')
     \/ /\ ec \in {"timeout", "other"}
        /\ Return("read_error", "none")
        /\ UNCHANGED reply
  /\ UNCHANGED request

(* Whatever the TLS shutdown ends with is ignored. *)
Shutdown(ec) ==
  /\ Ends("shutdown", ec)
  /\ Return("none", reply)
  /\ UNCHANGED <<request, reply>>

(* The phases that end by themselves or by the network. *)
Progress ==
  \/ \E ok \in BOOLEAN : Resolve(ok)
  \/ \E ec \in {"none", "timeout", "other"} : Connect(ec) \/ Handshake(ec) \/ Write(ec) \/ Shutdown(ec)
  \/ \E ec \in {"none", "end_of_stream", "timeout", "other"} : Read(ec)

(* The deadline ends the phase if the network does not. *)
Overdue == phase \in Armed /\ left = 0

(* The server executes the request, though the client may have given up.   *)
Execute(status) ==
  /\ request = "received"
  /\ request' = "executed"
  /\ reply' = IF phase = "read" THEN status ELSE reply
  /\ UNCHANGED <<phase, left, outcome>>

(* What a thread does between two waits takes less than a tick. *)
CanTick == phase # "done" /\ (phase \in Armed => left > 0)

TickExchange ==
  /\ CanTick
  /\ left' = IF phase \in Armed THEN left - 1 ELSE left
  /\ UNCHANGED <<phase, request, reply, outcome>>
=============================================================================
