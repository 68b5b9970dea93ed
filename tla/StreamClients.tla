--------------------------- MODULE StreamClients ---------------------------
(***************************************************************************)
(* The WebSocket client, the raw TCP client and the connectors: one of     *)
(* them per behaviour, against the same contract.                          *)
(***************************************************************************)
EXTENDS WsClient, TcpRawClient, Connection

Begin ==
  WsRequest \/ TcpRequest \/ ConnectorStart \/ ConnectionStart("write") \/ ConnectionStart("read")

(* The operation under way when close() was called. *)
Cancelled == ConnectionDone("write", "aborted") \/ ConnectionDone("read", "aborted")

Complete(ec) == WsComplete(ec) \/ TcpComplete(ec) \/ ConnectionComplete(ec)

Next ==
  \/ Begin \/ Tick \/ Close \/ SslClose \/ SslClosed
  \/ \E t \in Timeouts : (kind = "connection" => phase = "idle") /\ SetTimeout(t)
  \/ \E ec \in {"none", "host_not_found", "other"} : Resolve(ec)
  \/ Cancelled \/ \E ec \in Codes : Complete(ec)

Spec == Init /\ [][Next]_vars

(* Nothing is assumed of the network: the resolver returns, time passes,   *)
(* deadlines fire and the operations close() cancels complete.             *)
FairSpec ==
  /\ Spec
  /\ WF_vars(\E ec \in {"none", "host_not_found", "other"} : Resolve(ec))
  /\ WF_vars(Tick)
  /\ WF_vars(Complete("timeout"))
  /\ WF_vars(Cancelled)

-----------------------------------------------------------------------------
TypeOK ==
  /\ phase \in {"idle", "resolve", "connect", "tls", "handshake", "write", "read", "closing"}
  /\ left \in 0 .. Longest /\ timeout \in Timeouts
  /\ phase \in {"idle", "resolve", "closing"} => left = 0
  /\ phase = "handshake" => kind = "ws"
  /\ phase = "tls" => tls
  /\ issued \in 0 .. MaxRequests /\ elapsed \in Nat
  /\ open => kind = "connection"

(* The handler of every operation runs exactly once, though the server may *)
(* stay silent in any phase and close() may come in between: each of the   *)
(* three implements AsyncClient.                                           *)
Contract == INSTANCE AsyncClient WITH
  pending <- IF phase \in {"idle", "closing"} THEN {} ELSE {issued}

HandlerOnce == Contract!Spec

(* The deadlines of an operation, one after the other.  The two handshakes *)
(* of a wss connection share one.                                          *)
Deadlines ==
  CASE kind = "ws"         -> 4
    [] kind = "tcp"        -> IF tls THEN 4 ELSE 3
    [] kind = "connection" -> 2

(* An operation takes no longer than its deadlines together, however often *)
(* set_timeout() is called meanwhile.                                      *)
BoundedWait == elapsed <= Deadlines * Longest

(* An error of resolving, connecting or a handshake tells the caller that  *)
(* the server has not seen the message; write and read errors do not.      *)
UnsentErrors ==
  result \in {"dns_failure", "connection_refused", "connection_timeout", "tls_handshake_failed",
              "protocol_violation"} => ~ seen

(* The two together, in well-typed states: what a caller may rely on when  *)
(* an operation ends, with or without an error.                            *)
EndsAsReported == TypeOK /\ BoundedWait /\ UnsentErrors
=============================================================================
