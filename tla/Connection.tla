----------------------------- MODULE Connection -----------------------------
(***************************************************************************)
(* TcpConnector, SslConnector and the connections they hand out            *)
(* (core/net/connection.cpp).  The first operation is an async_connect(),  *)
(* the next ones write to and read from its connection.  A connector       *)
(* captures its timeout_ when it starts; a connection has one of its own.  *)
(***************************************************************************)
EXTENDS StreamClient

ConnectorStart == kind = "connection" /\ ~ open /\ Start("resolve")

(* The handler is given the connection. *)
HandOut == Handler("none") /\ open' = TRUE /\ timeout' \in Timeouts

Refuse(err) == Handler(err) /\ UNCHANGED <<open, timeout>>

ConnectorConnect(ec) ==
  /\ kind = "connection" /\ Completes("connect", ec)
  /\ \/ ec = "none" /\ ~ tls /\ HandOut
     \/ ec = "none" /\ tls /\ Enter("tls") /\ UNCHANGED <<open, timeout>>
     \/ ec = "none" /\ tls /\ Refuse("tls_handshake_failed")
     \/ ec # "none" /\ Refuse(ConnectError(ec))
  /\ UNCHANGED <<kind, tls, elapsed, seen, issued>>

ConnectorHandshake(ec) ==
  /\ kind = "connection" /\ Completes("tls", ec)
  /\ IF ec = "none" THEN HandOut ELSE Refuse("tls_handshake_failed")
  /\ UNCHANGED <<kind, tls, elapsed, seen, issued>>

(* async_write() and async_read_some(), one at a time. *)
ConnectionStart(p) == kind = "connection" /\ open /\ Start(p)

(* The error code goes to the handler as it is, except that of a cancelled *)
(* operation.  A deadline closes the socket.                               *)
ConnectionDone(p, ec) ==
  /\ kind = "connection" /\ Completes(p, ec)
  /\ ec = "aborted" => ~ open
  /\ Handler(IF ec = "aborted" THEN "operation_cancelled" ELSE ec)
  /\ open' = (open /\ ec # "timeout")
  /\ UNCHANGED <<kind, tls, elapsed, timeout, seen, issued>>

(* TcpConnection::close(), with or without an operation under way. *)
Close ==
  /\ kind = "connection" /\ ~ tls /\ open
  /\ open' = FALSE
  /\ UNCHANGED <<kind, tls, phase, left, elapsed, timeout, result, seen, issued, calls>>

(* SslConnection::close() between operations: shutdown() blocks until the  *)
(* peer answers or is gone.                                                *)
SslClose ==
  /\ kind = "connection" /\ tls /\ open /\ phase = "idle"
  /\ phase' = "closing"
  /\ UNCHANGED <<kind, tls, left, elapsed, timeout, result, seen, open, issued, calls>>

SslClosed ==
  /\ phase = "closing"
  /\ phase' = "idle" /\ open' = FALSE
  /\ UNCHANGED <<kind, tls, left, elapsed, timeout, result, seen, issued, calls>>

ConnectionComplete(ec) ==
  ConnectorConnect(ec) \/ ConnectorHandshake(ec) \/ ConnectionDone("write", ec) \/ ConnectionDone("read", ec)
=============================================================================
