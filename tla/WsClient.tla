------------------------------ MODULE WsClient ------------------------------
(***************************************************************************)
(* WsClient (core/net/ws_client.cpp): a connection, the TLS and WebSocket  *)
(* handshakes, one message out and one in.  The branch for a missing TLS   *)
(* context is left out: the constructor always makes one.                  *)
(***************************************************************************)
EXTENDS StreamClient

WsRequest == kind = "ws" /\ Start("resolve")

(* Connected; with TLS the server name may be refused first. *)
WsConnect(ec) ==
  /\ kind = "ws" /\ Completes("connect", ec)
  /\ \/ ec = "none" /\ Enter(IF tls THEN "tls" ELSE "handshake")
     \/ ec = "none" /\ tls /\ Handler("tls_handshake_failed")
     \/ ec # "none" /\ Handler(ConnectError(ec))
  /\ UNCHANGED <<kind, tls, elapsed, timeout, seen, open, issued>>

(* Mutant: the WebSocket handshake gets a deadline of its own. *)
WsTlsRearms(ec) ==
  /\ kind = "ws" /\ Completes("tls", ec)
  /\ IF ec = "none" THEN Enter("handshake") ELSE Handler("tls_handshake_failed")
  /\ UNCHANGED <<kind, tls, elapsed, timeout, seen, open, issued>>

(* Both handshakes of a wss connection share a deadline. *)
WsTls(ec) ==
  /\ kind = "ws" /\ Completes("tls", ec)
  /\ IF ec = "none" THEN EnterSameDeadline("handshake") ELSE Handler("tls_handshake_failed")
  /\ UNCHANGED <<kind, tls, elapsed, timeout, seen, open, issued>>

WsHandshake(ec) ==
  /\ kind = "ws" /\ Completes("handshake", ec)
  /\ IF ec = "none" THEN Enter("write") ELSE Handler("protocol_violation")
  /\ UNCHANGED <<kind, tls, elapsed, timeout, seen, open, issued>>

(* The message is out, or the write fails, perhaps after it was. *)
WsWrite(ec) ==
  /\ kind = "ws" /\ Completes("write", ec)
  /\ seen' \in IF ec = "none" THEN {TRUE} ELSE BOOLEAN
  /\ IF ec = "none" THEN Enter("read") ELSE Handler("write_error")
  /\ UNCHANGED <<kind, tls, elapsed, timeout, open, issued>>

(* populate_response(): any error of the read is a read error. *)
WsRead(ec) ==
  /\ kind = "ws" /\ Completes("read", ec)
  /\ Handler(IF ec = "none" THEN "none" ELSE "read_error")
  /\ UNCHANGED <<kind, tls, elapsed, timeout, seen, open, issued>>

WsComplete(ec) ==
  WsConnect(ec) \/ WsTls(ec) \/ WsHandshake(ec) \/ WsWrite(ec) \/ WsRead(ec)
=============================================================================
