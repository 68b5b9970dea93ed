---------------------------- MODULE TcpRawClient ----------------------------
(***************************************************************************)
(* TcpRawClient (core/net/tcp_raw_client.cpp): a connection, the TLS       *)
(* handshake, the body out and the first bytes of an answer in.            *)
(***************************************************************************)
EXTENDS StreamClient

TcpRequest == kind = "tcp" /\ Start("resolve")

TcpConnect(ec) ==
  /\ kind = "tcp" /\ Completes("connect", ec)
  /\ \/ ec = "none" /\ Enter(IF tls THEN "tls" ELSE "write")
     \/ ec = "none" /\ tls /\ Handler("tls_handshake_failed")
     \/ ec # "none" /\ Handler(ConnectError(ec))
  /\ UNCHANGED <<kind, tls, elapsed, timeout, seen, open, issued>>

TcpTls(ec) ==
  /\ kind = "tcp" /\ Completes("tls", ec)
  /\ IF ec = "none" THEN Enter("write") ELSE Handler("tls_handshake_failed")
  /\ UNCHANGED <<kind, tls, elapsed, timeout, seen, open, issued>>

TcpWrite(ec) ==
  /\ kind = "tcp" /\ Completes("write", ec)
  /\ seen' \in IF ec = "none" THEN {TRUE} ELSE BOOLEAN
  /\ IF ec = "none" THEN Enter("read") ELSE Handler("write_error")
  /\ UNCHANGED <<kind, tls, elapsed, timeout, open, issued>>

(* populate_response() tells the deadline from other errors. *)
ReadError(ec) == CASE ec = "none" -> "none" [] ec = "timeout" -> "timeout" [] OTHER -> "read_error"

(* Mutant: the deadline of the read is taken for an answer still to come. *)
TcpReadIgnoresTimeout(ec) ==
  /\ kind = "tcp" /\ Completes("read", ec)
  /\ IF ec = "timeout" THEN UNCHANGED <<phase, left, result, calls>> ELSE Handler(ReadError(ec))
  /\ UNCHANGED <<kind, tls, elapsed, timeout, seen, open, issued>>

TcpRead(ec) ==
  /\ kind = "tcp" /\ Completes("read", ec)
  /\ Handler(ReadError(ec))
  /\ UNCHANGED <<kind, tls, elapsed, timeout, seen, open, issued>>

TcpComplete(ec) == TcpConnect(ec) \/ TcpTls(ec) \/ TcpWrite(ec) \/ TcpRead(ec)
=============================================================================
