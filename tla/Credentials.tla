----------------------------- MODULE Credentials -----------------------------
(***************************************************************************)
(* The two clients that fetch credentials over blocking exchanges, one of  *)
(* them per behaviour: the token provider and the Vault client.            *)
(***************************************************************************)
EXTENDS AuthProvider, VaultClient

VARIABLE client   \* auth or vault

vars == <<client, use_tls, exchange, authVars, vaultVars>>

Init == client \in {"auth", "vault"} /\ SyncInit /\ AuthInit /\ VaultInit

Auth(Step)  == client = "auth" /\ Step /\ UNCHANGED <<client, use_tls, vaultVars>>
Vault(Step) == client = "vault" /\ Step /\ UNCHANGED <<client, use_tls, authVars>>

Next == Auth(AuthStep) \/ Vault(VaultStep)

Spec == Init /\ [][Next]_vars

(* Nothing is assumed of the network and the server: time passes, the      *)
(* resolver returns, deadlines fire and unblocked threads run.             *)
FairSpec ==
  /\ Spec
  /\ WF_vars(Auth(\E t \in Threads : Lock(t)))
  /\ WF_vars(Auth(\E parsed \in Parsed : FetchDone(parsed)))
  /\ WF_vars(Vault(Repeat \/ \E body \in Bodies : VaultReturn(body)))
  /\ WF_vars((phase = "resolve" \/ Overdue) /\ Progress /\ UNCHANGED <<client, use_tls, authVars, vaultVars>>)
  /\ WF_vars(Auth(AuthTick))
  /\ WF_vars(Vault(VaultTick))

-----------------------------------------------------------------------------
TypeOK ==
  /\ phase \in Phases \cup {"idle", "done"} /\ left \in 0 .. Timeout
  /\ request \in {"none", "received", "executed"}
  /\ cache \in 0 .. Lifetime /\ valid \in 0 .. Lifetime /\ coming \in 0 .. Lifetime
  /\ attempt \in 0 .. kMaxAttempts - 1
  /\ (owner # NoThread \/ doing # "none") = (phase # "idle")
  /\ use_tls \/ phase \notin {"handshake", "shutdown"}

(* A token a thread is given without a failed refresh has not expired at   *)
(* the server: the margin covers the time the answer and the TLS shutdown  *)
(* may take before the client's clock starts.                              *)
TokenFresh == given.fresh => given.valid > 0


(* Once the provider exists it never is without a token: a refresh that    *)
(* fails, or stops half way, leaves one to fall back to.                   *)
AlwaysAToken == state = "made" => has


(* Every call of get_token(), refresh_token() and of the Vault client      *)
(* returns, whatever the servers do, threads waiting for the lock          *)
(* included.                                                               *)
CallsReturn ==
  /\ \A t \in Threads : op[t] # "none" ~> op[t] = "none"
  /\ doing # "none" ~> doing = "none"

(* put_secret() has the server store the secret at most once, as only      *)
(* answers that refuse the request are followed by another attempt.  And   *)
(* it reports success only of a secret the server stored, except where the *)
(* server closed the connection without an answer.                         *)
PutExact ==
  [][/\ doing' = "put" \/ vresult' # "none" => stored' <= 1
     /\ doing = "put" /\ vresult' = "ok" /\ outcome.status # "eof_2xx" => stored = 1]_vars
=============================================================================
