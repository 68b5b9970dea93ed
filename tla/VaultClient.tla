---------------------------- MODULE VaultClient ----------------------------
(***************************************************************************)
(* VaultClient (core/vault/vault_client.cpp): each operation is a series   *)
(* of at most kMaxAttempts exchanges, repeated while the server answers    *)
(* 429.  The reading operations differ in what they look for in the body   *)
(* of a 2xx answer; there is no cache.                                     *)
(***************************************************************************)
EXTENDS SyncRequest

CONSTANT MaxVaultCalls   \* bound: operations of a behaviour

VARIABLES
  doing,      \* the operation under way: none, health, put or a get
  attempt,    \* of do_request()
  connected,  \* connected_
  stored,     \* how often the server executed the put under way
  vresult,    \* what the last operation returned
  vcalls      \* operations so far

vaultVars == <<doing, attempt, connected, stored, vresult, vcalls>>

kMaxAttempts == 3
Gets == {"get_secret", "get_secret_map", "get_database_creds", "get_approle_token"}

VaultInit ==
  /\ doing = "none" /\ attempt = 0 /\ connected = FALSE
  /\ stored = 0 /\ vresult = "none" /\ vcalls = 0

-----------------------------------------------------------------------------
Start(o) ==
  /\ doing = "none" /\ phase = "idle"
  /\ doing' = o /\ attempt' = 0 /\ stored' = 0 /\ vresult' = "none"
  /\ vcalls' = vcalls + 1
  /\ BeginExchange

(* The constructor's health_check() is the first operation. *)
VaultConstruct == vcalls = 0 /\ Start("health") /\ UNCHANGED connected

VaultCall(o) ==
  /\ vcalls \in 1 .. MaxVaultCalls - 1
  /\ Start(o)
  /\ UNCHANGED connected

(* An empty path, role or secret identifier. *)
VaultReject ==
  /\ vcalls \in 1 .. MaxVaultCalls - 1 /\ doing = "none"
  /\ vresult' = "invalid_config" /\ vcalls' = vcalls + 1 /\ stored' = 0
  /\ UNCHANGED <<exchange, doing, attempt, connected>>

(* Mutant: every answer that is no success is tried again. *)
RetryAll(status) == status # "2xx" /\ attempt + 1 < kMaxAttempts

(* do_request() goes around: too_many_requests, and attempts left. *)
Retry(status) == status = "429" /\ attempt + 1 < kMaxAttempts

check_response(status) ==
  CASE status \in {"2xx", "eof_2xx"} -> "ok"
    [] status = "404"                -> "vault_not_found"
    [] status = "403"                -> "vault_permission_denied"
    [] status = "401"                -> "vault_token_invalid"
    [] status \in {"429", "5xx"}     -> "vault_server_error"
    [] OTHER                         -> "unknown"

(* What the body of an answer may hold; without an answer it is empty. *)
Bodies == {"complete", "without_value", "malformed"}

(* What each operation makes of the body of a success. *)
get_secret(body) ==
  CASE body = "complete"      -> "ok"
    [] body = "without_value" -> "vault_not_found"
    [] OTHER                  -> "parse_error"

get_secret_map(body) == IF body = "malformed" THEN "parse_error" ELSE "ok"

get_database_creds(body) == IF body = "malformed" THEN "parse_error" ELSE "ok"

get_approle_token(body) == IF body = "complete" THEN "ok" ELSE "parse_error"

ParseBody(body) ==
  CASE doing = "get_secret"         -> get_secret(body)
    [] doing = "get_secret_map"     -> get_secret_map(body)
    [] doing = "get_database_creds" -> get_database_creds(body)
    [] doing = "get_approle_token"  -> get_approle_token(body)

put_secret(status) == check_response(status)

Result(body) ==
  CASE outcome.ec # "none"                    -> outcome.ec
    [] doing = "put"                          -> put_secret(outcome.status)
    [] check_response(outcome.status) # "ok"  -> check_response(outcome.status)
    [] OTHER -> ParseBody(IF outcome.status = "eof_2xx" THEN "malformed" ELSE body)

(* Mutant: the loop forgets to count. *)
RepeatUncounted ==
  /\ phase = "done" /\ doing # "none" /\ outcome.ec = "none" /\ Retry(outcome.status)
  /\ BeginExchange
  /\ UNCHANGED <<attempt, doing, connected, stored, vresult, vcalls>>

(* The next attempt, after a sleep. *)
Repeat ==
  /\ phase = "done" /\ doing # "none" /\ outcome.ec = "none" /\ Retry(outcome.status)
  /\ attempt' = attempt + 1
  /\ BeginExchange
  /\ UNCHANGED <<doing, connected, stored, vresult, vcalls>>

(* The operation returns.  health_check() only tells whether there was an  *)
(* answer below 500; three times 429 is no answer.                         *)
VaultReturn(body) ==
  /\ phase = "done" /\ doing # "none" /\ ~ (outcome.ec = "none" /\ Retry(outcome.status))
  /\ IF doing = "health"
     THEN /\ connected' = (outcome.ec = "none" /\ outcome.status \notin {"429", "5xx", "eof"})
          /\ vresult' = "none"
     ELSE vresult' = Result(body) /\ UNCHANGED connected
  /\ doing' = "none"
  /\ phase' = "idle" /\ outcome' = Nothing /\ reply' = "none"
  /\ UNCHANGED <<left, request, attempt, stored, vcalls>>

(* The server stores a put it answers with success, and perhaps one it     *)
(* fails to answer.                                                        *)
VaultExecute(status) ==
  /\ Execute(status)
  /\ stored' \in IF doing # "put" \/ status \in {"429", "404", "403"} THEN {stored}
                 ELSE IF status = "5xx" THEN {stored, stored + 1} ELSE {stored + 1}
  /\ UNCHANGED <<doing, attempt, connected, vresult, vcalls>>

VaultTick == TickExchange /\ UNCHANGED vaultVars

VaultStep ==
  \/ VaultConstruct \/ VaultReject \/ Repeat
  \/ \E o \in Gets \cup {"put"} : VaultCall(o)
  \/ \E body \in Bodies : VaultReturn(body)
  \/ \E status \in Replies : VaultExecute(status)
  \/ VaultTick \/ (Progress /\ UNCHANGED vaultVars)
=============================================================================
