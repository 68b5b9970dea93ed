---------------------------- MODULE AuthProvider ----------------------------
(***************************************************************************)
(* AuthProvider for OAuth2 (core/security/auth_provider.cpp): threads that *)
(* take the token for their requests or refresh it, the mutex that is held *)
(* across the POST, and the server's clock for the lifetime of a token.    *)
(* The other kinds of authentication have no state.                        *)
(*                                                                         *)
(* Clocks run down: cache is token_expiry_ minus the time now, valid what  *)
(* the server has left for current_token_, coming the same for the token   *)
(* in the answer under way.                                                *)
(***************************************************************************)
EXTENDS SyncRequest, FiniteSets

CONSTANTS
  Threads,     \* the workers
  Lifetime,    \* expires_in
  Margin,      \* kExpiryMarginSec
  MaxCalls     \* bound: calls of a behaviour

(* 3600 and 60 seconds against two phases of 10 each. *)
ASSUME LifetimeAssumption == Lifetime > Margin /\ Margin >= 2 * Timeout

VARIABLES
  state,     \* of the provider: making, made, or thrown by its constructor
  owner,     \* who holds mtx_, or NoThread
  op,        \* what each thread does: none, get, refresh or ask
  has,       \* current_token_ is not empty
  cache, valid, coming,
  given,     \* the last token a thread was given: [fresh, valid]
  calls      \* so far

authVars == <<state, owner, op, has, cache, valid, coming, given, calls>>

NoThread == "none"
Biggest(a, b) == IF a >= b THEN a ELSE b
Down(n) == IF n > 0 THEN n - 1 ELSE 0

AuthInit ==
  /\ state = "making" /\ owner = NoThread
  /\ op = [t \in Threads |-> "none"]
  /\ has = FALSE /\ cache = 0 /\ valid = 0 /\ coming = 0
  /\ given = [fresh |-> FALSE, valid |-> 0]
  /\ calls = 0

-----------------------------------------------------------------------------
(* The constructor fetches the first token. *)
Construct ==
  /\ state = "making" /\ owner = NoThread /\ phase = "idle"
  /\ owner' = "constructor"
  /\ BeginExchange
  /\ UNCHANGED <<state, op, has, cache, valid, coming, given, calls>>

(* apply_headers() or get_auth_header(), refresh_token() or is_expired(),  *)
(* up to the lock.                                                         *)
Call(t, o) ==
  /\ state = "made" /\ op[t] = "none" /\ calls < MaxCalls
  /\ op' = [op EXCEPT ![t] = o]
  /\ calls' = calls + 1
  /\ UNCHANGED <<exchange, state, owner, has, cache, valid, coming, given>>


(* The lock: a token that has not expired is returned at once, and so is   *)
(* the answer of is_expired().                                             *)
Lock(t) ==
  /\ owner = NoThread /\ op[t] # "none"
  /\ IF op[t] = "ask" \/ (op[t] = "get" /\ cache > 0)
     THEN /\ op' = [op EXCEPT ![t] = "none"]
          /\ given' = IF op[t] = "get" THEN [fresh |-> TRUE, valid |-> valid] ELSE given
          /\ UNCHANGED <<exchange, owner>>
     ELSE owner' = t /\ BeginExchange /\ UNCHANGED <<op, given>>
  /\ UNCHANGED <<state, has, cache, valid, coming, calls>>


ExpiresAfter == Biggest(Lifetime - Margin, 1)

(* The end of fetch_token_locked(): the token is stored before expires_in  *)
(* is read, which may throw (parsed is "token_only" then).                 *)
Store(parsed) ==
  IF parsed # "nothing"
  THEN /\ has' = TRUE
       /\ valid' = coming
       /\ cache' = IF parsed = "all" THEN ExpiresAfter ELSE cache
  ELSE UNCHANGED <<has, valid, cache>>

(* What the code gets out of the outcome: an error, another status and an  *)
(* answer that never came have no body with a token.                       *)
Parsed         == {"all", "token_only", "nothing"}
Parses(parsed) == outcome.status = "2xx" \/ parsed = "nothing"

(* The exchange is over: the lock is released and the call returns; after  *)
(* a failed refresh get_token() falls back to the token it had.            *)
FetchDone(parsed) ==
  /\ phase = "done" /\ owner \in Threads /\ Parses(parsed)
  /\ Store(parsed)
  /\ given' = IF op[owner] = "get" THEN [fresh |-> parsed = "all", valid |-> valid'] ELSE given
  /\ op' = [op EXCEPT ![owner] = "none"]
  /\ owner' = NoThread
  /\ EndExchange /\ coming' = 0
  /\ UNCHANGED <<state, calls>>

(* The constructor throws if its fetch failed. *)
ConstructDone(parsed) ==
  /\ phase = "done" /\ owner = "constructor" /\ Parses(parsed)
  /\ Store(parsed)
  /\ state' = IF parsed = "all" THEN "made" ELSE "thrown"
  /\ owner' = NoThread
  /\ EndExchange /\ coming' = 0
  /\ UNCHANGED <<op, given, calls>>

(* The server issues a token with its answer. *)
IssueToken(status) ==
  /\ Execute(status)
  /\ coming' = IF status = "2xx" /\ phase = "read" THEN Lifetime ELSE coming
  /\ UNCHANGED <<state, owner, op, has, cache, valid, given, calls>>

AuthTick ==
  /\ TickExchange
  /\ cache' = Down(cache) /\ valid' = Down(valid) /\ coming' = Down(coming)
  /\ UNCHANGED <<state, owner, op, has, given, calls>>

AuthStep ==
  \/ Construct
  \/ \E t \in Threads : Lock(t) \/ \E o \in {"get", "refresh", "ask"} : Call(t, o)
  \/ \E parsed \in Parsed : FetchDone(parsed) \/ ConstructDone(parsed)
  \/ \E status \in Replies : IssueToken(status)
  \/ AuthTick
  \/ Progress /\ UNCHANGED authVars
=============================================================================
