--------------------------- MODULE ConnectionPool ---------------------------
(***************************************************************************)
(* ConnectionPool (core/net/connection_pool.cpp): Http11Client objects     *)
(* kept per host:port between uses, with a cap on how many exist.          *)
(*                                                                         *)
(* acquire() and release() run under mtx_ and are one step each; cleanup() *)
(* also holds mtx_, but is taken pop by pop.  A client is an identity, so  *)
(* that owning one twice is visible.                                       *)
(***************************************************************************)
EXTENDS Integers, Sequences, FiniteSets

CONSTANTS
  Keys,             \* the "host:port" strings in use
  Clients,          \* identities for Http11Client objects
  max_connections,  \* PoolConfig
  idle_timeout,     \* PoolConfig, in ticks of clock
  MaxClock          \* bound: how far the clock runs

ASSUME PoolAssumption ==
  /\ max_connections \in Nat /\ idle_timeout \in Nat /\ MaxClock \in Nat

VARIABLES
  pools,          \* pools_: a queue of entries for each key
  total_created,  \* total_created_
  held,           \* held[k]: the clients acquired for k and not yet returned
  dropped,        \* clients their holder destroyed instead of releasing them
  clock,          \* steady_clock, in units of idle_timeout's resolution
  sweep           \* the thread in cleanup(), which holds mtx_ while on

vars == <<pools, total_created, held, dropped, clock, sweep>>

Entry == [client : Clients, idle_since : Nat]

Init ==
  /\ pools = [k \in Keys |-> <<>>]
  /\ total_created = 0
  /\ held = [k \in Keys |-> {}]
  /\ dropped = {}
  /\ clock = 0
  /\ sweep = [on |-> FALSE, todo |-> {}, now |-> 0]

Queued(k) == {pools[k][i].client : i \in DOMAIN pools[k]}
Idle == UNION {Queued(k) : k \in Keys}
Held == UNION {held[k] : k \in Keys}

(* The clients total_created_ stands for. *)
Live == Idle \cup Held \cup dropped

-----------------------------------------------------------------------------
(* acquire() finds an idle client: the one that has been idle longest. *)
AcquireIdle(k, c) ==
  /\ ~sweep.on
  /\ pools[k] # <<>>
  /\ c = Head(pools[k]).client
  /\ pools' = [pools EXCEPT ![k] = Tail(@)]
  /\ held' = [held EXCEPT ![k] = @ \cup {c}]
  /\ UNCHANGED <<total_created, dropped, clock, sweep>>

(* Mutants: the new client is not counted; the cap is off by one. *)
AcquireNewUncounted(k, c) ==
  /\ ~sweep.on
  /\ pools[k] = <<>>
  /\ total_created < max_connections
  /\ c \notin Live
  /\ held' = [held EXCEPT ![k] = @ \cup {c}]
  /\ UNCHANGED <<pools, total_created, dropped, clock, sweep>>

AcquireNewOverCap(k, c) ==
  /\ ~sweep.on
  /\ pools[k] = <<>>
  /\ total_created <= max_connections
  /\ c \notin Live
  /\ total_created' = total_created + 1
  /\ held' = [held EXCEPT ![k] = @ \cup {c}]
  /\ UNCHANGED <<pools, dropped, clock, sweep>>

(* acquire() finds none and may still create one. *)
AcquireNew(k, c) ==
  /\ ~sweep.on
  /\ pools[k] = <<>>
  /\ total_created < max_connections
  /\ c \notin Live
  /\ total_created' = total_created + 1
  /\ held' = [held EXCEPT ![k] = @ \cup {c}]
  /\ UNCHANGED <<pools, dropped, clock, sweep>>

(* acquire() returns nullptr. *)
Exhausted(k) ==
  /\ ~sweep.on
  /\ pools[k] = <<>>
  /\ total_created >= max_connections

Acquire(k, c) == AcquireIdle(k, c) \/ AcquireNew(k, c)

(* Mutant: the entry is queued at the front. *)
ReleaseAtFront(k, c) ==
  /\ ~sweep.on
  /\ c \in held[k]
  /\ held' = [held EXCEPT ![k] = @ \ {c}]
  /\ pools' = [pools EXCEPT ![k] = <<[client |-> c, idle_since |-> clock]>> \o @]
  /\ UNCHANGED <<total_created, dropped, clock, sweep>>

(* release(): back into the queue, or destroyed when the queue is full. *)
Release(k, c) ==
  /\ ~sweep.on
  /\ c \in held[k]
  /\ held' = [held EXCEPT ![k] = @ \ {c}]
  /\ IF Len(pools[k]) >= max_connections
     THEN /\ total_created' = IF total_created > 0 THEN total_created - 1 ELSE 0
          /\ UNCHANGED pools
     ELSE /\ pools' = [pools EXCEPT ![k] =
                         Append(@, [client |-> c, idle_since |-> clock])]
          /\ UNCHANGED total_created
  /\ UNCHANGED <<dropped, clock, sweep>>

(* The holder destroys the client without release(), as the load engine    *)
(* does with a client whose request is unanswered.  The pool is not told.  *)
Drop(k, c) ==
  /\ c \in held[k]
  /\ held' = [held EXCEPT ![k] = @ \ {c}]
  /\ dropped' = dropped \cup {c}
  /\ UNCHANGED <<pools, total_created, clock, sweep>>

-----------------------------------------------------------------------------
(* cleanup() *)
BeginCleanup ==
  /\ ~sweep.on
  /\ sweep' = [on |-> TRUE, todo |-> Keys, now |-> clock]
  /\ UNCHANGED <<pools, total_created, held, dropped, clock>>

Expired(k) ==
  /\ pools[k] # <<>>
  /\ sweep.now - Head(pools[k]).idle_since >= idle_timeout

(* The front entry has been idle too long: close its client. *)
SweepPop(k) ==
  /\ sweep.on /\ k \in sweep.todo
  /\ Expired(k)
  /\ pools' = [pools EXCEPT ![k] = Tail(@)]
  /\ total_created' = IF total_created > 0 THEN total_created - 1 ELSE 0
  /\ UNCHANGED <<held, dropped, clock, sweep>>

(* The front entry is recent, or there is none: go on to the next key. *)
SweepNext(k) ==
  /\ sweep.on /\ k \in sweep.todo
  /\ ~Expired(k)
  /\ sweep' = [sweep EXCEPT !.todo = @ \ {k}]
  /\ UNCHANGED <<pools, total_created, held, dropped, clock>>

EndCleanup ==
  /\ sweep.on /\ sweep.todo = {}
  /\ sweep' = [sweep EXCEPT !.on = FALSE]
  /\ UNCHANGED <<pools, total_created, held, dropped, clock>>

Tick ==
  /\ clock < MaxClock
  /\ clock' = clock + 1
  /\ UNCHANGED <<pools, total_created, held, dropped, sweep>>

Next ==
  \/ \E k \in Keys, c \in Clients : Acquire(k, c) \/ Release(k, c) \/ Drop(k, c)
  \/ BeginCleanup \/ EndCleanup
  \/ \E k \in Keys : SweepPop(k) \/ SweepNext(k)
  \/ Tick

Spec == Init /\ [][Next]_vars

-----------------------------------------------------------------------------
(* Properties. *)

TypeOK ==
  /\ pools \in [Keys -> Seq(Entry)]
  /\ total_created \in Nat
  /\ held \in [Keys -> SUBSET Clients]
  /\ dropped \in SUBSET Clients
  /\ clock \in Nat
  /\ sweep \in [on : BOOLEAN, todo : SUBSET Keys, now : Nat]

(* No client is queued twice. *)
QueuedOnce ==
  \A k, l \in Keys : \A i \in DOMAIN pools[k], j \in DOMAIN pools[l] :
     pools[k][i].client = pools[l][j].client => k = l /\ i = j

(* A client has one owner: it sits once in one queue, or one caller holds  *)
(* it, or its holder destroyed it.  acquire() never hands out a client     *)
(* that somebody else may still be using.                                  *)
SingleOwner ==
  /\ QueuedOnce
  /\ \A k, l \in Keys : k # l => held[k] \cap held[l] = {}
  /\ Idle \cap Held = {} /\ Idle \cap dropped = {} /\ Held \cap dropped = {}

(* total_created_ counts exactly the clients that are queued, held or were *)
(* dropped by their holder, across keys, cleanups and full queues; so no   *)
(* more than max_connections sockets exist.                                *)
CapRespected ==
  /\ IsFiniteSet(Live)
  /\ total_created = Cardinality(Live)
  /\ total_created <= max_connections

(* cleanup() looks at the front of a queue only, which is enough: when it  *)
(* returns, no entry of any queue had been idle for idle_timeout.          *)
CleanupComplete ==
  [][sweep.on /\ ~sweep'.on =>
       \A k \in Keys : \A i \in DOMAIN pools[k] :
          sweep.now - pools[k][i].idle_since < idle_timeout]_vars

(* release() never has to destroy the client it is given: the queue of a   *)
(* key is full only when nobody holds a client.                            *)
ReleaseAlwaysPools ==
  Held # {} => \A k \in Keys : Len(pools[k]) < max_connections

-----------------------------------------------------------------------------
(* The inductive invariant: the accounting, and what cleanup() relies on. *)

(* Queues are in the order of release, so the front is idle longest. *)
QueuesSorted ==
  \A k \in Keys :
    /\ \A i \in DOMAIN pools[k] : pools[k][i].idle_since <= clock
    /\ \A i, j \in DOMAIN pools[k] :
         i < j => pools[k][i].idle_since <= pools[k][j].idle_since

(* The keys cleanup() has left behind hold no expired entry. *)
SweptClean ==
  sweep.on => \A k \in Keys \ sweep.todo : \A i \in DOMAIN pools[k] :
                sweep.now - pools[k][i].idle_since < idle_timeout

(* All of it holds: clients have one owner and are counted exactly, within *)
(* max_connections, and the queues are such that cleanup() may stop at the *)
(* first entry that is recent enough.                                      *)
PoolInv == TypeOK /\ SingleOwner /\ CapRespected /\ QueuesSorted /\ SweptClean
=============================================================================
