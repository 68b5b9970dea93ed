------------------------ MODULE ConnectionPoolProofs ------------------------
(* The accounting of ConnectionPool holds for any keys, cap and timeout. *)
EXTENDS ConnectionPool, FiniteSetTheorems, TLAPS

(* Popping the front of a queue removes exactly its client from Idle. *)
LEMMA PopFront ==
  ASSUME TypeOK, QueuedOnce, NEW k \in Keys, pools[k] # <<>>,
         pools' = [pools EXCEPT ![k] = Tail(@)]
  PROVE  /\ pools' \in [Keys -> Seq(Entry)]
         /\ Head(pools[k]).client \in Idle
         /\ Idle' = Idle \ {Head(pools[k]).client}
         /\ QueuedOnce'
<1> DEFINE s == pools[k]
           c == Head(pools[k]).client
<1>1. s \in Seq(Entry) /\ s # <<>> /\ Len(s) \in Nat \ {0} /\ DOMAIN s = 1 .. Len(s)
  BY DEF TypeOK
<1>2. /\ Tail(s) \in Seq(Entry) /\ DOMAIN Tail(s) = 1 .. Len(s) - 1
      /\ \A i \in 1 .. Len(s) - 1 : Tail(s)[i] = s[i + 1]
  BY <1>1
<1>3. /\ pools'[k] = Tail(s)
      /\ \A l \in Keys : l # k => pools'[l] = pools[l]
      /\ pools' \in [Keys -> Seq(Entry)]
  BY <1>2 DEF TypeOK
<1>4. c = s[1].client /\ 1 \in DOMAIN s
  BY <1>1
<1>5. c \in Idle
  BY <1>4 DEF Idle, Queued
<1>6. \A l \in Keys : l # k => Queued(l)' = Queued(l) /\ c \notin Queued(l)
  BY <1>3, <1>4 DEF Queued, QueuedOnce
<1>7. Queued(k)' = Queued(k) \ {c}
  <2>1. \A x : x \in Queued(k)' <=> \E i \in 1 .. Len(s) - 1 : x = s[i + 1].client
    <3>1. Queued(k)' = {Tail(s)[i].client : i \in 1 .. Len(s) - 1}
      BY <1>2, <1>3, Zenon DEF Queued
    <3> QED BY <1>2, <3>1, Zenon
  <2>2. \A i \in 1 .. Len(s) - 1 : i + 1 \in DOMAIN s /\ s[i + 1].client # c
    <3> TAKE i \in 1 .. Len(s) - 1
    <3>1. i + 1 \in DOMAIN s /\ i + 1 # 1
      BY <1>1
    <3> QED BY <1>4, <3>1 DEF QueuedOnce
  <2>3. \A j \in DOMAIN s : j # 1 => j - 1 \in 1 .. Len(s) - 1 /\ s[(j - 1) + 1] = s[j]
    BY <1>1
  <2>4. ASSUME NEW x \in Queued(k), x # c PROVE x \in Queued(k)'
    <3>1. PICK j \in DOMAIN s : x = s[j].client
      BY <2>4 DEF Queued
    <3>2. j # 1
      BY <1>4, <2>4, <3>1
    <3>3. j - 1 \in 1 .. Len(s) - 1 /\ s[(j - 1) + 1].client = x
      BY <2>3, <3>1, <3>2
    <3> QED BY <2>1, <3>3
  <2>5. ASSUME NEW x \in Queued(k)' PROVE x \in Queued(k) /\ x # c
    <3>1. PICK i \in 1 .. Len(s) - 1 : x = s[i + 1].client
      BY <2>1, <2>5
    <3> QED BY <2>2, <3>1 DEF Queued
  <2> QED BY <2>4, <2>5
<1>8. Idle' = Idle \ {c}
  BY <1>6, <1>7 DEF Idle
<1>9. QueuedOnce'
  <2> SUFFICES ASSUME NEW l \in Keys, NEW m \in Keys,
                      NEW i \in DOMAIN pools'[l], NEW j \in DOMAIN pools'[m],
                      pools'[l][i].client = pools'[m][j].client
               PROVE  l = m /\ i = j
    BY DEF QueuedOnce
  <2> DEFINE up(x, n) == IF x = k THEN n + 1 ELSE n
  <2>1. \A x \in Keys : \A n \in DOMAIN pools'[x] :
          up(x, n) \in DOMAIN pools[x] /\ pools'[x][n] = pools[x][up(x, n)]
    BY <1>1, <1>2, <1>3
  <2>2. l = m /\ up(l, i) = up(m, j)
    <3> HIDE DEF up
    <3> QED BY <2>1 DEF QueuedOnce
  <2>3. i \in Int /\ j \in Int
    <3>1. \A x \in Keys : DOMAIN pools'[x] \subseteq Int
      BY <1>3
    <3> QED BY <3>1
  <2> QED BY <2>2, <2>3
<1> QED BY <1>3, <1>5, <1>8, <1>9

(* Queueing a client that is not idle adds exactly that client to Idle. *)
LEMMA PushBack ==
  ASSUME TypeOK, QueuedOnce, NEW k \in Keys, NEW e \in Entry, e.client \notin Idle,
         pools' = [pools EXCEPT ![k] = Append(@, e)]
  PROVE  /\ pools' \in [Keys -> Seq(Entry)]
         /\ Idle' = Idle \cup {e.client}
         /\ QueuedOnce'
<1> DEFINE s == pools[k]
           n == Len(pools[k])
<1>1. s \in Seq(Entry) /\ n \in Nat /\ DOMAIN s = 1 .. n
  BY DEF TypeOK
<1>2. /\ Append(s, e) \in Seq(Entry) /\ DOMAIN Append(s, e) = 1 .. n + 1
      /\ \A i \in 1 .. n : Append(s, e)[i] = s[i]
      /\ Append(s, e)[n + 1] = e
  BY <1>1
<1>3. /\ pools'[k] = Append(s, e)
      /\ \A l \in Keys : l # k => pools'[l] = pools[l]
      /\ pools' \in [Keys -> Seq(Entry)]
  BY <1>2 DEF TypeOK
<1> HIDE DEF s, n
<1>4. \A l \in Keys : l # k => Queued(l)' = Queued(l)
  BY <1>3 DEF Queued
<1>5. \A i : i \in 1 .. n + 1 <=> i \in 1 .. n \/ i = n + 1
  BY <1>1
<1>6. Queued(k)' = Queued(k) \cup {e.client}
  BY <1>1, <1>2, <1>3, <1>5 DEF Queued, s
<1>7. Idle' = Idle \cup {e.client}
  BY <1>4, <1>6 DEF Idle
<1>8. \A l \in Keys : \A i \in DOMAIN pools[l] : pools[l][i].client # e.client
  BY DEF Idle, Queued
<1>9. QueuedOnce'
  <2> SUFFICES ASSUME NEW l \in Keys, NEW m \in Keys,
                      NEW i \in DOMAIN pools'[l], NEW j \in DOMAIN pools'[m],
                      pools'[l][i].client = pools'[m][j].client
               PROVE  l = m /\ i = j
    BY DEF QueuedOnce
  <2>1. \A x \in Keys : \A y \in DOMAIN pools'[x] :
          \/ x = k /\ y = n + 1 /\ pools'[x][y] = e
          \/ y \in DOMAIN pools[x] /\ pools'[x][y] = pools[x][y]
    BY <1>1, <1>2, <1>3, <1>5 DEF s
  <2> QED BY <1>8, <2>1 DEF QueuedOnce
<1> QED BY <1>3, <1>7, <1>9

LEMMA PoolInit == Init => PoolInv
<1> SUFFICES ASSUME Init PROVE PoolInv
  OBVIOUS
<1>1. \A k \in Keys : pools[k] = <<>> /\ held[k] = {} /\ DOMAIN pools[k] = {}
  BY DEF Init
<1>2. Idle = {} /\ Held = {} /\ Live = {}
  BY <1>1 DEF Idle, Held, Live, Queued, Init
<1>3. TypeOK
  <2>1. <<>> \in Seq(Entry)
    OBVIOUS
  <2> QED BY <2>1 DEF Init, TypeOK
<1>4. SingleOwner
  BY <1>1, <1>2 DEF SingleOwner, QueuedOnce
<1>5. CapRespected
  BY <1>2, FS_EmptySet, PoolAssumption DEF CapRespected, Init
<1>6. QueuesSorted /\ SweptClean
  BY <1>1 DEF QueuesSorted, SweptClean, Init
<1> QED BY <1>3, <1>4, <1>5, <1>6 DEF PoolInv

(* Who owns what after the client c of key k changes hands. *)
LEMMA HeldAdd ==
  ASSUME TypeOK, NEW k \in Keys, NEW c \in Clients,
         held' = [held EXCEPT ![k] = @ \cup {c}]
  PROVE  /\ held' \in [Keys -> SUBSET Clients]
         /\ Held' = Held \cup {c}
         /\ \A l \in Keys : held'[l] = IF l = k THEN held[l] \cup {c} ELSE held[l]
<1>1. /\ held' \in [Keys -> SUBSET Clients]
      /\ \A l \in Keys : held'[l] = IF l = k THEN held[l] \cup {c} ELSE held[l]
  BY DEF TypeOK
<1> QED BY <1>1 DEF Held

LEMMA HeldRemove ==
  ASSUME TypeOK, SingleOwner, NEW k \in Keys, NEW c \in held[k],
         held' = [held EXCEPT ![k] = @ \ {c}]
  PROVE  /\ held' \in [Keys -> SUBSET Clients]
         /\ c \in Clients /\ c \in Held
         /\ Held' = Held \ {c}
         /\ \A l \in Keys : held'[l] \subseteq held[l]
<1>1. /\ held' \in [Keys -> SUBSET Clients] /\ c \in Clients
      /\ held'[k] = held[k] \ {c} /\ \A l \in Keys : l # k => held'[l] = held[l]
  BY DEF TypeOK
<1>2. \A l \in Keys : l # k => c \notin held[l]
  BY DEF SingleOwner
<1> QED BY <1>1, <1>2 DEF Held

(* QueuesSorted after a push of the current time, and after a pop. *)
LEMMA SortedPush ==
  ASSUME TypeOK, QueuesSorted, NEW k \in Keys, NEW e \in Entry, e.idle_since = clock,
         pools' = [pools EXCEPT ![k] = Append(@, e)], clock' = clock
  PROVE  QueuesSorted'
<1>1. \A l \in Keys : l # k => pools'[l] = pools[l]
  BY DEF TypeOK
<1>2. /\ pools[k] \in Seq(Entry) /\ pools'[k] = Append(pools[k], e)
      /\ Len(pools[k]) \in Nat /\ DOMAIN pools[k] = 1 .. Len(pools[k]) /\ clock \in Nat
  BY DEF TypeOK
<1>3. \A i \in DOMAIN pools'[k] :
        \/ i \in DOMAIN pools[k] /\ pools'[k][i] = pools[k][i] /\ i <= Len(pools[k])
        \/ i = Len(pools[k]) + 1 /\ pools'[k][i] = e
  BY <1>2
<1>4. \A i \in DOMAIN pools[k] : i \in Nat /\ pools[k][i].idle_since <= clock
  BY <1>2 DEF QueuesSorted
<1>5. /\ \A i \in DOMAIN pools'[k] : pools'[k][i].idle_since <= clock
      /\ \A i, j \in DOMAIN pools'[k] :
           i < j => pools'[k][i].idle_since <= pools'[k][j].idle_since
  BY <1>2, <1>3, <1>4 DEF QueuesSorted
<1> QED BY <1>1, <1>5 DEF QueuesSorted

LEMMA TailFacts ==
  ASSUME TypeOK, NEW k \in Keys, pools[k] # <<>>,
         pools' = [pools EXCEPT ![k] = Tail(@)]
  PROVE  /\ \A l \in Keys : l # k => pools'[l] = pools[l]
         /\ DOMAIN pools[k] \subseteq Int
         /\ \A i \in DOMAIN pools'[k] :
              i + 1 \in DOMAIN pools[k] /\ i \in Int /\ pools'[k][i] = pools[k][i + 1]
<1>1. pools[k] \in Seq(Entry) /\ pools'[k] = Tail(pools[k])
  BY DEF TypeOK
<1>2. \A l \in Keys : l # k => pools'[l] = pools[l]
  BY DEF TypeOK
<1>3. Len(pools[k]) \in Nat \ {0} /\ DOMAIN pools[k] = 1 .. Len(pools[k])
  BY <1>1
<1>4. /\ DOMAIN Tail(pools[k]) = 1 .. Len(pools[k]) - 1
      /\ \A i \in 1 .. Len(pools[k]) - 1 : Tail(pools[k])[i] = pools[k][i + 1]
  BY <1>1, <1>3
<1>5. ASSUME NEW i \in DOMAIN pools'[k]
      PROVE  i + 1 \in DOMAIN pools[k] /\ i \in Int /\ pools'[k][i] = pools[k][i + 1]
  <2>1. i \in 1 .. Len(pools[k]) - 1
    BY <1>1, <1>4
  <2>2. i \in Int /\ i + 1 \in 1 .. Len(pools[k])
    BY <1>3, <2>1
  <2> QED BY <1>1, <1>3, <1>4, <2>1, <2>2
<1>6. DOMAIN pools[k] \subseteq Int
  BY <1>3
<1> QED BY <1>2, <1>5, <1>6

LEMMA SortedPop ==
  ASSUME TypeOK, QueuesSorted, NEW k \in Keys, pools[k] # <<>>,
         pools' = [pools EXCEPT ![k] = Tail(@)], clock' = clock
  PROVE  QueuesSorted'
<1> DEFINE q == pools'[k]
           s == pools[k]
<1>0. /\ \A l \in Keys : l # k => pools'[l] = pools[l]
      /\ \A i \in DOMAIN q : i + 1 \in DOMAIN s /\ i \in Int /\ q[i] = s[i + 1]
  BY TailFacts
<1>2. /\ \A i \in DOMAIN pools'[k] : pools'[k][i].idle_since <= clock
      /\ \A i, j \in DOMAIN pools'[k] :
           i < j => pools'[k][i].idle_since <= pools'[k][j].idle_since
  <2>1. /\ \A i \in DOMAIN s : s[i].idle_since <= clock
        /\ \A i, j \in DOMAIN s : i < j => s[i].idle_since <= s[j].idle_since
    BY DEF QueuesSorted
  <2> HIDE DEF q, s
  <2>2. \A i \in DOMAIN q : q[i].idle_since <= clock
    BY <1>0, <2>1
  <2>3. \A i, j \in DOMAIN q : i < j => q[i].idle_since <= q[j].idle_since
    BY <1>0, <2>1
  <2> QED BY <2>2, <2>3 DEF q
<1> QED BY <1>0, <1>2 DEF QueuesSorted

(* Every step of the pool preserves the inductive invariant. *)
LEMMA PoolStep ==
  ASSUME PoolInv, [Next]_vars
  PROVE  PoolInv'
<1> USE PoolAssumption DEF PoolInv
<1>0. QueuedOnce /\ total_created \in Nat /\ clock \in Nat
  BY DEF SingleOwner, TypeOK
<1>1. ASSUME NEW k \in Keys, NEW c \in Clients, AcquireIdle(k, c) PROVE PoolInv'
  <2> DEFINE hc == Head(pools[k]).client
  <2>1. /\ pools[k] # <<>> /\ c = hc /\ ~sweep.on
        /\ pools' = [pools EXCEPT ![k] = Tail(@)]
        /\ held' = [held EXCEPT ![k] = @ \cup {c}]
        /\ UNCHANGED <<total_created, dropped, clock, sweep>>
    BY <1>1 DEF AcquireIdle
  <2>2. pools' \in [Keys -> Seq(Entry)] /\ c \in Idle /\ Idle' = Idle \ {c} /\ QueuedOnce'
    BY <1>0, <2>1, PopFront
  <2>3. /\ held' \in [Keys -> SUBSET Clients] /\ Held' = Held \cup {c}
        /\ \A l \in Keys : held'[l] = IF l = k THEN held[l] \cup {c} ELSE held[l]
    BY <2>1, HeldAdd
  <2>4. TypeOK'
    BY <2>1, <2>2, <2>3 DEF TypeOK
  <2>5. c \notin Held /\ c \notin dropped /\ \A l \in Keys : c \notin held[l]
    BY <2>2 DEF SingleOwner, Held
  <2>6. SingleOwner'
    BY <2>1, <2>2, <2>3, <2>5 DEF SingleOwner
  <2>7. Live' = Live
    BY <2>1, <2>2, <2>3 DEF Live
  <2>8. CapRespected'
    BY <2>1, <2>7 DEF CapRespected
  <2>9. QueuesSorted'
    BY <2>1, SortedPop
  <2> QED BY <2>1, <2>4, <2>6, <2>8, <2>9 DEF SweptClean
<1>2. ASSUME NEW k \in Keys, NEW c \in Clients, AcquireNew(k, c) PROVE PoolInv'
  <2>1. /\ ~sweep.on /\ total_created < max_connections /\ c \notin Live
        /\ total_created' = total_created + 1
        /\ held' = [held EXCEPT ![k] = @ \cup {c}]
        /\ UNCHANGED <<pools, dropped, clock, sweep>>
    BY <1>2 DEF AcquireNew
  <2>2. /\ held' \in [Keys -> SUBSET Clients] /\ Held' = Held \cup {c}
        /\ \A l \in Keys : held'[l] = IF l = k THEN held[l] \cup {c} ELSE held[l]
    BY <2>1, HeldAdd
  <2>3. Idle' = Idle /\ QueuedOnce'
    BY <1>0, <2>1 DEF Idle, Queued, QueuedOnce
  <2>4. TypeOK'
    BY <1>0, <2>1, <2>2 DEF TypeOK
  <2>5. c \notin Idle /\ c \notin Held /\ c \notin dropped /\ \A l \in Keys : c \notin held[l]
    BY <2>1 DEF Live, Held
  <2>6. SingleOwner'
    BY <2>1, <2>2, <2>3, <2>5 DEF SingleOwner
  <2>7. Live' = Live \cup {c}
    BY <2>1, <2>2, <2>3 DEF Live
  <2>8. CapRespected'
    BY <1>0, <2>1, <2>7, FS_AddElement DEF CapRespected
  <2>9. QueuesSorted' /\ SweptClean'
    BY <2>1 DEF QueuesSorted, SweptClean
  <2> QED BY <2>4, <2>6, <2>8, <2>9
<1>3. ASSUME NEW k \in Keys, NEW c \in Clients, Release(k, c) PROVE PoolInv'
  <2>1. /\ ~sweep.on /\ c \in held[k]
        /\ held' = [held EXCEPT ![k] = @ \ {c}]
        /\ UNCHANGED <<dropped, clock, sweep>>
    BY <1>3 DEF Release
  <2>2. /\ held' \in [Keys -> SUBSET Clients] /\ c \in Clients /\ c \in Held
        /\ Held' = Held \ {c} /\ \A l \in Keys : held'[l] \subseteq held[l]
    BY <2>1, HeldRemove
  <2>3. c \notin Idle /\ c \notin dropped
    BY <2>2 DEF SingleOwner
  <2>4. \A l, m \in Keys : l # m => held'[l] \cap held'[m] = {}
    BY <2>2 DEF SingleOwner
  <2>5. CASE Len(pools[k]) >= max_connections
    <3>1. /\ UNCHANGED pools
          /\ total_created' = IF total_created > 0 THEN total_created - 1 ELSE 0
      BY <1>3, <2>5 DEF Release
    <3>2. Idle' = Idle /\ QueuedOnce'
      BY <1>0, <3>1 DEF Idle, Queued, QueuedOnce
    <3>3. Live' = Live \ {c} /\ c \in Live
      BY <2>1, <2>2, <2>3, <3>2 DEF Live
    <3>4. CapRespected' /\ total_created' \in Nat
      BY <1>0, <3>1, <3>3, FS_RemoveElement, FS_CardinalityType, FS_EmptySet DEF CapRespected
    <3>5. TypeOK' /\ SingleOwner'
      BY <2>1, <2>2, <2>3, <2>4, <3>1, <3>2, <3>4 DEF TypeOK, SingleOwner
    <3> QED BY <2>1, <3>1, <3>4, <3>5 DEF QueuesSorted, SweptClean
  <2>6. CASE ~(Len(pools[k]) >= max_connections)
    <3> DEFINE e == [client |-> c, idle_since |-> clock]
    <3>1. pools' = [pools EXCEPT ![k] = Append(@, e)] /\ UNCHANGED total_created
      BY <1>3, <2>6 DEF Release
    <3>2. e \in Entry /\ e.client = c /\ e.idle_since = clock
      BY <1>0, <2>2 DEF Entry
    <3> HIDE DEF e
    <3>3. pools' \in [Keys -> Seq(Entry)] /\ Idle' = Idle \cup {c} /\ QueuedOnce'
      BY <1>0, <2>3, <3>1, <3>2, PushBack
    <3>4. Live' = Live
      BY <2>1, <2>2, <3>3 DEF Live
    <3>5. TypeOK' /\ CapRespected'
      BY <2>1, <2>2, <3>1, <3>3, <3>4 DEF TypeOK, CapRespected
    <3>6. SingleOwner'
      BY <2>1, <2>2, <2>3, <2>4, <3>3 DEF SingleOwner
    <3>7. QueuesSorted'
      BY <2>1, <3>1, <3>2, SortedPush
    <3> QED BY <2>1, <3>5, <3>6, <3>7 DEF SweptClean
  <2> QED BY <2>5, <2>6
<1>4. ASSUME NEW k \in Keys, NEW c \in Clients, Drop(k, c) PROVE PoolInv'
  <2>1. /\ c \in held[k]
        /\ held' = [held EXCEPT ![k] = @ \ {c}]
        /\ dropped' = dropped \cup {c}
        /\ UNCHANGED <<pools, total_created, clock, sweep>>
    BY <1>4 DEF Drop
  <2>2. /\ held' \in [Keys -> SUBSET Clients] /\ c \in Clients /\ c \in Held
        /\ Held' = Held \ {c} /\ \A l \in Keys : held'[l] \subseteq held[l]
    BY <2>1, HeldRemove
  <2>3. Idle' = Idle /\ QueuedOnce'
    BY <1>0, <2>1 DEF Idle, Queued, QueuedOnce
  <2>4. TypeOK'
    BY <2>1, <2>2 DEF TypeOK
  <2>5. SingleOwner'
    BY <2>1, <2>2, <2>3 DEF SingleOwner
  <2>6. Live' = Live
    BY <2>1, <2>2, <2>3 DEF Live
  <2> QED BY <2>1, <2>4, <2>5, <2>6 DEF CapRespected, QueuesSorted, SweptClean
<1>5. ASSUME NEW k \in Keys, SweepPop(k) PROVE PoolInv'
  <2> DEFINE c == Head(pools[k]).client
  <2>1. /\ pools[k] # <<>> /\ k \in sweep.todo
        /\ pools' = [pools EXCEPT ![k] = Tail(@)]
        /\ total_created' = IF total_created > 0 THEN total_created - 1 ELSE 0
        /\ UNCHANGED <<held, dropped, clock, sweep>>
    BY <1>5 DEF SweepPop, Expired
  <2>2. pools' \in [Keys -> Seq(Entry)] /\ c \in Idle /\ Idle' = Idle \ {c} /\ QueuedOnce'
    BY <1>0, <2>1, PopFront
  <2> HIDE DEF c
  <2>3. Held' = Held /\ c \notin Held /\ c \notin dropped
    BY <2>1, <2>2 DEF SingleOwner, Held
  <2>4. Live' = Live \ {c} /\ c \in Live
    BY <2>1, <2>2, <2>3 DEF Live
  <2>5. CapRespected' /\ total_created' \in Nat
    BY <1>0, <2>1, <2>4, FS_RemoveElement, FS_CardinalityType, FS_EmptySet DEF CapRespected
  <2>6. TypeOK' /\ SingleOwner'
    BY <2>1, <2>2, <2>3, <2>5 DEF TypeOK, SingleOwner
  <2>7. QueuesSorted'
    BY <2>1, SortedPop
  <2>8. SweptClean'
    BY <2>1, TailFacts DEF SweptClean
  <2> QED BY <2>5, <2>6, <2>7, <2>8
<1>6. ASSUME NEW k \in Keys, SweepNext(k) PROVE PoolInv'
  <2>1. /\ UNCHANGED <<pools, total_created, held, dropped, clock>> /\ ~Expired(k)
        /\ sweep' = [sweep EXCEPT !.todo = @ \ {k}] /\ sweep.on
        /\ sweep \in [on : BOOLEAN, todo : SUBSET Keys, now : Nat]
    BY <1>6 DEF SweepNext, TypeOK
  <2>2. sweep' \in [on : BOOLEAN, todo : SUBSET Keys, now : Nat] /\ sweep'.now = sweep.now
        /\ sweep'.todo = sweep.todo \ {k} /\ sweep'.on = sweep.on
    BY <2>1
  <2>3. \A i \in DOMAIN pools[k] : sweep.now - pools[k][i].idle_since < idle_timeout
    <3> TAKE i \in DOMAIN pools[k]
    <3>1. /\ pools[k] \in Seq(Entry) /\ pools[k] # <<>> /\ 1 \in DOMAIN pools[k] /\ i >= 1
          /\ i \in Int /\ Head(pools[k]) = pools[k][1]
      BY DEF TypeOK
    <3>2. pools[k][1].idle_since <= pools[k][i].idle_since
          /\ pools[k][1].idle_since \in Nat /\ pools[k][i].idle_since \in Nat
      <4>1. pools[k][1] \in Entry /\ pools[k][i] \in Entry
        BY <3>1
      <4>2. pools[k][1].idle_since \in Nat /\ pools[k][i].idle_since \in Nat
        BY <4>1 DEF Entry
      <4> QED BY <3>1, <4>2 DEF QueuesSorted
    <3>3. ~(sweep.now - pools[k][1].idle_since >= idle_timeout)
      BY <2>1, <3>1 DEF Expired
    <3> QED BY <2>1, <3>2, <3>3
  <2>4. TypeOK'
    BY <2>1, <2>2 DEF TypeOK
  <2>5. SingleOwner' /\ CapRespected' /\ QueuesSorted'
    <3>1. Idle' = Idle /\ Held' = Held /\ Live' = Live /\ QueuedOnce'
      BY <1>0, <2>1 DEF Live, Idle, Held, Queued, QueuedOnce
    <3> QED BY <2>1, <3>1 DEF SingleOwner, CapRespected, QueuesSorted
  <2> QED BY <2>1, <2>2, <2>3, <2>4, <2>5 DEF SweptClean
<1>7. CASE BeginCleanup \/ EndCleanup \/ Tick \/ UNCHANGED vars
  <2>1. UNCHANGED <<pools, total_created, held, dropped>>
    BY <1>7 DEF BeginCleanup, EndCleanup, Tick, vars
  <2>2. SingleOwner' /\ CapRespected'
    <3>1. Idle' = Idle /\ Held' = Held /\ Live' = Live /\ QueuedOnce'
      BY <1>0, <2>1 DEF Live, Idle, Held, Queued, QueuedOnce
    <3> QED BY <2>1, <3>1 DEF SingleOwner, CapRespected
  <2>3. TypeOK'
    <3>1. sweep \in [on : BOOLEAN, todo : SUBSET Keys, now : Nat]
      BY DEF TypeOK
    <3>2. sweep' \in [on : BOOLEAN, todo : SUBSET Keys, now : Nat] /\ clock' \in Nat
      <4>1. Keys \in SUBSET Keys /\ TRUE \in BOOLEAN /\ FALSE \in BOOLEAN
        OBVIOUS
      <4>2. CASE BeginCleanup
        BY <1>0, <4>1, <4>2, Zenon DEF BeginCleanup
      <4>3. CASE EndCleanup
        BY <1>0, <3>1, <4>3 DEF EndCleanup
      <4>4. CASE Tick
        BY <1>0, <3>1, <4>4 DEF Tick
      <4>5. CASE UNCHANGED vars
        BY <1>0, <3>1, <4>5 DEF vars
      <4> QED BY <1>7, <4>2, <4>3, <4>4, <4>5
    <3> QED BY <2>1, <3>2 DEF TypeOK
  <2>4. QueuesSorted'
    <3>1. clock' \in Nat /\ clock <= clock'
      BY <1>0, <1>7 DEF BeginCleanup, EndCleanup, Tick, vars
    <3>2. \A k \in Keys : \A i \in DOMAIN pools[k] : pools[k][i].idle_since \in Nat
      <4> TAKE k \in Keys
      <4> TAKE i \in DOMAIN pools[k]
      <4>1. pools[k][i] \in Entry
        BY DEF TypeOK
      <4> QED BY <4>1 DEF Entry
    <3> QED BY <1>0, <2>1, <3>1, <3>2 DEF QueuesSorted
  <2>5. SweptClean'
    <3>1. sweep \in [on : BOOLEAN, todo : SUBSET Keys, now : Nat]
      BY DEF TypeOK
    <3>2. (sweep'.on /\ sweep'.todo = Keys) \/ sweep' = sweep \/ ~sweep'.on
      BY <1>7, <3>1 DEF BeginCleanup, EndCleanup, Tick, vars
    <3> QED BY <2>1, <3>2 DEF SweptClean
  <2> QED BY <2>2, <2>3, <2>4, <2>5
<1> QED BY <1>1, <1>2, <1>3, <1>4, <1>5, <1>6, <1>7 DEF Next, Acquire

(* The inductive invariant holds in every reachable state. *)
THEOREM PoolInvariant == Spec => []PoolInv
BY PoolInit, PoolStep, PTL DEF Spec

(* Every variable keeps its type. *)
THEOREM PoolTyping == Spec => []TypeOK
BY PoolInvariant, PTL DEF PoolInv

(* acquire() never hands out a client that another caller may be using. *)
THEOREM PoolSingleOwner == Spec => []SingleOwner
BY PoolInvariant, PTL DEF PoolInv

(* total_created_ is exact and the cap holds, for any number of keys. *)
THEOREM PoolCap == Spec => []CapRespected
BY PoolInvariant, PTL DEF PoolInv

(* The branch of release() that destroys the client is never taken: the    *)
(* queue's clients and a held one are that many different live clients.    *)
THEOREM PoolReleasePools == Spec => []ReleaseAlwaysPools
<1>1. PoolInv => ReleaseAlwaysPools
  <2> SUFFICES ASSUME PoolInv, NEW c \in Held, NEW k \in Keys
               PROVE  Len(pools[k]) < max_connections
    BY DEF ReleaseAlwaysPools
  <2> DEFINE n == Len(pools[k])
             f == [i \in 1 .. n |-> pools[k][i].client]
  <2>1. pools[k] \in Seq(Entry) /\ n \in Nat /\ DOMAIN pools[k] = 1 .. n
    BY DEF PoolInv, TypeOK
  <2>2. f \in Bijection(1 .. n, Queued(k))
    <3>1. Queued(k) = {f[i] : i \in 1 .. n}
      BY <2>1 DEF Queued
    <3>2. f \in [1 .. n -> Queued(k)] /\ \A x \in Queued(k) : \E i \in 1 .. n : f[i] = x
      BY <3>1
    <3>3. \A i, j \in 1 .. n : f[i] = f[j] => i = j
      BY <2>1 DEF PoolInv, SingleOwner, QueuedOnce
    <3> HIDE DEF f
    <3> QED BY <3>2, <3>3 DEF Bijection, Injection, Surjection, IsInjective
  <2>3. IsFiniteSet(1 .. n) /\ Cardinality(1 .. n) = n
    BY <2>1, FS_Interval
  <2>4. IsFiniteSet(Queued(k)) /\ Cardinality(Queued(k)) = n
    <3> HIDE DEF f, n
    <3> QED BY <2>2, <2>3, FS_Bijection DEF ExistsBijection
  <2>5. c \notin Queued(k) /\ Queued(k) \cup {c} \subseteq Live
    BY DEF PoolInv, SingleOwner, Idle, Live
  <2>6. IsFiniteSet(Queued(k) \cup {c}) /\ Cardinality(Queued(k) \cup {c}) = n + 1
    BY <2>4, <2>5, FS_AddElement
  <2>7. Cardinality(Queued(k) \cup {c}) <= Cardinality(Live)
    BY <2>5, FS_Subset DEF PoolInv, CapRespected
  <2>8. Cardinality(Live) <= max_connections /\ Cardinality(Live) \in Nat
    BY FS_CardinalityType DEF PoolInv, CapRespected
  <2> HIDE DEF n
  <2>9. n < max_connections
    BY PoolAssumption, <2>1, <2>6, <2>7, <2>8
  <2> QED BY <2>9 DEF n
<1> QED BY <1>1, PoolInvariant, PTL

(* Looking at the front of each queue is enough for cleanup(). *)
THEOREM PoolCleanup == Spec => CleanupComplete
<1> DEFINE A == sweep.on /\ ~sweep'.on =>
                  \A k \in Keys : \A i \in DOMAIN pools[k] :
                     sweep.now - pools[k][i].idle_since < idle_timeout
<1>1. PoolInv /\ [Next]_vars => [A]_vars
  <2> SUFFICES ASSUME PoolInv, Next, sweep.on, ~sweep'.on
               PROVE  \A k \in Keys : \A i \in DOMAIN pools[k] :
                        sweep.now - pools[k][i].idle_since < idle_timeout
    BY DEF vars
  <2>1. sweep \in [on : BOOLEAN, todo : SUBSET Keys, now : Nat]
    BY DEF PoolInv, TypeOK
  <2>2. EndCleanup
    BY <2>1 DEF Next, Acquire, AcquireIdle, AcquireNew, Release, Drop, BeginCleanup,
                SweepPop, SweepNext, Tick
  <2> QED BY <2>2 DEF EndCleanup, PoolInv, SweptClean
<1> QED BY <1>1, PoolInvariant, PTL DEF Spec, CleanupComplete
=============================================================================
