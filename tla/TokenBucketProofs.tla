------------------------- MODULE TokenBucketProofs -------------------------
(* The rate bound of TokenBucket, for any rates, bursts and callers. *)
EXTENDS TokenBucket, TLAPS

(* What refill() yields lies between nothing and a full bucket. *)
LEMMA RefilledType ==
  ASSUME TypeOK
  PROVE  /\ rate \in Nat \ {0} /\ burst \in 1 .. MaxBurst
         /\ tokens \in Nat /\ elapsed \in Nat /\ rate * elapsed \in Nat
         /\ Refilled \in 0 .. burst
<1>1. rate \in Nat \ {0} /\ burst \in 1 .. MaxBurst /\ MaxBurst \in Nat
  BY BucketAssumption DEF TypeOK
<1>2. tokens \in Nat /\ elapsed \in Nat
  BY <1>1 DEF TypeOK
<1>3. rate * elapsed \in Nat
  BY <1>1, <1>2
<1>4. Refilled \in 0 .. burst
  <2> DEFINE p == rate * elapsed
  <2>1. p \in Nat
    BY <1>3
  <2> HIDE DEF p
  <2>2. Smaller(tokens + p, burst) \in 0 .. burst
    BY <1>1, <1>2, <2>1 DEF Smaller
  <2> QED BY <2>2 DEF Refilled, p
<1> QED BY <1>1, <1>2, <1>3, <1>4

(* Right after a refill nothing is outstanding. *)
LEMMA FreshRefill ==
  ASSUME rate' \in Nat, burst' \in Nat, tokens' \in 0 .. burst', elapsed' = 0
  PROVE  Refilled' = tokens'
<1>1. \A r \in Nat : r * 0 = 0
  OBVIOUS
<1>2. rate' * elapsed' = 0
  BY <1>1
<1>3. Refilled' = Smaller(tokens' + 0, burst')
  BY <1>2 DEF Refilled, Smaller
<1>4. \A b \in Nat : \A t \in 0 .. b : Smaller(t + 0, b) = t
  BY DEF Smaller
<1> QED BY <1>3, <1>4

LEMMA WaitType ==
  ASSUME TypeOK, Refilled < One
  PROVE  Wait \in Nat /\ Smaller(Wait, WaitCap) \in Nat
<1>1. rate \in Nat \ {0} /\ Refilled \in Nat
  BY RefilledType
<1>2. One - Refilled \in Nat
  BY <1>1, BucketAssumption
<1>3. Wait \in Nat
  BY <1>1, <1>2 DEF Wait
<1> QED BY <1>3, BucketAssumption DEF Smaller

LEMMA BucketInit == Init => BucketInv
<1> SUFFICES ASSUME Init PROVE BucketInv
  OBVIOUS
<1>1. rate \in Nat \ {0} /\ burst \in 1 .. MaxBurst /\ tokens = burst /\ MaxBurst \in Nat
  BY BucketAssumption DEF Init
<1>2. TypeOK
  BY <1>1 DEF Init, TypeOK
<1>3. Refilled <= credit
  BY <1>1, <1>2, RefilledType DEF Init
<1> QED BY <1>2, <1>3 DEF BucketInv

(* Every step keeps the invariant. *)
LEMMA BucketStep ==
  ASSUME BucketInv, [Next]_vars
  PROVE  BucketInv'
<1>0. /\ TypeOK /\ Refilled <= credit
      /\ rate \in Rates /\ burst \in Bursts /\ credit \in Int
      /\ rate \in Nat \ {0} /\ burst \in 1 .. MaxBurst /\ tokens \in Nat /\ tokens <= burst
      /\ elapsed \in Nat /\ elapsed <= MaxBurst
      /\ Refilled \in 0 .. burst /\ One \in Nat \ {0} /\ MaxBurst \in Nat
      /\ pc \in [Threads -> {"idle", "consume", "for"}] /\ left \in [Threads -> Nat]
  BY RefilledType, BucketAssumption DEF BucketInv, TypeOK
(* A step that refills and grants at most one token. *)
<1>1. ASSUME elapsed' = 0, UNCHANGED <<rate, burst>>,
             \/ Refilled >= One /\ Grant
             \/ tokens' = Refilled /\ credit' = credit,
             pc' \in [Threads -> {"idle", "consume", "for"}], left' \in [Threads -> Nat]
      PROVE  BucketInv'
  <2>1. tokens' \in 0 .. burst /\ credit' \in Int /\ tokens' <= credit'
    BY <1>0, <1>1 DEF Grant
  <2>2. TypeOK'
    BY <1>0, <1>1, <2>1 DEF TypeOK
  <2>3. Refilled' = tokens'
    BY <1>0, <1>1, <2>1, FreshRefill
  <2> QED BY <2>1, <2>2, <2>3 DEF BucketInv
<1>2. CASE TryConsume \/ TryConsumeFails
  BY <1>0, <1>1, <1>2 DEF TryConsume, TryConsumeFails
<1>3. ASSUME NEW w \in Threads, Consume(w) PROVE BucketInv'
  <2>1. pc' \in [Threads -> {"idle", "consume", "for"}] /\ left' \in [Threads -> Nat]
    BY <1>0, <1>3, WaitType DEF Consume
  <2> QED BY <1>0, <1>1, <1>3, <2>1 DEF Consume
<1>4. ASSUME NEW w \in Threads, NEW d \in Timeouts, TryConsumeFor(w, d) PROVE BucketInv'
  <2>1. pc' \in [Threads -> {"idle", "consume", "for"}] /\ left' \in [Threads -> Nat]
    BY <1>0, <1>4, WaitType DEF TryConsumeFor
  <2> QED BY <1>0, <1>1, <1>4, <2>1 DEF TryConsumeFor
<1>5. ASSUME NEW w \in Threads, Wake(w) PROVE BucketInv'
  <2>1. pc' \in [Threads -> {"idle", "consume", "for"}] /\ left' \in [Threads -> Nat]
    BY <1>0, <1>5, WaitType DEF Wake
  <2> QED BY <1>0, <1>1, <1>5, <2>1 DEF Wake
<1>6. ASSUME NEW r \in Rates, SetRate(r) PROVE BucketInv'
  <2>1. r \in Nat /\ rate' = r /\ burst' = burst /\ elapsed' = 0 /\ tokens' = Refilled
    BY <1>6, BucketAssumption DEF SetRate
  <2>2. Refilled' = tokens'
    BY <1>0, <2>1, FreshRefill
  <2>3. TypeOK'
    BY <1>0, <1>6, <2>1 DEF SetRate, TypeOK
  <2> QED BY <1>0, <1>6, <2>1, <2>2, <2>3 DEF SetRate, BucketInv
<1>7. ASSUME NEW b \in Bursts, SetBurst(b) PROVE BucketInv'
  <2>1. /\ b \in Nat /\ rate' = rate /\ burst' = b /\ elapsed' = 0 /\ credit' = credit
        /\ tokens' \in 0 .. b /\ tokens' <= Refilled
    BY <1>0, <1>7, BucketAssumption DEF SetBurst, Smaller
  <2>2. Refilled' = tokens'
    BY <1>0, <2>1, FreshRefill
  <2>3. TypeOK'
    BY <1>0, <1>7, <2>1 DEF SetBurst, TypeOK
  <2> QED BY <1>0, <2>1, <2>2, <2>3 DEF BucketInv
<1>8. CASE Tick
  <2> DEFINE p == rate * elapsed
             q == rate * elapsed'
  <2>1. /\ UNCHANGED <<rate, burst, tokens, pc>>
        /\ elapsed' \in Nat /\ elapsed' <= MaxBurst /\ elapsed' <= elapsed + 1
        /\ credit' = Smaller(credit + rate, MaxBurst)
        /\ left' \in [Threads -> Nat]
    BY <1>0, <1>8 DEF Tick, Smaller
  <2>2. p \in Nat /\ q \in Nat /\ q <= p + rate
    <3>1. elapsed' = elapsed + 1 \/ elapsed' = elapsed
      BY <1>0, <1>8 DEF Tick, Smaller
    <3>2. rate * (elapsed + 1) = rate * elapsed + rate
      BY <1>0
    <3>3. p \in Nat
      BY <1>0
    <3>4. q = p \/ q = p + rate
      BY <3>1, <3>2
    <3> HIDE DEF p, q
    <3> QED BY <1>0, <3>3, <3>4
  <2>3. Refilled = Smaller(tokens + p, burst) /\ Refilled' = Smaller(tokens + q, burst)
    BY <2>1 DEF Refilled, Smaller
  <2> HIDE DEF p, q
  <2>4. Refilled' <= credit' /\ credit' \in Int
    BY <1>0, <2>1, <2>2, <2>3 DEF Smaller
  <2>5. TypeOK'
    BY <1>0, <2>1, <2>4 DEF TypeOK
  <2> QED BY <2>4, <2>5 DEF BucketInv
<1>9. CASE StartWindow
  <2>1. UNCHANGED <<rate, burst, tokens, elapsed, pc, left>> /\ credit' = burst
    BY <1>9 DEF StartWindow
  <2>2. Refilled' = Refilled /\ TypeOK'
    BY <1>0, <2>1 DEF Refilled, Smaller, TypeOK
  <2> QED BY <1>0, <2>1, <2>2 DEF BucketInv
<1>10. CASE UNCHANGED vars
  BY <1>10 DEF vars, BucketInv, TypeOK, Refilled, Smaller
<1> QED BY <1>2, <1>3, <1>4, <1>5, <1>6, <1>7, <1>8, <1>9, <1>10 DEF Next

(* The inductive invariant holds in every reachable state. *)
THEOREM BucketInvariant == Spec => []BucketInv
BY BucketInit, BucketStep, PTL DEF Spec

(* tokens_ stays between nothing and burst_. *)
THEOREM BucketTyping == Spec => []TypeOK
BY BucketInvariant, PTL DEF BucketInv

(* The callers together never exceed the burst plus what the rates accrue, *)
(* over any window and whatever set_rate() and set_burst() do.             *)
THEOREM BucketRate == Spec => []RateBound
<1>1. BucketInv => RateBound
  BY RefilledType DEF BucketInv, RateBound, TypeOK
<1> QED BY <1>1, BucketInvariant, PTL
=============================================================================
