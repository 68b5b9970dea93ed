---------------------------- MODULE TokenBucket ----------------------------
(***************************************************************************)
(* TokenBucket (core/token_bucket.cpp and its header): the rate limiter    *)
(* shared by the workers of a load test.                                   *)
(*                                                                         *)
(* Tokens are counted in units, One of them to a token, and rate_ in units *)
(* per tick, so that the code's doubles are exact here.  Every operation   *)
(* runs under mtx_ and is one step; the two waits release it.  The time    *)
(* since last_refill_ and the time left of a wait are state; once the      *)
(* bucket is full more time makes no difference, so elapsed stops at       *)
(* MaxBurst.                                                               *)
(***************************************************************************)
EXTENDS Integers

CONSTANTS
  Threads,   \* callers of consume() and try_consume_for()
  One,       \* units in one token
  Rates,     \* values given to set_rate(), in units per tick
  Bursts,    \* values given to set_burst(), in units
  Timeouts,  \* values given to try_consume_for(), in ticks
  MaxBurst,  \* the largest burst
  WaitCap    \* longest single wait of consume(), in ticks (1 s in the code)

ASSUME BucketAssumption ==
  /\ One \in Nat \ {0} /\ MaxBurst \in Nat /\ WaitCap \in Nat
  /\ Rates \subseteq Nat \ {0}
  /\ Bursts \subseteq 1 .. MaxBurst
  /\ Timeouts \subseteq Nat

VARIABLES
  rate, burst, tokens,  \* rate_, burst_, tokens_
  elapsed,              \* now - last_refill_
  pc,                   \* per thread: "idle", "consume" or "for" (waiting)
  left,                 \* per thread: what is left of its wait
  credit                \* what a window of time still allows, see RateBound

vars == <<rate, burst, tokens, elapsed, pc, left, credit>>

Smaller(a, b) == IF a < b THEN a ELSE b

(* The bucket starts full; a window starts with it. *)
Init ==
  /\ rate \in Rates
  /\ burst \in Bursts
  /\ tokens = burst
  /\ elapsed = 0
  /\ pc = [w \in Threads |-> "idle"]
  /\ left = [w \in Threads |-> 0]
  /\ credit = burst

(* refill(): the value tokens_ gets. *)
Refilled == Smaller(tokens + rate * elapsed, burst)

(* One token is taken if there is one. *)
Grant == /\ tokens' = Refilled - One
         /\ credit' = credit - One

(* The wait for the deficit, cut to a whole number of ticks. *)
Wait == (One - Refilled) \div rate

-----------------------------------------------------------------------------
(* try_consume() *)
TryConsume ==
  /\ Refilled >= One
  /\ Grant
  /\ elapsed' = 0
  /\ UNCHANGED <<rate, burst, pc, left>>

TryConsumeFails ==
  /\ Refilled < One
  /\ tokens' = Refilled
  /\ elapsed' = 0
  /\ UNCHANGED <<rate, burst, pc, left, credit>>

(* consume() of thread w: a token, or the first wait. *)
Consume(w) ==
  /\ pc[w] = "idle"
  /\ elapsed' = 0
  /\ IF Refilled >= One
     THEN Grant /\ UNCHANGED <<pc, left>>
     ELSE /\ tokens' = Refilled
          /\ pc' = [pc EXCEPT ![w] = "consume"]
          /\ left' = [left EXCEPT ![w] = Smaller(Wait, WaitCap)]
          /\ UNCHANGED credit
  /\ UNCHANGED <<rate, burst>>

(* try_consume_for(): a token, or the only wait, or false at once because  *)
(* the wait would be longer than the timeout.                              *)
TryConsumeFor(w, timeout) ==
  /\ pc[w] = "idle"
  /\ elapsed' = 0
  /\ IF Refilled >= One
     THEN Grant /\ UNCHANGED <<pc, left>>
     ELSE /\ tokens' = Refilled
          /\ IF One - Refilled > timeout * rate
             THEN UNCHANGED <<pc, left>>
             ELSE /\ pc' = [pc EXCEPT ![w] = "for"]
                  /\ left' = [left EXCEPT ![w] = Wait]
          /\ UNCHANGED credit
  /\ UNCHANGED <<rate, burst>>

(* Mutant: the waiter does not refill when it wakes up. *)
WakeStale(w) ==
  /\ pc[w] # "idle"
  /\ left[w] = 0 \/ tokens >= One
  /\ IF tokens >= One
     THEN /\ tokens' = tokens - One
          /\ credit' = credit - One
          /\ pc' = [pc EXCEPT ![w] = "idle"]
          /\ UNCHANGED left
     ELSE /\ pc' = [pc EXCEPT ![w] = IF @ = "for" THEN "idle" ELSE "consume"]
          /\ left' = [left EXCEPT ![w] = IF pc[w] = "for" THEN 0 ELSE Smaller(Wait, WaitCap)]
          /\ UNCHANGED <<tokens, credit>>
  /\ UNCHANGED <<rate, burst, elapsed>>

(* The wait is over, or was notified and finds a token.  consume() waits   *)
(* again if it is still short; try_consume_for() then returns false.       *)
Wake(w) ==
  /\ pc[w] # "idle"
  /\ left[w] = 0 \/ tokens >= One
  /\ elapsed' = 0
  /\ IF Refilled >= One
     THEN /\ Grant
          /\ pc' = [pc EXCEPT ![w] = "idle"]
          /\ left' = [left EXCEPT ![w] = 0]
     ELSE /\ tokens' = Refilled
          /\ pc' = [pc EXCEPT ![w] = IF @ = "for" THEN "idle" ELSE "consume"]
          /\ left' = [left EXCEPT ![w] = IF pc[w] = "for" THEN 0 ELSE Smaller(Wait, WaitCap)]
          /\ UNCHANGED credit
  /\ UNCHANGED <<rate, burst>>

(* Mutant: the time before the call is paid at the new rate. *)
SetRateBeforeRefill(r) ==
  /\ rate' = r
  /\ UNCHANGED <<burst, tokens, elapsed, pc, left, credit>>

(* set_rate(): what accrued so far is paid at the old rate. *)
SetRate(r) ==
  /\ tokens' = Refilled
  /\ elapsed' = 0
  /\ rate' = r
  /\ UNCHANGED <<burst, pc, left, credit>>

(* set_burst(): what accrued so far is capped by the old burst. *)
SetBurst(b) ==
  /\ tokens' = Smaller(Refilled, b)
  /\ elapsed' = 0
  /\ burst' = b
  /\ UNCHANGED <<rate, pc, left, credit>>

(* Time passes: for the bucket, for the waits and for the window. *)
Tick ==
  /\ elapsed' = Smaller(elapsed + 1, MaxBurst)
  /\ left' = [w \in Threads |-> IF left[w] > 0 THEN left[w] - 1 ELSE 0]
  /\ credit' = Smaller(credit + rate, MaxBurst)
  /\ UNCHANGED <<rate, burst, tokens, pc>>

(* Look at another window: it starts here, with at most a full bucket. *)
StartWindow ==
  /\ credit' = burst
  /\ UNCHANGED <<rate, burst, tokens, elapsed, pc, left>>

Next ==
  \/ TryConsume \/ TryConsumeFails
  \/ \E w \in Threads : Consume(w) \/ Wake(w) \/ \E d \in Timeouts : TryConsumeFor(w, d)
  \/ \E r \in Rates : SetRate(r)
  \/ \E b \in Bursts : SetBurst(b)
  \/ Tick \/ StartWindow

Spec == Init /\ [][Next]_vars

(* Time passes, and a thread whose wait is over runs. *)
Fairness == WF_vars(Tick) /\ \A w \in Threads : WF_vars(Wake(w))

FairSpec == Spec /\ Fairness

-----------------------------------------------------------------------------
(* Properties. *)

(* The bucket never holds more than burst_ nor less than nothing. *)
TypeOK ==
  /\ rate \in Rates /\ burst \in Bursts
  /\ tokens \in 0 .. burst
  /\ elapsed \in 0 .. MaxBurst
  /\ pc \in [Threads -> {"idle", "consume", "for"}]
  /\ left \in [Threads -> Nat]
  /\ credit \in Int

(* The aggregate rate is kept: over any stretch of time the tokens granted *)
(* to all callers together are at most the burst at its start plus what    *)
(* the rates in force accrued, also when rate_ and burst_ change meanwhile *)
(* and whatever time passed unseen by refill().  credit is that allowance  *)
(* minus the grants, and it is cut to MaxBurst, so the bound is tight      *)
(* after idle time too.                                                    *)
RateBound == credit >= 0

(* consume() starves only if others are served: a call that never returns *)
(* does so because tokens are granted to other callers again and again,    *)
(* however the rate and the burst change.  This needs every burst to be    *)
(* worth a token, which the code does not demand.                          *)
ConsumeServed ==
  \A w \in Threads : <>[](pc[w] = "consume") => []<><<Grant /\ elapsed' = 0>>_vars

-----------------------------------------------------------------------------
(* The inductive invariant behind RateBound: what could be taken now is    *)
(* never more than what the window still allows.                           *)
BucketInv == TypeOK /\ Refilled <= credit
=============================================================================
