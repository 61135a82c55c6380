---------------------------- MODULE LeakyBucket ----------------------------
(***************************************************************************)
(* logs/leaky_bucket.go, and the way shipBatch of logs/shipper.go uses it: *)
(* ask for the time until there is a token, sleep, and take one.  Every    *)
(* method holds the lock throughout, so every call is one action; anybody  *)
(* may call AvailableTokens in between.                                    *)
(*                                                                         *)
(* Time is counted in ticks, TicksPerSecond to the second (10^9 in the     *)
(* code).  Timers move instead of a clock: elapsed is now - lastRefill,    *)
(* sleep what is left of shipBatch's time.Sleep.  Both stop counting where *)
(* more makes no difference.                                               *)
(***************************************************************************)
EXTENDS Integers

CONSTANTS
  Capacity,        \* LeakyBucket.capacity
  Rate,            \* LeakyBucket.refillRate: tokens per second
  TicksPerSecond

\* NewLogShipper replaces what is not positive by its defaults.
ASSUME BucketAssumption ==
  /\ Capacity \in Nat \ {0} /\ Rate \in Nat \ {0} /\ TicksPerSecond \in Nat \ {0}

VARIABLES
  tokens,    \* LeakyBucket.tokens
  elapsed,   \* ticks since LeakyBucket.lastRefill
  pc,        \* shipBatch: "idle" outside its two calls, "sleeping" between them
  sleep,     \* ticks it has still to sleep, negative when it sleeps longer
  reply      \* what Allow returned last, "none" while another call is on its way

vars == <<tokens, elapsed, pc, sleep, reply>>

Least(x, y) == IF x < y THEN x ELSE y

\* After so many ticks without a refill the bucket is full, at any rate.
FullAfter == 2 * Capacity * TicksPerSecond

\* shipBatch is late by this much or more: two ticks, of a nanosecond each.
Late == -2

Init ==
  /\ tokens = Capacity /\ elapsed = 0
  /\ pc = "idle" /\ sleep = 0
  /\ reply = "none"

-----------------------------------------------------------------------------
(* Numbers.  The code divides and multiplies float64 and then cuts off the *)
(* fraction.  Where the exact result is a whole number, the computed one   *)
(* may be just below it and be cut to one less: 290 ms at 100 tokens per   *)
(* second make 28 tokens, and a wait for 201 of them ends 1 ns early.      *)

Truncated(x, y) ==
  {n \in {x \div y, x \div y - 1} : n = x \div y \/ (x % y = 0 /\ n >= 0)}

\* Mutation: lastRefill is set to now although no token was added.
RefillImpatient(t, e) ==
  \E added \in Truncated(elapsed * Rate, TicksPerSecond) :
    t = Least(Capacity, tokens + added) /\ e = 0

\* Mutation: lastRefill is not moved.
RefillTwice(t, e) ==
  \E added \in Truncated(elapsed * Rate, TicksPerSecond) :
    t = Least(Capacity, tokens + added) /\ e = elapsed

\* Mutation: no limit.
RefillUnlimited(t, e) ==
  \E added \in Truncated(elapsed * Rate, TicksPerSecond) :
    \/ added > 0 /\ t = tokens + added /\ e = 0
    \/ added = 0 /\ t = tokens /\ e = elapsed

\* refill leaves t tokens, and e ticks since the last refill.  Only a refill
\* that adds a token starts counting anew.
Refill(t, e) ==
  \E added \in Truncated(elapsed * Rate, TicksPerSecond) :
    \/ added > 0 /\ t = Least(Capacity, tokens + added) /\ e = 0
    \/ added = 0 /\ t = tokens /\ e = elapsed

-----------------------------------------------------------------------------
AvailableTokens ==
  /\ Refill(tokens', elapsed')
  /\ UNCHANGED <<pc, sleep, reply>>

\* The time until there is a token, which shipBatch then sleeps: none at all if
\* there is one.
Wait(t) == IF t >= 1 THEN {0} ELSE Truncated((1 - t) * TicksPerSecond, Rate)

WaitTime ==
  /\ pc = "idle"
  /\ Refill(tokens', elapsed')
  /\ sleep' \in Wait(tokens')
  /\ pc' = "sleeping" /\ reply' = "none"

\* Allow(1), some time after the sleep.
Allow ==
  /\ pc = "sleeping" /\ sleep <= 0
  /\ \E t \in 0 .. Capacity, e \in {0, elapsed} :
       /\ Refill(t, e)
       /\ elapsed' = e
       /\ \/ t >= 1 /\ tokens' = t - 1 /\ reply' = "granted"
          \/ t < 1  /\ tokens' = t     /\ reply' = "refused"
  /\ pc' = "idle"
  /\ UNCHANGED sleep

\* Time passes.
Tick ==
  /\ elapsed' = Least(FullAfter, elapsed + 1)
  /\ sleep' = IF pc = "sleeping" /\ sleep > Late THEN sleep - 1 ELSE sleep
  /\ UNCHANGED <<tokens, pc, reply>>

Next == Tick \/ AvailableTokens \/ WaitTime \/ Allow

Spec == Init /\ [][Next]_vars

\* Time goes on, and batches keep coming.
FairSpec == Spec /\ WF_vars(Tick) /\ WF_vars(WaitTime) /\ WF_vars(Allow)

-----------------------------------------------------------------------------
TypeOK ==
  /\ tokens \in 0 .. Capacity /\ elapsed \in 0 .. FullAfter
  /\ pc \in {"idle", "sleeping"}
  /\ sleep \in Late .. TicksPerSecond
  /\ reply \in {"none", "granted", "refused"}

Bucket == INSTANCE TokenBucket WITH
  most  <- Least((Capacity + 1) * TicksPerSecond, tokens * TicksPerSecond + elapsed * Rate),
  least <- Least(Capacity * (2 * TicksPerSecond),
                 tokens * (2 * TicksPerSecond) + elapsed * Rate)

\* In any stretch of time shipBatch is granted at most Capacity tokens, one under
\* way, and the configured rate; and although each refill cuts off a fraction of
\* a token and forgets it, it never gets less than half of that rate.
RefinesBucket == Bucket!Spec

\* shipper.go:205-217 gives a batch back to the buffer when Allow refuses after
\* the wait.  Whoever else reads the bucket meanwhile, this happens only to a
\* shipBatch that wakes up within a tick of the computed time, never to one that
\* is a little late.
LateIsGranted == reply = "refused" => sleep > Late

\* A shipper that keeps asking is granted a token again and again, however
\* punctually it wakes up and however often the bucket is read: a refusal is
\* never permanent.
NeverStarved == []<>(reply = "granted")
=============================================================================
