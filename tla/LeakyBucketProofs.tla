------------------------- MODULE LeakyBucketProofs -------------------------
(***************************************************************************)
(* For every capacity, rate and resolution of the clock: the bucket keeps  *)
(* both promises of TokenBucket, and shipBatch is never refused a token    *)
(* when it wakes up late.                                                  *)
(*                                                                         *)
(* All of it rests on what the cut to whole tokens can lose (CutOff), from *)
(* which follows what one refill does to the two accounts (RefillEffect).  *)
(***************************************************************************)
EXTENDS LeakyBucket, TLAPS

USE BucketAssumption

\* The integer part of a quotient, with the one that floating point may yield.
LEMMA CutOff ==
  ASSUME NEW x \in Nat, NEW y \in Nat \ {0}, NEW n \in Truncated(x, y)
  PROVE  n \in Nat /\ n * y <= x /\ x <= n * y + y
<1>1. /\ x \div y \in Nat
      /\ y * (x \div y) <= x /\ x < y * (x \div y) + y
      /\ x % y = x - y * (x \div y)
  OBVIOUS
<1>2. n \in {x \div y, x \div y - 1}
  BY DEF Truncated
<1>3. CASE n = x \div y
  BY <1>1, <1>3
<1>4. CASE n = x \div y - 1 /\ n # x \div y
  <2>1. x % y = 0 /\ n >= 0
    BY <1>4 DEF Truncated
  <2>2. x = y * (x \div y) /\ n \in Nat
    BY <1>1, <1>4, <2>1
  <2>3. n * y = y * (x \div y) - y
    BY <1>1, <1>4
  <2> QED
    BY <2>2, <2>3
<1> QED
  BY <1>2, <1>3, <1>4

LEMMA FullAfterType ==
  /\ FullAfter \in Nat /\ FullAfter >= 2 * TicksPerSecond
  /\ FullAfter >= Capacity * (2 * TicksPerSecond)
  /\ FullAfter >= (Capacity + 1) * TicksPerSecond
<1>1. Capacity * TicksPerSecond \in Nat /\ Capacity * TicksPerSecond >= TicksPerSecond
  OBVIOUS
<1>2. FullAfter = Capacity * TicksPerSecond + Capacity * TicksPerSecond
  BY DEF FullAfter
<1>3. /\ Capacity * (2 * TicksPerSecond) = Capacity * TicksPerSecond + Capacity * TicksPerSecond
      /\ (Capacity + 1) * TicksPerSecond = Capacity * TicksPerSecond + TicksPerSecond
  OBVIOUS
<1> QED
  BY <1>1, <1>2, <1>3

\* The two accounts before any limit: tokens, and the time that counts towards
\* the next ones.
Most(t, e)  == t * TicksPerSecond + e * Rate
Owed(t, e) == t * (2 * TicksPerSecond) + e * Rate
MostMax == (Capacity + 1) * TicksPerSecond
OwedMax == Capacity * (2 * TicksPerSecond)

LEMMA AccountTypes ==
  ASSUME NEW t \in Nat, NEW e \in Nat
  PROVE  Most(t, e) \in Nat /\ Owed(t, e) \in Nat /\ MostMax \in Nat /\ OwedMax \in Nat
BY DEF Most, Owed, MostMax, OwedMax

\* A refill leaves the bucket within its capacity; it never adds to what may be
\* taken, nor takes from what is owed; and it starts counting anew only if
\* there is a token then.
LEMMA RefillEffect ==
  ASSUME TypeOK, NEW t, NEW e, Refill(t, e)
  PROVE  /\ t \in 0 .. Capacity /\ e \in 0 .. FullAfter
         /\ Most(t, e) <= Most(tokens, elapsed)
         /\ Owed(t, e) >= Owed(tokens, elapsed) \/ Owed(t, e) >= OwedMax
         /\ \/ t >= 1 /\ e = 0
            \/ t = tokens /\ e = elapsed /\ elapsed * Rate <= TicksPerSecond
<1>1. tokens \in Nat /\ tokens <= Capacity /\ elapsed \in Nat /\ elapsed * Rate \in Nat
  BY FullAfterType DEF TypeOK
<1>2. PICK added \in Truncated(elapsed * Rate, TicksPerSecond) :
        \/ added > 0 /\ t = Least(Capacity, tokens + added) /\ e = 0
        \/ added = 0 /\ t = tokens /\ e = elapsed
  BY DEF Refill
<1>3. /\ added \in Nat
      /\ added * TicksPerSecond <= elapsed * Rate
      /\ elapsed * Rate <= added * TicksPerSecond + TicksPerSecond
  BY <1>1, CutOff
<1>4. CASE added = 0
  <2>1. elapsed * Rate <= TicksPerSecond
    BY <1>3, <1>4
  <2>2. t = tokens /\ e = elapsed
    BY <1>2, <1>4
  <2>3. t \in 0 .. Capacity /\ e \in 0 .. FullAfter
    BY <2>2 DEF TypeOK
  <2>4. Most(t, e) = Most(tokens, elapsed) /\ Owed(t, e) = Owed(tokens, elapsed)
    BY <2>2
  <2>5. Most(tokens, elapsed) \in Nat /\ Owed(tokens, elapsed) \in Nat
    BY <1>1, AccountTypes
  <2> QED
    BY <2>1, <2>2, <2>3, <2>4, <2>5
<1>5. CASE added > 0
  <2>1. t = Least(Capacity, tokens + added) /\ e = 0
    BY <1>2, <1>5
  <2>2. t \in Nat /\ t >= 1 /\ t <= Capacity /\ t <= tokens + added
        /\ (t = Capacity \/ t = tokens + added)
    BY <1>1, <1>3, <1>5, <2>1 DEF Least
  <2>3. e * Rate = 0 /\ e \in 0 .. FullAfter
    BY <2>1, FullAfterType
  <2>4. t * TicksPerSecond <= (tokens + added) * TicksPerSecond
    BY <1>1, <1>3, <2>2
  <2>5. (tokens + added) * TicksPerSecond = tokens * TicksPerSecond + added * TicksPerSecond
    BY <1>1, <1>3
  <2>6. Most(t, e) <= Most(tokens, elapsed)
    BY <1>1, <1>3, <2>2, <2>3, <2>4, <2>5 DEF Most
  <2>7. added * TicksPerSecond >= TicksPerSecond
    BY <1>3, <1>5
  <2>8. elapsed * Rate <= added * (2 * TicksPerSecond)
    <3>1. added * (2 * TicksPerSecond) = added * TicksPerSecond + added * TicksPerSecond
      BY <1>3
    <3> QED
      BY <1>1, <1>3, <2>7, <3>1
  <2>9. CASE t = Capacity
    <3>1. Owed(t, e) = OwedMax
      BY <2>2, <2>3, <2>9 DEF Owed, OwedMax
    <3> QED
      BY <2>1, <2>2, <2>3, <2>6, <3>1, AccountTypes
  <2>10. CASE t = tokens + added
    <3>1. t * (2 * TicksPerSecond)
            = tokens * (2 * TicksPerSecond) + added * (2 * TicksPerSecond)
      BY <1>1, <1>3, <2>10
    <3>2. Owed(t, e) >= Owed(tokens, elapsed)
      BY <1>1, <1>3, <2>3, <2>8, <3>1 DEF Owed
    <3> QED
      BY <2>1, <2>2, <2>3, <2>6, <3>2
  <2> QED
    BY <2>2, <2>9, <2>10
<1> QED
  BY <1>3, <1>4, <1>5

LEMMA WaitEffect ==
  ASSUME NEW t \in 0 .. Capacity, NEW w \in Wait(t)
  PROVE  /\ w \in 0 .. TicksPerSecond
         /\ t = 0 => (w + 1) * Rate >= TicksPerSecond
<1>1. CASE t >= 1
  BY <1>1 DEF Wait
<1>2. CASE t = 0
  <2>1. w \in Truncated(TicksPerSecond, Rate)
    BY <1>2 DEF Wait
  <2>2. w \in Nat /\ w * Rate <= TicksPerSecond /\ TicksPerSecond <= w * Rate + Rate
    BY <2>1, CutOff
  <2>3. w <= w * Rate
    BY <2>2
  <2>4. (w + 1) * Rate = w * Rate + Rate
    BY <2>2
  <2> QED
    BY <2>2, <2>3, <2>4
<1> QED
  BY <1>1, <1>2

-----------------------------------------------------------------------------
(* Types, and the promise to a shipBatch that is late.                     *)

\* While shipBatch sleeps without a token, the time that counts towards the
\* next one and what is left of the sleep make up for it, to within a tick.
PromiseInv ==
  pc = "sleeping" /\ tokens = 0 => (elapsed + sleep + 1) * Rate >= TicksPerSecond

\* Time that passes counts as much for the next token as it takes from the sleep.
LEMMA PromiseKept ==
  ASSUME NEW e \in Nat, NEW s \in Int, (e + s + 1) * Rate >= TicksPerSecond,
         NEW e2 \in Nat, e2 = FullAfter \/ e2 = e + 1,
         NEW s2 \in Int, s2 >= -2, s2 >= s - 1
  PROVE  (e2 + s2 + 1) * Rate >= TicksPerSecond
<1>1. CASE e2 = FullAfter
  <2>1. e2 + s2 + 1 \in Nat /\ e2 + s2 + 1 >= TicksPerSecond
    BY <1>1, FullAfterType
  <2>2. (e2 + s2 + 1) * Rate >= e2 + s2 + 1
    BY <2>1
  <2> QED
    BY <2>1, <2>2
<1>2. CASE e2 = e + 1
  <2>1. e2 + s2 + 1 = (e + s + 1) + (s2 - s + 1) /\ s2 - s + 1 \in Nat
    BY <1>2
  <2>2. (e2 + s2 + 1) * Rate = (e + s + 1) * Rate + (s2 - s + 1) * Rate
    BY <2>1
  <2>3. (s2 - s + 1) * Rate \in Nat
    BY <2>1
  <2> QED
    BY <2>2, <2>3
<1> QED
  BY <1>1, <1>2

\* A sleeping shipBatch has no answer yet.
AnswerInv == pc = "sleeping" => reply = "none"

IInv == TypeOK /\ PromiseInv /\ AnswerInv /\ LateIsGranted

LEMMA IInvInit == Init => IInv
<1> SUFFICES ASSUME Init
             PROVE  IInv
  OBVIOUS
<1>1. TypeOK
  BY FullAfterType DEF Init, TypeOK, Late
<1> QED
  BY <1>1 DEF Init, IInv, PromiseInv, AnswerInv, LateIsGranted

LEMMA TickStep == IInv /\ Tick => IInv'
<1> SUFFICES ASSUME IInv, Tick
             PROVE  IInv'
  OBVIOUS
<1>1. TypeOK /\ PromiseInv /\ AnswerInv /\ LateIsGranted
  BY DEF IInv
<1>2. /\ elapsed \in Nat /\ elapsed <= FullAfter
      /\ sleep \in Int /\ sleep >= -2 /\ sleep <= TicksPerSecond
  BY <1>1, FullAfterType DEF TypeOK, Late
<1>3. /\ elapsed' = Least(FullAfter, elapsed + 1)
      /\ sleep' = IF pc = "sleeping" /\ sleep > -2 THEN sleep - 1 ELSE sleep
      /\ UNCHANGED <<tokens, pc, reply>>
  BY DEF Tick, Late
<1>4. elapsed' \in Nat /\ elapsed' <= FullAfter
      /\ (elapsed' = FullAfter \/ elapsed' = elapsed + 1)
  BY <1>2, <1>3, FullAfterType DEF Least
<1>5. sleep' \in Int /\ sleep' >= -2 /\ sleep' <= TicksPerSecond
      /\ sleep' >= sleep - 1
  BY <1>2, <1>3
<1>6. TypeOK'
  BY <1>1, <1>3, <1>4, <1>5, FullAfterType DEF TypeOK, Late
<1>7. PromiseInv'
  <2> SUFFICES ASSUME pc = "sleeping", tokens = 0
               PROVE  (elapsed' + sleep' + 1) * Rate >= TicksPerSecond
    BY <1>3 DEF PromiseInv
  <2>1. (elapsed + sleep + 1) * Rate >= TicksPerSecond
    BY <1>1 DEF PromiseInv
  <2> QED
    BY <1>2, <1>4, <1>5, <2>1, PromiseKept, Zenon
<1>8. AnswerInv' /\ LateIsGranted'
  BY <1>1, <1>3 DEF AnswerInv, LateIsGranted
<1> QED
  BY <1>6, <1>7, <1>8 DEF IInv
LEMMA ReadStep == IInv /\ AvailableTokens => IInv'
<1> SUFFICES ASSUME IInv, AvailableTokens
             PROVE  IInv'
  OBVIOUS
<1>1. TypeOK /\ PromiseInv /\ AnswerInv /\ LateIsGranted
  BY DEF IInv
<1>2. Refill(tokens', elapsed') /\ UNCHANGED <<pc, sleep, reply>>
  BY DEF AvailableTokens
<1>3. /\ tokens' \in 0 .. Capacity /\ elapsed' \in 0 .. FullAfter
      /\ \/ tokens' >= 1
         \/ tokens' = tokens /\ elapsed' = elapsed
  BY <1>1, <1>2, RefillEffect
<1>4. TypeOK'
  BY <1>1, <1>2, <1>3 DEF TypeOK
<1>5. PromiseInv'
  BY <1>1, <1>2, <1>3 DEF PromiseInv
<1> QED
  BY <1>1, <1>2, <1>4, <1>5 DEF IInv, AnswerInv, LateIsGranted

LEMMA WaitStep == IInv /\ WaitTime => IInv'
<1> SUFFICES ASSUME IInv, WaitTime
             PROVE  IInv'
  OBVIOUS
<1>1. TypeOK
  BY DEF IInv
<1>2. Refill(tokens', elapsed') /\ sleep' \in Wait(tokens') /\ pc' = "sleeping" /\ reply' = "none"
  BY DEF WaitTime
<1>3. tokens' \in 0 .. Capacity /\ elapsed' \in 0 .. FullAfter
  BY <1>1, <1>2, RefillEffect
<1>4. /\ sleep' \in 0 .. TicksPerSecond
      /\ tokens' = 0 => (sleep' + 1) * Rate >= TicksPerSecond
  BY <1>2, <1>3, WaitEffect
<1>5. TypeOK'
  BY <1>2, <1>3, <1>4 DEF TypeOK, Late
<1>6. tokens' = 0 => (elapsed' + sleep' + 1) * Rate >= TicksPerSecond
  <2>1. ASSUME NEW e \in 0 .. FullAfter, NEW s \in 0 .. TicksPerSecond,
               (s + 1) * Rate >= TicksPerSecond
        PROVE  (e + s + 1) * Rate >= TicksPerSecond
    <3>1. (e + s + 1) * Rate = e * Rate + (s + 1) * Rate /\ e * Rate \in Nat
      BY FullAfterType
    <3> QED
      BY <2>1, <3>1
  <2> QED
    BY <1>3, <1>4, <2>1
<1>7. PromiseInv' /\ AnswerInv' /\ LateIsGranted'
  BY <1>2, <1>6 DEF PromiseInv, AnswerInv, LateIsGranted
<1> QED
  BY <1>5, <1>7 DEF IInv

\* Who has slept two ticks too long finds a token: the promise leaves no room
\* for a refill of none.
LEMMA NotRefused ==
  ASSUME IInv, pc = "sleeping", sleep <= Late, NEW t, NEW e, Refill(t, e)
  PROVE  t >= 1
<1>1. TypeOK /\ PromiseInv
  BY DEF IInv
<1>2. tokens \in Nat /\ elapsed \in Nat /\ sleep \in Int /\ sleep = -2
  BY <1>1, FullAfterType DEF TypeOK, Late
<1>3. CASE t >= 1
  BY <1>3
<1>4. CASE t = tokens /\ elapsed * Rate <= TicksPerSecond
  <2>1. CASE tokens = 0
    <3>1. (elapsed - 1) * Rate >= TicksPerSecond
      <4>1. (elapsed + sleep + 1) * Rate >= TicksPerSecond
        BY <1>1, <2>1 DEF PromiseInv
      <4> QED
        BY <1>2, <4>1
    <3>2. elapsed * Rate = (elapsed - 1) * Rate + Rate
      BY <1>2
    <3> QED
      BY <1>2, <1>4, <3>1, <3>2
  <2> QED
    BY <1>2, <1>4, <2>1
<1> QED
  BY <1>1, <1>3, <1>4, RefillEffect

LEMMA AllowStep == IInv /\ Allow => IInv'
<1> SUFFICES ASSUME IInv, Allow
             PROVE  IInv'
  OBVIOUS
<1>1. TypeOK
  BY DEF IInv
<1>2. pc = "sleeping" /\ pc' = "idle" /\ sleep' = sleep
  BY DEF Allow
<1>3. PICK t \in 0 .. Capacity, e \in {0, elapsed} :
        /\ Refill(t, e) /\ elapsed' = e
        /\ \/ t >= 1 /\ tokens' = t - 1 /\ reply' = "granted"
           \/ t < 1 /\ tokens' = t /\ reply' = "refused"
  BY DEF Allow
<1>4. e \in 0 .. FullAfter
  BY <1>1, <1>3, RefillEffect
<1>5. TypeOK'
  BY <1>1, <1>2, <1>3, <1>4 DEF TypeOK
<1>6. LateIsGranted'
  <2>1. CASE sleep <= Late
    <3>1. t >= 1
      BY <1>2, <1>3, <2>1, NotRefused
    <3> QED
      BY <1>3, <3>1 DEF LateIsGranted
  <2>2. CASE sleep > Late
    BY <1>2, <2>2 DEF LateIsGranted
  <2> QED
    BY <1>1, <2>1, <2>2 DEF TypeOK, Late
<1>7. PromiseInv' /\ AnswerInv'
  BY <1>2 DEF PromiseInv, AnswerInv
<1> QED
  BY <1>5, <1>6, <1>7 DEF IInv

LEMMA IInvStep == IInv /\ [Next]_vars => IInv'
<1> SUFFICES ASSUME IInv, [Next]_vars
             PROVE  IInv'
  OBVIOUS
<1>1. CASE UNCHANGED vars
  BY <1>1 DEF vars, IInv, TypeOK, PromiseInv, AnswerInv, LateIsGranted
<1> QED
  BY <1>1, TickStep, ReadStep, WaitStep, AllowStep DEF Next

LEMMA Inductive == Spec => []IInv
BY IInvInit, IInvStep, PTL DEF Spec

\* For every size and rate the bucket holds between none and Capacity tokens,
\* and a wait is never longer than a second.
THEOREM TypeCorrect == Spec => []TypeOK
<1>1. IInv => TypeOK
  BY DEF IInv
<1> QED
  BY <1>1, Inductive, PTL

\* For every size and rate, whoever else reads the bucket: a shipBatch that has
\* slept two ticks longer than WaitTime told it to is granted its token.
THEOREM LateGranted == Spec => []LateIsGranted
<1>1. IInv => LateIsGranted
  BY DEF IInv
<1> QED
  BY <1>1, Inductive, PTL

-----------------------------------------------------------------------------
(* The two promises.                                                       *)

\* The accounts of TokenBucket, as the INSTANCE maps them.
most  == Least(MostMax, Most(tokens, elapsed))
least == Least(OwedMax, Owed(tokens, elapsed))

LEMMA MappedTypes ==
  ASSUME TypeOK
  PROVE  /\ tokens \in Nat /\ elapsed \in Nat
         /\ Most(tokens, elapsed) \in Nat /\ Owed(tokens, elapsed) \in Nat
         /\ MostMax \in Nat /\ OwedMax \in Nat
         /\ most \in Nat /\ least \in Nat
<1>1. tokens \in Nat /\ elapsed \in Nat
  BY FullAfterType DEF TypeOK
<1> QED
  BY <1>1, AccountTypes DEF most, least, Least

\* What a refill leaves, against the accounts before it.
LEMMA Settled ==
  ASSUME TypeOK, NEW t, NEW e, Refill(t, e)
  PROVE  Least(MostMax, Most(t, e)) <= most /\ Least(OwedMax, Owed(t, e)) >= least
<1>1. /\ t \in Nat /\ e \in Nat
      /\ Most(t, e) <= Most(tokens, elapsed)
      /\ Owed(t, e) >= Owed(tokens, elapsed) \/ Owed(t, e) >= OwedMax
  BY RefillEffect, FullAfterType
<1>2. Most(t, e) \in Nat /\ Owed(t, e) \in Nat
  BY <1>1, AccountTypes
<1> QED
  BY <1>1, <1>2, MappedTypes DEF most, least, Least

\* The token a granted call takes is on both accounts.
LEMMA Taken ==
  ASSUME TypeOK, NEW t, NEW e, Refill(t, e), t >= 1
  PROVE  /\ most >= TicksPerSecond
         /\ Least(MostMax, Most(t - 1, e)) <= most - TicksPerSecond
         /\ Least(OwedMax, Owed(t - 1, e)) >= least - 2 * TicksPerSecond
<1>1. /\ t \in Nat /\ t <= Capacity /\ e \in Nat
      /\ Most(t, e) <= Most(tokens, elapsed)
      /\ Owed(t, e) >= Owed(tokens, elapsed) \/ Owed(t, e) >= OwedMax
      /\ e = 0 \/ e * Rate <= TicksPerSecond
  BY RefillEffect, FullAfterType
<1>2. /\ Most(t, e) \in Nat /\ Owed(t, e) \in Nat
      /\ t * TicksPerSecond <= Capacity * TicksPerSecond
      /\ t * TicksPerSecond >= TicksPerSecond
  <2>1. Most(t, e) \in Nat /\ Owed(t, e) \in Nat
    BY <1>1, AccountTypes
  <2>2. ASSUME NEW a \in Nat, NEW b \in Nat, a <= b
        PROVE  a * TicksPerSecond <= b * TicksPerSecond
    <3>1. b * TicksPerSecond = a * TicksPerSecond + (b - a) * TicksPerSecond
      OBVIOUS
    <3>2. (b - a) * TicksPerSecond \in Nat
      BY <2>2
    <3> QED
      BY <3>1, <3>2
  <2>3. 1 * TicksPerSecond = TicksPerSecond
    OBVIOUS
  <2> QED
    BY <1>1, <2>1, <2>2, <2>3
<1>3. /\ Most(t - 1, e) = Most(t, e) - TicksPerSecond
      /\ Owed(t - 1, e) = Owed(t, e) - 2 * TicksPerSecond
  BY <1>1 DEF Most, Owed
<1>4. e * Rate \in Nat /\ e * Rate <= TicksPerSecond
  BY <1>1
<1>5. MostMax = Capacity * TicksPerSecond + TicksPerSecond
  BY DEF MostMax
<1>6. Most(t, e) <= MostMax /\ Most(t, e) >= TicksPerSecond /\ MostMax >= TicksPerSecond
  BY <1>1, <1>2, <1>4, <1>5 DEF Most
<1> QED
  BY <1>1, <1>2, <1>3, <1>6, MappedTypes DEF most, least, Least

\* A tick adds Rate to both accounts, also when the timer has stopped counting.
LEMMA Accrued ==
  ASSUME TypeOK, NEW e, e = Least(FullAfter, elapsed + 1)
  PROVE  /\ Least(MostMax, Most(tokens, e)) = Least(MostMax, most + Rate)
         /\ Least(OwedMax, Owed(tokens, e)) = Least(OwedMax, least + Rate)
<1>1. elapsed \in Nat /\ elapsed <= FullAfter /\ FullAfter \in Nat
  BY FullAfterType DEF TypeOK
<1>2. CASE e = elapsed + 1
  <2>1. /\ Most(tokens, e) = Most(tokens, elapsed) + Rate
        /\ Owed(tokens, e) = Owed(tokens, elapsed) + Rate
    BY <1>1, <1>2, MappedTypes DEF Most, Owed
  <2> QED
    BY <2>1, MappedTypes DEF most, least, Least
<1>3. CASE e = FullAfter /\ elapsed = FullAfter
  <2>1. elapsed * Rate >= FullAfter /\ elapsed * Rate \in Nat
    BY <1>1, <1>3
  <2>2. tokens * TicksPerSecond \in Nat /\ tokens * (2 * TicksPerSecond) \in Nat
    BY MappedTypes
  <2>3. Most(tokens, elapsed) >= MostMax /\ Owed(tokens, elapsed) >= OwedMax
    BY <1>1, <2>1, <2>2, FullAfterType DEF Most, Owed, MostMax, OwedMax
  <2> QED
    BY <1>3, <2>3, MappedTypes DEF most, least, Least
<1> QED
  BY <1>1, <1>2, <1>3 DEF Least

LEMMA RefinementInit == Init => Bucket!Init
<1> SUFFICES ASSUME Init
             PROVE  Bucket!Init
  OBVIOUS
<1>1. tokens = Capacity /\ elapsed = 0 /\ reply = "none"
  BY DEF Init
<1>2. /\ Capacity * TicksPerSecond \in Nat
      /\ (Capacity + 1) * TicksPerSecond = Capacity * TicksPerSecond + TicksPerSecond
      /\ Capacity * (2 * TicksPerSecond) \in Nat
      /\ elapsed * Rate = 0
  BY <1>1
<1> QED
  BY <1>1, <1>2 DEF Bucket!Init, Bucket!Token, Least

LEMMA RefinementStep == IInv /\ [Next]_vars => [Bucket!Next]_(Bucket!vars)
<1> SUFFICES ASSUME IInv, [Next]_vars
             PROVE  [Bucket!Next]_(Bucket!vars)
  OBVIOUS
<1> USE DEF Most, Owed, MostMax, OwedMax, most, least, Bucket!Token
<1>0. TypeOK /\ AnswerInv
  BY DEF IInv
<1>1. CASE Tick
  <2>1. elapsed' = Least(FullAfter, elapsed + 1) /\ UNCHANGED <<tokens, reply>>
    BY <1>1 DEF Tick
  <2>2. /\ most' = Least(MostMax, most + Rate)
        /\ least' = Least(OwedMax, least + Rate)
    BY <1>0, <2>1, Accrued
  <2> QED
    BY <2>1, <2>2 DEF Bucket!Next, Bucket!Tick, Bucket!Least, Least
<1>2. CASE AvailableTokens
  <2>1. Refill(tokens', elapsed') /\ UNCHANGED reply
    BY <1>2 DEF AvailableTokens
  <2>2. most' <= most /\ least' >= least
    BY <1>0, <2>1, Settled
  <2> QED
    BY <2>1, <2>2 DEF Bucket!Next, Bucket!Settle
<1>3. CASE WaitTime
  <2>1. Refill(tokens', elapsed') /\ reply' = "none"
    BY <1>3 DEF WaitTime
  <2>2. most' <= most /\ least' >= least
    BY <1>0, <2>1, Settled
  <2> QED
    BY <2>1, <2>2 DEF Bucket!Next, Bucket!Ask
<1>4. CASE Allow
  <2>1. reply = "none"
    BY <1>0, <1>4 DEF Allow, AnswerInv
  <2>2. PICK t \in 0 .. Capacity, e \in {0, elapsed} :
          /\ Refill(t, e) /\ elapsed' = e
          /\ \/ t >= 1 /\ tokens' = t - 1 /\ reply' = "granted"
             \/ t < 1 /\ tokens' = t /\ reply' = "refused"
    BY <1>4 DEF Allow
  <2>3. CASE t >= 1
    <3>1. tokens' = t - 1 /\ reply' = "granted"
      BY <2>2, <2>3
    <3>2. /\ most >= TicksPerSecond
          /\ most' <= most - TicksPerSecond
          /\ least' >= least - 2 * TicksPerSecond
      BY <1>0, <2>2, <2>3, <3>1, Taken
    <3> QED
      BY <2>1, <3>1, <3>2 DEF Bucket!Next, Bucket!Take
  <2>4. CASE t < 1
    <3>1. tokens' = t /\ t = 0 /\ reply' = "refused"
      BY <2>2, <2>4
    <3>2. most' <= most /\ least' >= least
      BY <1>0, <2>2, <3>1, Settled
    <3>3. tokens = 0 /\ elapsed * Rate <= TicksPerSecond
      BY <1>0, <2>2, <3>1, RefillEffect
    <3>4. least < 2 * TicksPerSecond
      <4>1. elapsed * Rate \in Nat /\ tokens * (2 * TicksPerSecond) = 0
        BY <1>0, <3>3, MappedTypes
      <4>2. Owed(tokens, elapsed) < 2 * TicksPerSecond
        BY <3>3, <4>1
      <4> QED
        BY <1>0, <4>2, MappedTypes DEF Least
    <3> QED
      BY <2>1, <3>1, <3>2, <3>4 DEF Bucket!Next, Bucket!Refuse
  <2> QED
    BY <2>2, <2>3, <2>4
<1>5. CASE UNCHANGED vars
  BY <1>5 DEF vars, Bucket!vars
<1> QED
  BY <1>1, <1>2, <1>3, <1>4, <1>5 DEF Next

\* For every size and rate the bucket implements TokenBucket: in no stretch of
\* time does it grant more than Capacity tokens, the one under way and the
\* configured rate, and it refuses only when that leaves less than half the rate.
THEOREM Refinement == Spec => RefinesBucket
<1>1. IInv /\ [Next]_vars => [Bucket!Next]_(Bucket!vars)
  BY RefinementStep
<1> QED
  BY RefinementInit, <1>1, Inductive, PTL DEF Spec, Bucket!Spec, RefinesBucket
=============================================================================
