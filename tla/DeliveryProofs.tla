--------------------------- MODULE DeliveryProofs ---------------------------
(***************************************************************************)
(* For every number of events, every capacity and every collector: the log *)
(* shipper loses and doubles nothing (NoEventLost), Stop leaves no more    *)
(* behind than channel and buffer hold, and the whole implements           *)
(* EventDelivery.                                                          *)
(*                                                                         *)
(* The inductive invariant adds two parts to that of LogShipperProofs:     *)
(*   PhaseInv   which queue can hold events at which point of the worker   *)
(*              and of Stop, since a step that replaces a queue that is    *)
(*              not empty loses what it held;                              *)
(*   DivideInv  the eight places divide the submitted events among them,   *)
(*              and no queue holds one twice.                              *)
(* Every step either moves some events from one place to another           *)
(* (MoveDivides), puts a new one into one (PutDivides), or moves nothing.  *)
(***************************************************************************)
EXTENDS LogShipperProofs, FiniteSetTheorems

USE ShipperAssumption
USE DEF chanVars, shipVars, breakerVars, mainVars, metricVars

-----------------------------------------------------------------------------
(* Sequences without repetitions, and what they hold.                      *)

\* No event occurs twice in s.
Distinct(s) == \A i, j \in 1 .. Len(s) : s[i] = s[j] => i = j

LEMMA RangeEmpty == Range(<< >>) = {} /\ Distinct(<< >>)
BY DEF Range, Distinct

LEMMA RangeIs ==
  ASSUME NEW s \in Seq(Events)
  PROVE  Range(s) = {s[i] : i \in 1 .. Len(s)}
BY DEF Range

\* A queue holds its events once each exactly if it has as many as it is long.
LEMMA DistinctIs ==
  ASSUME NEW s \in Seq(Events)
  PROVE  /\ IsFiniteSet(Range(s))
         /\ Cardinality(Range(s)) = Len(s) <=> Distinct(s)
<1> DEFINE S == 1 .. Len(s)
<1>0. Len(s) \in Nat
  OBVIOUS
<1>1. IsFiniteSet(S) /\ Cardinality(S) = Len(s)
  BY <1>0, FS_Interval
<1>2. s \in Surjection(S, Range(s))
  BY DEF Surjection, Range
<1>3. /\ IsFiniteSet(Range(s))
      /\ Cardinality(Range(s)) = Cardinality(S) <=> s \in Injection(S, Range(s))
  BY <1>1, <1>2, FS_Surjection
<1>4. s \in Injection(S, Range(s)) <=> Distinct(s)
  BY DEF Injection, IsInjective, Range, Distinct
<1> QED
  BY <1>1, <1>3, <1>4

LEMMA AppendOne ==
  ASSUME NEW s \in Seq(Events), NEW e \in Events
  PROVE  /\ Append(s, e) # << >>
         /\ Range(Append(s, e)) = Range(s) \cup {e}
         /\ Distinct(s) /\ e \notin Range(s) => Distinct(Append(s, e))
<1>1. /\ Append(s, e) \in Seq(Events) /\ Len(Append(s, e)) = Len(s) + 1
      /\ \A i \in 1 .. Len(s) : Append(s, e)[i] = s[i]
      /\ Append(s, e)[Len(s) + 1] = e
  OBVIOUS
<1>2. 1 .. Len(s) + 1 = (1 .. Len(s)) \cup {Len(s) + 1}
  OBVIOUS
<1>3. Range(Append(s, e)) = Range(s) \cup {e}
  <2>1. Range(Append(s, e)) = {Append(s, e)[i] : i \in 1 .. Len(s) + 1}
    BY <1>1, RangeIs
  <2>2. Range(Append(s, e)) = {Append(s, e)[i] : i \in 1 .. Len(s)} \cup {e}
    BY <1>1, <1>2, <2>1
  <2>3. {Append(s, e)[i] : i \in 1 .. Len(s)} = {s[i] : i \in 1 .. Len(s)}
    BY <1>1
  <2> QED
    BY <2>2, <2>3, RangeIs
<1>4. ASSUME Distinct(s), e \notin Range(s)
      PROVE  Distinct(Append(s, e))
  BY <1>1, <1>2, <1>4, RangeIs DEF Distinct
<1>5. Append(s, e) # << >>
  BY <1>1
<1> QED
  BY <1>3, <1>4, <1>5

\* What is left of a queue without its first k events.
LEMMA Rest ==
  ASSUME NEW s \in Seq(Events), NEW k \in 0 .. Len(s), NEW t \in Seq(Events),
         Len(t) = Len(s) - k, \A i \in 1 .. Len(s) - k : t[i] = s[i + k]
  PROVE  /\ Range(t) = {s[i] : i \in k + 1 .. Len(s)}
         /\ Distinct(s) => Distinct(t)
<1>1. ASSUME NEW x, x \in Range(t)
      PROVE  \E i \in k + 1 .. Len(s) : x = s[i]
  <2>1. PICK i \in 1 .. Len(s) - k : x = t[i]
    BY <1>1, RangeIs
  <2>2. i + k \in k + 1 .. Len(s) /\ x = s[i + k]
    BY <2>1
  <2> QED
    BY <2>2
<1>2. ASSUME NEW i \in k + 1 .. Len(s)
      PROVE  s[i] \in Range(t)
  <2>1. i - k \in 1 .. Len(s) - k /\ (i - k) + k = i
    OBVIOUS
  <2>2. t[i - k] = s[i]
    BY <2>1
  <2> QED
    BY <2>1, <2>2, RangeIs
<1>3. ASSUME Distinct(s)
      PROVE  Distinct(t)
  <2> SUFFICES ASSUME NEW i \in 1 .. Len(s) - k, NEW j \in 1 .. Len(s) - k, t[i] = t[j]
               PROVE  i = j
    BY DEF Distinct
  <2>1. i + k \in 1 .. Len(s) /\ j + k \in 1 .. Len(s)
    OBVIOUS
  <2>2. s[i + k] = s[j + k]
    OBVIOUS
  <2>3. i + k = j + k
    BY <1>3, <2>1, <2>2 DEF Distinct
  <2> QED
    BY <2>3
<1>4. Range(t) \subseteq {s[i] : i \in k + 1 .. Len(s)}
  BY <1>1
<1>5. {s[i] : i \in k + 1 .. Len(s)} \subseteq Range(t)
  BY <1>2
<1> QED
  BY <1>3, <1>4, <1>5

\* The first event of a queue is taken out of it.
LEMMA TakeFirst ==
  ASSUME NEW s \in Seq(Events), s # << >>, Distinct(s)
  PROVE  /\ Head(s) \in Range(s) /\ Range(Tail(s)) = Range(s) \ {Head(s)}
         /\ Distinct(Tail(s))
<1>1. /\ Tail(s) \in Seq(Events) /\ Len(Tail(s)) = Len(s) - 1 /\ Len(s) \in Nat \ {0}
      /\ \A i \in 1 .. Len(s) - 1 : Tail(s)[i] = s[i + 1]
      /\ Head(s) = s[1]
  OBVIOUS
<1>2. Distinct(Tail(s)) /\ Range(Tail(s)) = {s[i] : i \in 2 .. Len(s)}
  <2>1. 1 \in 0 .. Len(s) /\ 1 + 1 = 2
    BY <1>1
  <2> QED
    BY <1>1, <2>1, Rest
<1>3. \A i \in 2 .. Len(s) : s[i] # s[1]
  BY <1>1 DEF Distinct
<1>4. 1 .. Len(s) = {1} \cup (2 .. Len(s))
  BY <1>1
<1> QED
  BY <1>1, <1>2, <1>3, <1>4, RangeIs

\* A queue is cut into its first k events and the others, which share none.
LEMMA Cut ==
  ASSUME NEW s \in Seq(Events), NEW k \in 0 .. Len(s), Distinct(s)
  PROVE  /\ SubSeq(s, 1, k) \in Seq(Events) /\ Len(SubSeq(s, 1, k)) = k
         /\ Distinct(SubSeq(s, 1, k)) /\ Distinct(SubSeq(s, k + 1, Len(s)))
         /\ Range(SubSeq(s, 1, k)) \subseteq Range(s)
         /\ Range(SubSeq(s, k + 1, Len(s))) = Range(s) \ Range(SubSeq(s, 1, k))
<1> DEFINE a == SubSeq(s, 1, k)
           b == SubSeq(s, k + 1, Len(s))
<1>1. /\ a \in Seq(Events) /\ Len(a) = k
      /\ \A i \in 1 .. k : a[i] = s[i]
  OBVIOUS
<1>2. /\ b \in Seq(Events) /\ Len(b) = Len(s) - k
      /\ \A i \in 1 .. Len(s) - k : b[i] = s[i + k]
  OBVIOUS
<1> HIDE DEF a, b
<1>3. Distinct(a)
  <2> SUFFICES ASSUME NEW i \in 1 .. k, NEW j \in 1 .. k, a[i] = a[j]
               PROVE  i = j
    BY <1>1 DEF Distinct
  <2>1. i \in 1 .. Len(s) /\ j \in 1 .. Len(s) /\ s[i] = s[j]
    BY <1>1
  <2> QED
    BY <2>1 DEF Distinct
<1>4. Range(a) = {s[i] : i \in 1 .. k}
  BY <1>1, RangeIs
<1>5. Distinct(b) /\ Range(b) = {s[i] : i \in k + 1 .. Len(s)}
  BY <1>2, Rest
<1>6. \A i \in 1 .. k, j \in k + 1 .. Len(s) : s[i] # s[j]
  BY DEF Distinct
<1>7. 1 .. Len(s) = (1 .. k) \cup (k + 1 .. Len(s))
  OBVIOUS
<1>8. Range(b) = Range(s) \ Range(a)
  BY <1>4, <1>5, <1>6, <1>7, RangeIs
<1>9. Range(a) \subseteq Range(s)
  BY <1>4, <1>7, RangeIs
<1> QED
  BY <1>1, <1>3, <1>5, <1>8, <1>9 DEF a, b

-----------------------------------------------------------------------------
(* The control of the worker and of main.                                  *)

InShip == pc \in {"gate", "post", "wire", "requeue"}

\* The worker, or main in its place, is there or will be when shipBatch returns.
At(place) == pc = place \/ (InShip /\ return = place)

\* Which queue can hold events when, and what main and the worker know of each
\* other.
PhaseInv ==
  /\ shipping # << >> => InShip
  /\ pc \in {"gate", "post", "wire"} => shipping # << >>
  /\ toFlush # << >> => main = "flushing"
  /\ main = "flushing" <=> At("flush")
  /\ main = "stopped" <=> pc = "stopped"
  /\ pc = "stopped" \/ At("exited") \/ At("flush") \/ At("drain") => batch = << >>
  /\ main = "running" <=> ~cancelled
  /\ main \in {"flushing", "stopped"} => pc # "wire"

\* The next batch of a queue that holds something is not empty.
LEMMA ChunkTaken ==
  ASSUME NEW n \in Nat, NEW s \in SeqUpTo(n), s # << >>
  PROVE  /\ s \in Seq(Events) /\ ChunkSize(s) \in 1 .. Len(s) /\ ChunkSize(s) <= BatchSize
         /\ SubSeq(s, 1, ChunkSize(s)) # << >>
<1>1. s \in Seq(Events) /\ Len(s) \in Nat \ {0}
  BY DEF SeqUpTo
<1>2. ChunkSize(s) \in 1 .. Len(s) /\ ChunkSize(s) <= BatchSize
  BY <1>1 DEF ChunkSize
<1>3. \A k \in 1 .. Len(s) : Len(SubSeq(s, 1, k)) = k
  BY <1>1
<1>4. Len(SubSeq(s, 1, ChunkSize(s))) # 0
  BY <1>2, <1>3
<1> QED
  BY <1>1, <1>2, <1>4

LEMMA SeqTypes ==
  ASSUME QueuesOK
  PROVE  /\ eventChan \in Seq(Events) /\ batch \in Seq(Events) /\ shipping \in Seq(Events)
         /\ toFlush \in Seq(Events) /\ buffer \in Seq(Events)
BY DEF QueuesOK, SeqUpTo

LEMMA PhaseStep ==
  ControlOK /\ FlagsOK /\ QueuesOK /\ PhaseInv /\ [Next]_vars => PhaseInv'
<1> SUFFICES ASSUME ControlOK, FlagsOK, QueuesOK, PhaseInv, [Next]_vars
             PROVE  PhaseInv'
  OBVIOUS
<1> USE DEF PhaseInv, InShip, At
<1>1. CASE Handlers
  BY <1>1 DEF Handlers, SendEvent, SendOverflow
<1>2. CASE Receive
  <2>1. Append(batch, Head(eventChan)) # << >>
    BY <1>2, SeqTypes, FirstFits, AppendOne DEF Receive, QueuesOK
  <2> QED
    BY <1>2, <2>1 DEF Receive, CallShip
<1>3. CASE Leave \/ Tick
  BY <1>3 DEF Leave, Tick, ShipCollected, CallShip
<1>4. CASE DrainBuffer
  BY <1>4, ChunkTaken DEF DrainBuffer, CallShip, QueuesOK
<1>5. CASE Gate \/ CoolDown
  BY <1>5 DEF Gate, CoolDown
<1>6. ASSUME AttemptFailed, pc \in {"post", "wire"}
      PROVE  pc' \in {"post", "requeue"} /\ UNCHANGED <<shipping, return>>
  BY <1>6 DEF AttemptFailed, GiveUp
<1>7. CASE BeginPost
  BY <1>6, <1>7 DEF BeginPost
<1>8. ASSUME NEW outcome \in Outcomes, EndPost(outcome)
      PROVE  PhaseInv'
  <2>1. CASE outcome = "accepted"
    BY <1>8, <2>1 DEF EndPost, Return, ControlOK
  <2>2. CASE outcome # "accepted"
    BY <1>6, <1>8, <2>2 DEF EndPost
  <2> QED
    BY <2>1, <2>2
<1>9. CASE Requeue
  BY <1>9 DEF Requeue, Return, ControlOK
<1>10. CASE Stop
  BY <1>10 DEF Stop, Cancel, CloseChan, WorkerDone, Timeout, FlagsOK
<1>11. CASE FlushNext
  BY <1>11, ChunkTaken DEF FlushNext, CallShip, QueuesOK
<1>12. CASE UNCHANGED vars
  BY <1>12 DEF vars
<1> QED
  BY <1>1, <1>2, <1>3, <1>4, <1>5, <1>7, <1>8, <1>9, <1>10, <1>11, <1>12
     DEF Next, Worker, Shipping

-----------------------------------------------------------------------------
(* Conservation.                                                           *)

\* The eight sets P[1] .. P[8] divide U among them.
Divide(P, U) ==
  /\ UNION {P[i] : i \in 1 .. 8} = U
  /\ \A i, j \in 1 .. 8 : i # j => P[i] \cap P[j] = {}

\* X goes from one of the sets to another.
Moves(P, Q, X, from, to) ==
  /\ Q[from] = P[from] \ X
  /\ Q[to] = P[to] \cup X
  /\ \A k \in (1 .. 8) \ {from, to} : Q[k] = P[k]

LEMMA MoveDivides ==
  ASSUME NEW P, NEW Q, NEW U, NEW X, NEW from \in 1 .. 8, NEW to \in 1 .. 8, from # to,
         Divide(P, U), X \subseteq P[from], Moves(P, Q, X, from, to)
  PROVE  Divide(Q, U)
<1>1. ASSUME NEW x
      PROVE  (\E k \in 1 .. 8 : x \in Q[k]) <=> (\E k \in 1 .. 8 : x \in P[k])
  BY DEF Moves
<1>2. UNION {Q[i] : i \in 1 .. 8} = U
  BY <1>1 DEF Divide
<1>3. ASSUME NEW i \in 1 .. 8, NEW j \in 1 .. 8, i # j
      PROVE  Q[i] \cap Q[j] = {}
  BY <1>3 DEF Divide, Moves
<1> QED
  BY <1>2, <1>3 DEF Divide

\* x, which is in none of the sets, is put into one of them.
LEMMA PutDivides ==
  ASSUME NEW P, NEW Q, NEW U, NEW x, NEW to \in 1 .. 8, Divide(P, U), x \notin U,
         \A k \in 1 .. 8 : Q[k] = IF k = to THEN P[k] \cup {x} ELSE P[k]
  PROVE  Divide(Q, U \cup {x})
<1>1. ASSUME NEW y
      PROVE  (\E k \in 1 .. 8 : y \in Q[k]) <=> (y = x \/ \E k \in 1 .. 8 : y \in P[k])
  OBVIOUS
<1>2. UNION {Q[i] : i \in 1 .. 8} = U \cup {x}
  BY <1>1 DEF Divide
<1>3. \A k \in 1 .. 8 : x \notin P[k]
  BY DEF Divide
<1>4. ASSUME NEW i \in 1 .. 8, NEW j \in 1 .. 8, i # j
      PROVE  Q[i] \cap Q[j] = {}
  BY <1>3, <1>4 DEF Divide
<1> QED
  BY <1>2, <1>4 DEF Divide

AllDistinct ==
  /\ Distinct(eventChan) /\ Distinct(batch) /\ Distinct(shipping)
  /\ Distinct(toFlush) /\ Distinct(buffer)

\* Conservation in its inductive form.
DivideInv == Divide(Places, Submitted) /\ AllDistinct

LEMMA PlacesAre ==
  /\ Places[1] = Range(eventChan) /\ Places[2] = Range(batch) /\ Places[3] = Range(shipping)
  /\ Places[4] = Range(toFlush) /\ Places[5] = Range(buffer) /\ Places[6] = Overflowing
  /\ Places[7] = shipped /\ Places[8] = dropped
  /\ DOMAIN Places = 1 .. 8
BY DEF Places, Held

LEMMA PlacesNext ==
  /\ Places'[1] = Range(eventChan') /\ Places'[2] = Range(batch')
  /\ Places'[3] = Range(shipping') /\ Places'[4] = Range(toFlush')
  /\ Places'[5] = Range(buffer') /\ Places'[6] = Overflowing'
  /\ Places'[7] = shipped' /\ Places'[8] = dropped'
BY DEF Places, Held

LEMMA DivideInit == Init => DivideInv
<1> SUFFICES ASSUME Init
             PROVE  DivideInv
  OBVIOUS
<1>1. \A k \in 1 .. 8 : Places[k] = {}
  BY PlacesAre, RangeEmpty DEF Init, Overflowing
<1>2. Submitted = {}
  BY DEF Init, Submitted
<1> QED
  BY <1>1, <1>2, RangeEmpty DEF Init, DivideInv, Divide, AllDistinct

LEMMA DivideIsConservation == QueuesOK /\ DivideInv => NoEventLost
<1> SUFFICES ASSUME QueuesOK, DivideInv
             PROVE  NoEventLost
  OBVIOUS
<1>1. ASSUME NEW i \in DOMAIN Held
      PROVE  Cardinality(Range(Held[i])) = Len(Held[i])
  <2>1. /\ DOMAIN Held = 1 .. 5
        /\ Held[1] = eventChan /\ Held[2] = batch /\ Held[3] = shipping
        /\ Held[4] = toFlush /\ Held[5] = buffer
    BY DEF Held
  <2>2. Held[i] \in Seq(Events) /\ Distinct(Held[i])
    BY <2>1, SeqTypes DEF DivideInv, AllDistinct
  <2> QED
    BY <2>2, DistinctIs
<1> QED
  BY <1>1, PlacesAre DEF NoEventLost, DivideInv, Divide

\* What buffer.Add does with an event that is not in the buffer.
LEMMA AddedOrDropped ==
  ASSUME QueuesOK, AllDistinct, NEW e \in Events, e \notin Range(buffer), BufferAdd(e)
  PROVE  /\ Distinct(buffer') /\ shipped' = shipped
         /\ \/ Range(buffer') = Range(buffer) \cup {e} /\ dropped' = dropped
            \/ Range(buffer') = Range(buffer) /\ dropped' = dropped \cup {e}
BY SeqTypes, AppendOne DEF BufferAdd, AllDistinct

\* sender[e] changes: what that means for Overflowing and Submitted.
LEMMA SenderMoves ==
  ASSUME ControlOK, NEW e \in Events, NEW to, sender' = [sender EXCEPT ![e] = to]
  PROVE  /\ to = "overflowing" => Overflowing' = Overflowing \cup {e}
         /\ to = "returned" => Overflowing' = Overflowing \ {e}
         /\ to # "overflowing" /\ e \notin Overflowing => Overflowing' = Overflowing
         /\ to \in {"overflowing", "returned"} => Submitted' = Submitted \cup {e}
         /\ to \in {"overflowing", "returned"} /\ e \in Submitted => Submitted' = Submitted
         /\ to = "panicked" /\ e \notin Submitted => Submitted' = Submitted
BY DEF ControlOK, Overflowing, Submitted

LEMMA SendDivides ==
  ASSUME ControlOK, QueuesOK, DivideInv, NEW e \in Events, SendEvent(e)
  PROVE  DivideInv'
<1> USE DEF DivideInv
<1>1. /\ e \notin Submitted /\ e \notin Overflowing /\ e \notin Range(eventChan)
      /\ UNCHANGED <<batch, shipping, toFlush, buffer, shipped, dropped>>
  BY PlacesAre DEF SendEvent, Submitted, Overflowing, Divide
<1>2. CASE sender' = [sender EXCEPT ![e] = "panicked"] /\ UNCHANGED eventChan
  <2>1. Submitted' = Submitted /\ Overflowing' = Overflowing
    BY <1>1, <1>2, SenderMoves
  <2>2. \A k \in 1 .. 8 : Places'[k] = Places[k]
    BY <1>1, <1>2, <2>1, PlacesAre, PlacesNext
  <2> QED
    BY <1>1, <1>2, <2>1, <2>2 DEF Divide, AllDistinct
<1>3. CASE /\ sender' = [sender EXCEPT ![e] = "returned"]
           /\ eventChan' = Append(eventChan, e)
  <2>1. Range(eventChan') = Range(eventChan) \cup {e} /\ Distinct(eventChan')
    BY <1>1, <1>3, SeqTypes, AppendOne DEF AllDistinct
  <2>2. Overflowing' = Overflowing /\ Submitted' = Submitted \cup {e}
    BY <1>1, <1>3, SenderMoves
  <2>3. \A k \in 1 .. 8 : Places'[k] = IF k = 1 THEN Places[k] \cup {e} ELSE Places[k]
    BY <1>1, <2>1, <2>2, PlacesAre, PlacesNext
  <2>4. Divide(Places', Submitted')
    BY <1>1, <2>2, <2>3, PutDivides
  <2> QED
    BY <1>1, <2>1, <2>4 DEF AllDistinct
<1>4. CASE sender' = [sender EXCEPT ![e] = "overflowing"] /\ UNCHANGED eventChan
  <2>1. Overflowing' = Overflowing \cup {e} /\ Submitted' = Submitted \cup {e}
    BY <1>4, SenderMoves
  <2>2. \A k \in 1 .. 8 : Places'[k] = IF k = 6 THEN Places[k] \cup {e} ELSE Places[k]
    BY <1>1, <1>4, <2>1, PlacesAre, PlacesNext
  <2>3. Divide(Places', Submitted')
    BY <1>1, <2>1, <2>2, PutDivides
  <2> QED
    BY <1>1, <1>4, <2>3 DEF AllDistinct
<1> QED
  BY <1>2, <1>3, <1>4 DEF SendEvent

LEMMA OverflowDivides ==
  ASSUME ControlOK, QueuesOK, DivideInv, NEW e \in Events, SendOverflow(e)
  PROVE  DivideInv'
<1> USE DEF DivideInv
<1>1. /\ e \in Submitted /\ e \in Overflowing
      /\ UNCHANGED <<eventChan, batch, shipping, toFlush>>
  BY DEF SendOverflow, Submitted, Overflowing
<1>2. e \notin Range(buffer)
  BY <1>1, PlacesAre DEF Divide
<1>3. /\ Distinct(buffer') /\ shipped' = shipped
      /\ \/ Range(buffer') = Range(buffer) \cup {e} /\ dropped' = dropped
         \/ Range(buffer') = Range(buffer) /\ dropped' = dropped \cup {e}
  BY <1>2, AddedOrDropped DEF SendOverflow
<1>4. Overflowing' = Overflowing \ {e} /\ Submitted' = Submitted
  BY <1>1, SenderMoves DEF SendOverflow
<1>5. Moves(Places, Places', {e}, 6, 5) \/ Moves(Places, Places', {e}, 6, 8)
  BY <1>1, <1>3, <1>4, PlacesAre, PlacesNext DEF Moves
<1>6. Divide(Places', Submitted')
  BY <1>1, <1>4, <1>5, PlacesAre, MoveDivides
<1> QED
  BY <1>1, <1>3, <1>6 DEF AllDistinct

LEMMA ReceiveDivides ==
  ASSUME ControlOK, QueuesOK, PhaseInv, DivideInv, Receive
  PROVE  DivideInv'
<1> USE DEF DivideInv
<1> DEFINE e == Head(eventChan)
           grown == Append(batch, e)
           between == [k \in 1 .. 8 |-> IF k = 1 THEN Places[k] \ {e}
                                        ELSE IF k = 2 THEN Places[k] \cup {e} ELSE Places[k]]
<1>1. /\ UNCHANGED <<sender, toFlush, buffer, shipped, dropped>>
      /\ eventChan # << >> /\ eventChan' = Tail(eventChan)
      /\ Submitted' = Submitted /\ Overflowing' = Overflowing
  BY DEF Receive, Submitted, Overflowing
<1>2. /\ e \in Range(eventChan) /\ Range(eventChan') = Range(eventChan) \ {e}
      /\ Distinct(eventChan')
  BY <1>1, SeqTypes, TakeFirst DEF AllDistinct
<1>3. e \in Events /\ e \notin Range(batch)
  BY <1>1, <1>2, FirstFits, PlacesAre DEF QueuesOK, Divide
<1>4. Range(grown) = Range(batch) \cup {e} /\ Distinct(grown)
  BY <1>3, SeqTypes, AppendOne DEF AllDistinct
<1>5. \/ shipping = << >> /\ shipping' = grown /\ batch' = << >>
      \/ batch' = grown /\ UNCHANGED shipping
  BY DEF Receive, CallShip, PhaseInv, InShip
<1>6. Moves(Places, between, {e}, 1, 2)
  BY DEF Moves
<1>7. /\ between[2] = Range(batch) \cup {e} /\ between[3] = Range(shipping)
      /\ between[1] = Range(eventChan) \ {e}
      /\ \A k \in 4 .. 8 : between[k] = Places[k]
  BY PlacesAre
<1> HIDE DEF e, grown, between
<1>8. Divide(between, Submitted)
  BY <1>2, <1>6, PlacesAre, MoveDivides
<1>9. CASE shipping = << >> /\ shipping' = grown /\ batch' = << >>
  <2>1. /\ Places'[1] = between[1] /\ Range(grown) = between[2] /\ between[3] = {}
        /\ Places'[2] = {} /\ Places'[3] = between[2]
        /\ \A k \in 4 .. 8 : Places'[k] = between[k]
    BY <1>1, <1>2, <1>4, <1>7, <1>9, RangeEmpty, PlacesAre, PlacesNext
  <2>2. Moves(between, Places', between[2], 2, 3)
    BY <2>1 DEF Moves
  <2>3. Divide(Places', Submitted)
    BY <1>8, <2>2, MoveDivides
  <2>4. Divide(Places', Submitted')
    BY <1>1, <2>3
  <2> QED
    BY <1>1, <1>2, <1>4, <1>9, <2>4, RangeEmpty DEF AllDistinct
<1>10. CASE batch' = grown /\ UNCHANGED shipping
  <2>1. \A k \in 1 .. 8 : Places'[k] = between[k]
    <3>1. \A k \in 4 .. 8 : Places'[k] = between[k]
      BY <1>1, <1>7, PlacesAre, PlacesNext
    <3>2. /\ Places'[1] = between[1] /\ Places'[2] = between[2] /\ Places'[3] = between[3]
      BY <1>1, <1>2, <1>4, <1>7, <1>10, PlacesNext
    <3> QED
      BY <3>1, <3>2
  <2>2. Divide(Places', Submitted')
    BY <1>1, <1>8, <2>1 DEF Divide
  <2> QED
    BY <1>1, <1>2, <1>4, <1>10, <2>2 DEF AllDistinct
<1> QED
  BY <1>5, <1>9, <1>10

LEMMA HandlersUnmoved ==
  ASSUME UNCHANGED sender
  PROVE  Submitted' = Submitted /\ Overflowing' = Overflowing
BY DEF Submitted, Overflowing

LEMMA NothingMoves ==
  ASSUME DivideInv,
         UNCHANGED <<sender, eventChan, batch, shipping, toFlush, buffer, shipped, dropped>>
  PROVE  DivideInv'
<1>1. Submitted' = Submitted /\ Overflowing' = Overflowing
  BY HandlersUnmoved
<1>2. \A k \in 1 .. 8 : Places'[k] = Places[k]
  BY <1>1, PlacesAre, PlacesNext
<1> QED
  BY <1>1, <1>2 DEF DivideInv, Divide, AllDistinct

\* The whole batch is shipped.
LEMMA CollectedDivides ==
  ASSUME QueuesOK, PhaseInv, DivideInv, Leave \/ Tick
  PROVE  DivideInv'
<1> USE DEF DivideInv
<1>1. UNCHANGED <<sender, eventChan, toFlush, buffer, shipped, dropped>> /\ pc = "select"
  BY DEF Leave, Tick
<1>2. \/ shipping' = batch /\ batch' = << >>
      \/ UNCHANGED <<batch, shipping>>
  BY DEF Leave, Tick, ShipCollected, CallShip
<1>3. CASE shipping' = batch /\ batch' = << >>
  <2>1. shipping = << >> /\ Submitted' = Submitted /\ Overflowing' = Overflowing
    BY <1>1, HandlersUnmoved DEF PhaseInv, InShip
  <2>2. Moves(Places, Places', Range(batch), 2, 3)
    <3>1. Range(batch') = Range(batch) \ Range(batch)
          /\ Range(shipping') = Range(shipping) \cup Range(batch)
      BY <1>3, <2>1, RangeEmpty
    <3> QED
      BY <1>1, <2>1, <3>1, PlacesAre, PlacesNext DEF Moves
  <2>3. Divide(Places', Submitted)
    BY <2>2, PlacesAre, MoveDivides
  <2> QED
    BY <1>1, <1>3, <2>1, <2>3, RangeEmpty DEF AllDistinct
<1> QED
  BY <1>1, <1>2, <1>3, NothingMoves

\* A part of the buffer is shipped, and of what flushBuffer took from it.
LEMMA DrainDivides ==
  ASSUME QueuesOK, PhaseInv, DivideInv, DrainBuffer
  PROVE  DivideInv'
<1> USE DEF DivideInv
<1> DEFINE k == ChunkSize(buffer)
           taken == SubSeq(buffer, 1, k)
<1>1. UNCHANGED <<sender, eventChan, batch, toFlush, shipped, dropped>> /\ pc = "drain"
  BY DEF DrainBuffer
<1>2. CASE buffer # << >>
  <2>1. shipping = << >> /\ Submitted' = Submitted /\ Overflowing' = Overflowing
    BY <1>1, HandlersUnmoved DEF PhaseInv, InShip
  <2>2. shipping' = taken /\ buffer' = SubSeq(buffer, k + 1, Len(buffer))
    BY <1>2 DEF DrainBuffer, CallShip
  <2>3. /\ Distinct(shipping') /\ Distinct(buffer') /\ Range(taken) \subseteq Range(buffer)
        /\ Range(buffer') = Range(buffer) \ Range(taken)
    BY <1>2, <2>2, ChunkTaken, Cut DEF QueuesOK, AllDistinct
  <2> HIDE DEF k, taken
  <2>4. Moves(Places, Places', Range(taken), 5, 3)
    <3>1. Range(shipping') = Range(shipping) \cup Range(taken)
      BY <2>1, <2>2, RangeEmpty
    <3> QED
      BY <1>1, <2>1, <2>3, <3>1, PlacesAre, PlacesNext DEF Moves
  <2>5. Divide(Places', Submitted)
    BY <2>3, <2>4, PlacesAre, MoveDivides
  <2> QED
    BY <1>1, <2>1, <2>3, <2>5 DEF AllDistinct
<1>3. CASE buffer = << >>
  BY <1>1, <1>3, NothingMoves DEF DrainBuffer
<1> QED
  BY <1>2, <1>3

LEMMA FlushDivides ==
  ASSUME QueuesOK, PhaseInv, DivideInv, FlushNext
  PROVE  DivideInv'
<1> USE DEF DivideInv
<1> DEFINE k == ChunkSize(toFlush)
           taken == SubSeq(toFlush, 1, k)
<1>1. UNCHANGED <<sender, eventChan, batch, buffer, shipped, dropped>> /\ pc = "flush"
  BY DEF FlushNext
<1>2. CASE toFlush # << >>
  <2>1. shipping = << >> /\ Submitted' = Submitted /\ Overflowing' = Overflowing
    BY <1>1, HandlersUnmoved DEF PhaseInv, InShip
  <2>2. shipping' = taken /\ toFlush' = SubSeq(toFlush, k + 1, Len(toFlush))
    BY <1>2 DEF FlushNext, CallShip
  <2>3. /\ Distinct(shipping') /\ Distinct(toFlush') /\ Range(taken) \subseteq Range(toFlush)
        /\ Range(toFlush') = Range(toFlush) \ Range(taken)
    BY <1>2, <2>2, ChunkTaken, Cut DEF QueuesOK, AllDistinct
  <2> HIDE DEF k, taken
  <2>4. Moves(Places, Places', Range(taken), 4, 3)
    <3>1. Range(shipping') = Range(shipping) \cup Range(taken)
      BY <2>1, <2>2, RangeEmpty
    <3> QED
      BY <1>1, <2>1, <2>3, <3>1, PlacesAre, PlacesNext DEF Moves
  <2>5. Divide(Places', Submitted)
    BY <2>3, <2>4, PlacesAre, MoveDivides
  <2> QED
    BY <1>1, <2>1, <2>3, <2>5 DEF AllDistinct
<1>3. CASE toFlush = << >>
  BY <1>1, <1>3, NothingMoves DEF FlushNext
<1> QED
  BY <1>2, <1>3

LEMMA DoneDivides ==
  ASSUME QueuesOK, PhaseInv, DivideInv, WorkerDone
  PROVE  DivideInv'
<1> USE DEF DivideInv
<1>1. /\ UNCHANGED <<sender, eventChan, batch, shipping, shipped, dropped>>
      /\ toFlush = << >> /\ toFlush' = buffer /\ buffer' = << >>
  BY DEF WorkerDone, PhaseInv
<1>2. Submitted' = Submitted /\ Overflowing' = Overflowing
  BY <1>1, HandlersUnmoved
<1>3. Moves(Places, Places', Range(buffer), 5, 4)
  <2>1. Range(buffer') = Range(buffer) \ Range(buffer)
        /\ Range(toFlush') = Range(toFlush) \cup Range(buffer)
    BY <1>1, RangeEmpty
  <2> QED
    BY <1>1, <1>2, <2>1, PlacesAre, PlacesNext DEF Moves
<1>4. Divide(Places', Submitted)
  BY <1>3, PlacesAre, MoveDivides
<1> QED
  BY <1>1, <1>2, <1>4, RangeEmpty DEF AllDistinct

\* A failed POST moves nothing, one that succeeds the events that were shipped.
LEMMA PostDivides ==
  ASSUME DivideInv, NEW outcome \in Outcomes, EndPost(outcome)
  PROVE  DivideInv'
<1> USE DEF DivideInv
<1>1. UNCHANGED <<sender, eventChan, batch, toFlush, buffer>>
  BY DEF EndPost
<1>2. CASE outcome = "accepted"
  <2>1. /\ shipping' = << >> /\ shipped' = shipped \cup Range(shipping) /\ UNCHANGED dropped
    BY <1>2 DEF EndPost, CountShipped, Return
  <2>2. Submitted' = Submitted /\ Overflowing' = Overflowing
    BY <1>1, HandlersUnmoved
  <2>3. Moves(Places, Places', Range(shipping), 3, 7)
    <3>1. Range(shipping') = Range(shipping) \ Range(shipping)
      BY <2>1, RangeEmpty
    <3> QED
      BY <1>1, <2>1, <2>2, <3>1, PlacesAre, PlacesNext DEF Moves
  <2>4. Divide(Places', Submitted)
    BY <2>3, PlacesAre, MoveDivides
  <2> QED
    BY <1>1, <2>1, <2>2, <2>4, RangeEmpty DEF AllDistinct
<1>3. CASE outcome # "accepted"
  BY <1>1, <1>3, NothingMoves DEF EndPost, AttemptFailed, GiveUp
<1> QED
  BY <1>2, <1>3

LEMMA RequeueDivides ==
  ASSUME QueuesOK, DivideInv, Requeue
  PROVE  DivideInv'
<1> USE DEF DivideInv
<1> DEFINE e == Head(shipping)
<1>1. UNCHANGED <<sender, eventChan, batch, toFlush>>
  BY DEF Requeue
<1>2. CASE shipping # << >>
  <2>1. shipping' = Tail(shipping) /\ BufferAdd(e)
    BY <1>2 DEF Requeue
  <2>2. /\ e \in Events /\ e \in Range(shipping)
        /\ Range(shipping') = Range(shipping) \ {e} /\ Distinct(shipping')
    BY <1>2, <2>1, SeqTypes, TakeFirst, FirstFits DEF QueuesOK, AllDistinct
  <2> HIDE DEF e
  <2>3. e \notin Range(buffer)
    BY <2>2, PlacesAre DEF Divide
  <2>4. /\ Distinct(buffer') /\ shipped' = shipped
        /\ \/ Range(buffer') = Range(buffer) \cup {e} /\ dropped' = dropped
           \/ Range(buffer') = Range(buffer) /\ dropped' = dropped \cup {e}
    BY <2>1, <2>2, <2>3, AddedOrDropped
  <2>5. Submitted' = Submitted /\ Overflowing' = Overflowing
    BY <1>1, HandlersUnmoved
  <2>6. Moves(Places, Places', {e}, 3, 5) \/ Moves(Places, Places', {e}, 3, 8)
    BY <1>1, <2>2, <2>4, <2>5, PlacesAre, PlacesNext DEF Moves
  <2>7. Divide(Places', Submitted)
    <3>1. {e} \subseteq Places[3]
      BY <2>2, PlacesAre
    <3>2. CASE Moves(Places, Places', {e}, 3, 5)
      BY <3>1, <3>2, MoveDivides
    <3>3. CASE Moves(Places, Places', {e}, 3, 8)
      BY <3>1, <3>3, MoveDivides
    <3> QED
      BY <2>6, <3>2, <3>3
  <2> QED
    BY <1>1, <2>2, <2>4, <2>5, <2>7 DEF AllDistinct
<1>3. CASE shipping = << >>
  BY <1>1, <1>3, NothingMoves DEF Requeue, Return
<1> QED
  BY <1>2, <1>3

LEMMA DivideStep ==
  ControlOK /\ QueuesOK /\ PhaseInv /\ DivideInv /\ [Next]_vars => DivideInv'
<1> SUFFICES ASSUME ControlOK, QueuesOK, PhaseInv, DivideInv, [Next]_vars
             PROVE  DivideInv'
  OBVIOUS
<1>1. CASE Handlers
  BY <1>1, SendDivides, OverflowDivides DEF Handlers
<1>2. CASE Receive \/ Leave \/ Tick
  BY <1>2, ReceiveDivides, CollectedDivides
<1>3. CASE DrainBuffer \/ FlushNext \/ WorkerDone \/ Requeue
  BY <1>3, DrainDivides, FlushDivides, DoneDivides, RequeueDivides
<1>4. CASE Gate \/ BeginPost \/ CoolDown
  BY <1>4, NothingMoves DEF Gate, BeginPost, CoolDown, AttemptFailed, GiveUp
<1>5. ASSUME NEW outcome \in Outcomes, EndPost(outcome)
      PROVE  DivideInv'
  BY <1>5, PostDivides
<1>6. CASE Cancel \/ CloseChan \/ Timeout
  BY <1>6, NothingMoves DEF Cancel, CloseChan, Timeout
<1>7. CASE UNCHANGED vars
  BY <1>7, NothingMoves DEF vars
<1> QED
  BY <1>1, <1>2, <1>3, <1>4, <1>5, <1>6, <1>7 DEF Next, Worker, Shipping, Stop

-----------------------------------------------------------------------------
(* The theorems about what is held.                                        *)

DeliveryIInv == ShipperIInv /\ PhaseInv /\ DivideInv

LEMMA DeliveryInvariant == Spec => []DeliveryIInv
<1>1. Init => DeliveryIInv
  <2>1. Init => PhaseInv
    BY DEF Init, PhaseInv, InShip, At
  <2> QED
    BY <2>1, ShipperInit, DivideInit DEF DeliveryIInv
<1>2. DeliveryIInv /\ [Next]_vars => DeliveryIInv'
  BY ShipperStep, PhaseStep, DivideStep DEF DeliveryIInv, ShipperIInv, TypeOK
<1> QED
  BY <1>1, <1>2, PTL DEF Spec

\* NoEventLost: conservation, for any number of events and any capacities: whatever handlers,
\* worker, collector and Stop do in between, an event given to SendEvent is in
\* exactly one place, and there once.
THEOREM NothingLost == Spec => []NoEventLost
<1>1. DeliveryIInv => NoEventLost
  BY DivideIsConservation DEF DeliveryIInv, ShipperIInv, TypeOK
<1> QED
  BY <1>1, DeliveryInvariant, PTL

\* StopLosesAtMost: when Stop has returned nil, the worker's batch and what
\* flushBuffer drained are settled or back in the buffer, and nothing but the
\* channel and the buffer holds an event.
THEOREM StopLossBounded == Spec => []StopLosesAtMost
<1>1. DeliveryIInv => StopLosesAtMost
  <2> SUFFICES ASSUME DeliveryIInv, main = "stopped"
               PROVE  Cardinality(Submitted \ Settled) <= ChanCap + BufferSize
    BY DEF StopLosesAtMost
  <2> USE DEF DeliveryIInv, ShipperIInv, TypeOK
  <2>1. batch = << >> /\ shipping = << >> /\ toFlush = << >>
    BY DEF PhaseInv, InShip
  <2>2. Submitted \ Settled = Range(eventChan) \cup Range(buffer)
    <3>1. /\ Range(batch) = {} /\ Range(shipping) = {} /\ Range(toFlush) = {}
      BY <2>1, RangeEmpty
    <3>2. Submitted = Range(eventChan) \cup Range(buffer) \cup Settled
      BY <3>1, PlacesAre DEF DivideInv, Divide, Settled
    <3>3. (Range(eventChan) \cup Range(buffer)) \cap Settled = {}
      BY PlacesAre DEF DivideInv, Divide, Settled
    <3> QED
      BY <3>2, <3>3
  <2>3. /\ IsFiniteSet(Range(eventChan)) /\ Cardinality(Range(eventChan)) <= ChanCap
        /\ IsFiniteSet(Range(buffer)) /\ Cardinality(Range(buffer)) <= BufferSize
    BY SeqTypes, DistinctIs DEF QueuesOK, SeqUpTo, DivideInv, AllDistinct
  <2> DEFINE A == Range(eventChan)
             B == Range(buffer)
  <2>4. Cardinality(A) \in Nat /\ Cardinality(B) \in Nat /\ Cardinality(A \cap B) \in Nat
    BY <2>3, FS_CardinalityType, FS_Intersection
  <2>5. Cardinality(A \cup B) = Cardinality(A) + Cardinality(B) - Cardinality(A \cap B)
    BY <2>3, FS_Union
  <2> HIDE DEF A, B
  <2>6. Cardinality(A \cup B) <= ChanCap + BufferSize
    <3>1. Cardinality(A) <= ChanCap /\ Cardinality(B) <= BufferSize
      BY <2>3 DEF A, B
    <3> QED
      BY <2>4, <2>5, <3>1
  <2> QED
    BY <2>2, <2>6 DEF A, B
<1> QED
  BY <1>1, DeliveryInvariant, PTL

-----------------------------------------------------------------------------
(* Refinement of EventDelivery.                                            *)

\* The status the refinement mapping gives to an event, and what it says.
status == [e \in Events |-> StatusOf(e)]

LEMMA EndsAreSubmitted ==
  ASSUME DivideInv
  PROVE  /\ shipped \subseteq Submitted /\ dropped \subseteq Submitted
         /\ Range(shipping) \subseteq Submitted /\ Overflowing \subseteq Submitted
         /\ shipped \cap dropped = {}
         /\ (Range(shipping) \cup Overflowing) \cap (shipped \cup dropped) = {}
<1>1. \A k \in 1 .. 8 : Places[k] \subseteq Submitted
  BY DEF DivideInv, Divide
<1> QED
  BY <1>1, PlacesAre DEF DivideInv, Divide

LEMMA PendingIs ==
  ASSUME ControlOK, NEW e \in Submitted, e \notin shipped \cup dropped
  PROVE  status[e] = "pending"
BY DEF Submitted, status, StatusOf

\* Where neither the handlers nor the two ends change, nothing has happened.
LEMMA StatusStays ==
  ASSUME UNCHANGED <<sender, shipped, dropped, eventsShipped, eventsDropped>>
  PROVE  UNCHANGED Delivery!vars
BY DEF Delivery!vars, StatusOf

LEMMA SendRefines ==
  ASSUME ControlOK, DivideInv, NEW e \in Events, SendEvent(e)
  PROVE  Delivery!Accept(e) \/ Delivery!Reject(e)
<1>1. /\ sender[e] = "idle" /\ UNCHANGED <<shipped, dropped, eventsShipped, eventsDropped>>
      /\ \/ sender' = [sender EXCEPT ![e] = "panicked"]
         \/ sender' = [sender EXCEPT ![e] = "returned"]
         \/ sender' = [sender EXCEPT ![e] = "overflowing"]
  BY DEF SendEvent
<1>2. e \notin shipped /\ e \notin dropped
  BY <1>1, EndsAreSubmitted DEF Submitted
<1>3. status[e] = "new"
  BY <1>1, <1>2 DEF status, StatusOf
<1>4. ASSUME NEW d \in Events, d # e
      PROVE  status'[d] = status[d]
  BY <1>1, <1>4 DEF ControlOK, status, StatusOf
<1>5. CASE sender' = [sender EXCEPT ![e] = "panicked"]
  <2>1. status'[e] = "rejected"
    BY <1>1, <1>2, <1>5 DEF ControlOK, status, StatusOf
  <2>2. status' = [status EXCEPT ![e] = "rejected"]
    BY <1>4, <2>1 DEF status
  <2> QED
    BY <1>1, <1>3, <2>2 DEF Delivery!Reject, status
<1>6. CASE \/ sender' = [sender EXCEPT ![e] = "returned"]
           \/ sender' = [sender EXCEPT ![e] = "overflowing"]
  <2>1. status'[e] = "pending"
    BY <1>1, <1>2, <1>6 DEF ControlOK, status, StatusOf
  <2>2. status' = [status EXCEPT ![e] = "pending"]
    BY <1>4, <2>1 DEF status
  <2> QED
    BY <1>1, <1>3, <2>2 DEF Delivery!Accept, status
<1> QED
  BY <1>1, <1>5, <1>6

\* buffer.Add for an event that is pending, by a handler or by the requeue loop.
LEMMA AddRefines ==
  ASSUME ControlOK, DivideInv, NEW e \in Submitted, e \notin shipped \cup dropped, BufferAdd(e),
         \/ UNCHANGED sender
         \/ sender[e] = "overflowing" /\ sender' = [sender EXCEPT ![e] = "returned"]
  PROVE  Delivery!Drop(e) \/ UNCHANGED Delivery!vars
<1>1. e \in Events /\ sender[e] \in {"overflowing", "returned"}
  BY DEF Submitted
<1>2. /\ sender'[e] \in {"overflowing", "returned"}
      /\ \A d \in Events : d # e => sender'[d] = sender[d]
  BY <1>1 DEF ControlOK
<1>3. CASE UNCHANGED metricVars
  <2>1. ASSUME NEW d \in Events
        PROVE  status'[d] = status[d]
    <3>1. CASE d = e
      BY <1>1, <1>2, <1>3, <3>1 DEF status, StatusOf
    <3>2. CASE d # e
      BY <1>2, <1>3, <3>2 DEF status, StatusOf
    <3> QED
      BY <3>1, <3>2
  <2>2. status' = status
    BY <2>1 DEF status
  <2> QED
    BY <1>3, <2>2 DEF Delivery!vars, status
<1>4. CASE /\ eventsDropped' = eventsDropped + 1 /\ dropped' = dropped \cup {e}
           /\ UNCHANGED <<eventsShipped, shipped>>
  <2>1. status[e] = "pending"
    BY PendingIs
  <2>2. status'[e] = "dropped"
    BY <1>1, <1>2, <1>4 DEF status, StatusOf
  <2>3. ASSUME NEW d \in Events, d # e
        PROVE  status'[d] = status[d]
    BY <1>2, <1>4, <2>3 DEF status, StatusOf
  <2>4. status' = [status EXCEPT ![e] = "dropped"]
    BY <2>2, <2>3 DEF status
  <2> QED
    BY <1>4, <2>1, <2>4 DEF Delivery!Drop, status
<1> QED
  BY <1>3, <1>4 DEF BufferAdd

LEMMA PostRefines ==
  ASSUME ControlOK, QueuesOK, PhaseInv, DivideInv, EndPost("accepted")
  PROVE  \E S \in SUBSET Events : Delivery!Ship(S)
<1> DEFINE S == Range(shipping)
<1>1. /\ UNCHANGED <<sender, dropped, eventsDropped>> /\ shipped' = shipped \cup S
      /\ eventsShipped' = eventsShipped + Len(shipping)
  BY DEF EndPost, CountShipped
<1>2. /\ S \subseteq Submitted /\ S \cap (shipped \cup dropped) = {}
      /\ shipped \cap dropped = {} /\ Submitted \subseteq Events
  BY EndsAreSubmitted DEF Submitted
<1>3. IsFiniteSet(S) /\ Cardinality(S) = Len(shipping)
  BY SeqTypes, DistinctIs DEF DivideInv, AllDistinct
<1>4. S # {} /\ Len(shipping) <= BatchSize
  <2>1. shipping # << >> /\ shipping \in Seq(Events) /\ Len(shipping) <= BatchSize
    BY SeqTypes DEF EndPost, PhaseInv, QueuesOK, SeqUpTo
  <2>2. 1 \in 1 .. Len(shipping)
    BY <2>1
  <2> QED
    BY <2>1, <2>2, RangeIs
<1> HIDE DEF S
<1>5. \A e \in S : status[e] = "pending"
  BY <1>2, PendingIs
<1>6. status' = [e \in Events |-> IF e \in S THEN "shipped" ELSE status[e]]
  <2>1. ASSUME NEW e \in Events
        PROVE  status'[e] = IF e \in S THEN "shipped" ELSE status[e]
    BY <1>1, <1>2 DEF status, StatusOf, Submitted
  <2> QED
    BY <2>1 DEF status
<1>7. Delivery!Cardinality(S) = Cardinality(S) /\ Delivery!IsFiniteSet(S) = IsFiniteSet(S)
  BY DEF Delivery!Cardinality, Cardinality, Delivery!IsFiniteSet, IsFiniteSet
<1>8. Delivery!Ship(S)
  BY <1>1, <1>3, <1>4, <1>5, <1>6, <1>7 DEF Delivery!Ship, status
<1> QED
  BY <1>2, <1>8

LEMMA DeliveryStep ==
  DeliveryIInv /\ [Next]_vars => [Delivery!Next]_(Delivery!vars)
<1> SUFFICES ASSUME DeliveryIInv, [Next]_vars
             PROVE  Delivery!Next \/ UNCHANGED Delivery!vars
  OBVIOUS
<1> USE DEF DeliveryIInv, ShipperIInv, TypeOK
<1>1. ASSUME NEW e \in Events, SendEvent(e)
      PROVE  Delivery!Next
  BY <1>1, SendRefines DEF Delivery!Next
<1>2. ASSUME NEW e \in Events, SendOverflow(e)
      PROVE  Delivery!Next \/ UNCHANGED Delivery!vars
  <2>1. e \in Submitted /\ e \notin shipped \cup dropped
    BY <1>2, EndsAreSubmitted DEF SendOverflow, Overflowing
  <2> QED
    BY <1>2, <2>1, AddRefines DEF SendOverflow, Delivery!Next
<1>3. CASE Requeue
  <2>1. CASE shipping # << >>
    <3>1. Head(shipping) \in Events /\ Head(shipping) \in Range(shipping)
      BY <2>1, SeqTypes, TakeFirst, FirstFits DEF QueuesOK, DivideInv, AllDistinct
    <3>2. Head(shipping) \in Submitted /\ Head(shipping) \notin shipped \cup dropped
      BY <3>1, EndsAreSubmitted
    <3>3. BufferAdd(Head(shipping)) /\ UNCHANGED sender
      BY <1>3, <2>1 DEF Requeue
    <3>4. Delivery!Drop(Head(shipping)) \/ UNCHANGED Delivery!vars
      BY <3>2, <3>3, AddRefines
    <3> QED
      BY <3>1, <3>4 DEF Delivery!Next
  <2>2. CASE shipping = << >>
    BY <1>3, <2>2, StatusStays DEF Requeue
  <2> QED
    BY <2>1, <2>2
<1>4. ASSUME NEW outcome \in Outcomes, EndPost(outcome)
      PROVE  Delivery!Next \/ UNCHANGED Delivery!vars
  <2>1. CASE outcome = "accepted"
    BY <1>4, <2>1, PostRefines DEF Delivery!Next
  <2>2. CASE outcome # "accepted"
    BY <1>4, <2>2, StatusStays DEF EndPost, AttemptFailed, GiveUp
  <2> QED
    BY <2>1, <2>2
<1>5. CASE Receive \/ Leave \/ Tick \/ DrainBuffer \/ FlushNext
  BY <1>5, StatusStays DEF Receive, Leave, Tick, DrainBuffer, FlushNext
<1>6. CASE Gate \/ BeginPost \/ CoolDown
  BY <1>6, StatusStays DEF Gate, BeginPost, CoolDown, AttemptFailed, GiveUp
<1>7. CASE Stop
  BY <1>7, StatusStays DEF Stop, Cancel, CloseChan, WorkerDone, Timeout
<1>8. CASE UNCHANGED vars
  BY <1>8, StatusStays DEF vars
<1> QED
  BY <1>1, <1>2, <1>3, <1>4, <1>5, <1>6, <1>7, <1>8 DEF Next, Handlers, Worker, Shipping

\* RefinesDelivery: the shipper implements EventDelivery, for any number of events, any
\* capacities and batch size: channel, batches, retries, breaker, requeue and
\* flush together never ship or drop an event twice, nor ship one that was
\* dropped, and the two published counters are exact.
THEOREM Refinement == Spec => RefinesDelivery
<1>1. Init => Delivery!Init
  BY DEF Init, Delivery!Init, StatusOf
<1> QED
  BY <1>1, DeliveryStep, DeliveryInvariant, PTL DEF Spec, RefinesDelivery, Delivery!Spec
-----------------------------------------------------------------------------
(* What follows of the published counters and of Stop.                     *)

\* What is known of the counters of an EventDelivery, of which this is one.
Counts == INSTANCE EventDeliveryProofs

LEMMA CountsSteps ==
  DeliveryIInv /\ [Next]_vars => [Counts!Next]_(Counts!vars)
<1> SUFFICES ASSUME DeliveryIInv, [Next]_vars
             PROVE  Counts!Next \/ UNCHANGED Counts!vars
  OBVIOUS
<1>1. CASE UNCHANGED Delivery!vars
  BY <1>1 DEF Delivery!vars, Counts!vars, status
<1>2. ASSUME NEW e \in Events, Delivery!Accept(e) \/ Delivery!Reject(e) \/ Delivery!Drop(e)
      PROVE  Counts!Next
  BY <1>2 DEF Delivery!Accept, Delivery!Reject, Delivery!Drop,
              Counts!Accept, Counts!Reject, Counts!Drop, Counts!Next, status
<1>3. ASSUME NEW S \in SUBSET Events, Delivery!Ship(S)
      PROVE  Counts!Next
  <2>1. /\ Delivery!Cardinality(S) = Counts!Cardinality(S)
        /\ Delivery!IsFiniteSet(S) = Counts!IsFiniteSet(S)
    BY DEF Delivery!Cardinality, Counts!Cardinality, Delivery!IsFiniteSet, Counts!IsFiniteSet
  <2>2. Counts!Ship(S)
    BY <1>3, <2>1 DEF Delivery!Ship, Counts!Ship, status
  <2> QED
    BY <2>2 DEF Counts!Next
<1> QED
  BY <1>1, <1>2, <1>3, DeliveryStep DEF Delivery!Next

\* EventsShipped and EventsDropped are exact at every moment, also while batches
\* fail half requeued and Stop flushes.
THEOREM CountersExact ==
  Spec => [](eventsShipped = Cardinality(shipped) /\ eventsDropped = Cardinality(dropped))
<1>1. Init => Counts!CountsInv
  <2>1. Init => Counts!Init
    BY DEF Init, Counts!Init, status, StatusOf
  <2> QED
    BY <2>1, Counts!CountsInit
<1>2. DeliveryIInv /\ Counts!CountsInv /\ [Next]_vars => Counts!CountsInv'
  BY CountsSteps, Counts!CountsStep
<1>3. DeliveryIInv /\ Counts!CountsInv =>
        eventsShipped = Cardinality(shipped) /\ eventsDropped = Cardinality(dropped)
  <2> SUFFICES ASSUME DeliveryIInv, Counts!CountsInv
               PROVE  eventsShipped = Cardinality(shipped) /\ eventsDropped = Cardinality(dropped)
    OBVIOUS
  <2>1. /\ shipped \subseteq Submitted /\ dropped \subseteq Submitted
        /\ shipped \cap dropped = {} /\ Submitted \subseteq Events
    BY EndsAreSubmitted DEF DeliveryIInv, Submitted
  <2>2. Counts!Ended("shipped") = shipped
    BY <2>1 DEF Counts!Ended, status, StatusOf, Submitted
  <2>3. Counts!Ended("dropped") = dropped
    BY <2>1 DEF Counts!Ended, status, StatusOf, Submitted
  <2>4. \A S : Counts!Cardinality(S) = Cardinality(S)
    BY DEF Counts!Cardinality, Cardinality
  <2> QED
    BY <2>2, <2>3, <2>4 DEF Counts!CountsInv, Counts!CountsExact
<1> QED
  BY <1>1, <1>2, <1>3, DeliveryInvariant, PTL DEF Spec

Flushing == main \in {"flushing", "stopped"}
NothingShips == UNCHANGED <<received, shipped, eventsShipped>>

\* Once flushBuffer has begun the collector gets nothing any more and nothing is
\* counted as shipped, with any collector: the context is cancelled, so flushing
\* can only move events back into the buffer or drop them.
THEOREM FlushShipsNothing ==
  Spec => [][Flushing => NothingShips]_vars
<1>1. DeliveryIInv /\ [Next]_vars => [Flushing => NothingShips]_vars
  <2> SUFFICES ASSUME DeliveryIInv, Next, Flushing
               PROVE  NothingShips
    OBVIOUS
  <2> USE DEF Flushing, NothingShips
  <2>1. pc # "wire"
    BY DEF DeliveryIInv, PhaseInv
  <2>2. CASE Handlers
    BY <2>2 DEF Handlers, SendEvent, SendOverflow, BufferAdd
  <2>3. CASE Receive \/ Leave \/ Tick \/ DrainBuffer \/ FlushNext
    BY <2>3 DEF Receive, Leave, Tick, DrainBuffer, FlushNext
  <2>4. CASE Gate \/ BeginPost \/ CoolDown
    BY <2>4 DEF Gate, BeginPost, CoolDown, AttemptFailed, GiveUp
  <2>5. ASSUME NEW outcome \in Outcomes, EndPost(outcome)
        PROVE  FALSE
    BY <2>1, <2>5 DEF EndPost
  <2>6. CASE Requeue
    BY <2>6 DEF Requeue, BufferAdd
  <2>7. CASE Stop
    BY <2>7 DEF Stop, Cancel, CloseChan, WorkerDone, Timeout
  <2> QED
    BY <2>2, <2>3, <2>4, <2>5, <2>6, <2>7 DEF Next, Worker, Shipping
<1> QED
  BY <1>1, DeliveryInvariant, PTL DEF Spec
=============================================================================
