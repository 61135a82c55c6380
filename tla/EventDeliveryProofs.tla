------------------------ MODULE EventDeliveryProofs ------------------------
(***************************************************************************)
(* What every system that implements EventDelivery may rely on, for any    *)
(* set of events and any batch size: the two counters are exact, and an    *)
(* event that has ended stays as it is.  DeliveryProofs uses it for        *)
(* LogShipper, ForwardAuthProofs for what ForwardAuth sees of it.          *)
(***************************************************************************)
EXTENDS EventDelivery, FiniteSetTheorems, TLAPS

\* Exact counters are not inductive by themselves: Cardinality says nothing of
\* sets that are not finite.

CountsInv ==
  /\ CountsExact /\ DOMAIN status = Events
  /\ IsFiniteSet(Ended("shipped")) /\ IsFiniteSet(Ended("dropped"))

LEMMA CountsInit == Init => CountsInv
<1> SUFFICES ASSUME Init
             PROVE  CountsInv
  OBVIOUS
<1>1. Ended("shipped") = {} /\ Ended("dropped") = {}
  BY DEF Init, Ended
<1> QED
  BY <1>1, FS_EmptySet DEF Init, CountsInv, CountsExact

\* A batch is counted whole, and none of it has been counted before.
LEMMA ShipCounts ==
  ASSUME CountsInv, NEW S \in SUBSET Events, Ship(S)
  PROVE  CountsInv'
<1> DEFINE T == Ended("shipped")
<1>1. Ended("shipped")' = T \cup S /\ Ended("dropped")' = Ended("dropped")
  BY DEF Ship, Ended
<1>2. T \cap S = {} /\ IsFiniteSet(S) /\ IsFiniteSet(T)
  BY DEF Ship, Ended, CountsInv
<1>3. eventsShipped = Cardinality(T) /\ eventsShipped' = eventsShipped + Cardinality(S)
  BY DEF Ship, CountsInv, CountsExact
<1>4. /\ IsFiniteSet(Ended("dropped")) /\ eventsDropped' = Cardinality(Ended("dropped"))
      /\ DOMAIN status' = Events
  BY DEF Ship, CountsInv, CountsExact
<1> HIDE DEF T
<1>5. IsFiniteSet(T \cup S) /\ Cardinality(T \cup S) = Cardinality(T) + Cardinality(S)
  <2>1. Cardinality(T \cap S) = 0
    BY <1>2, FS_EmptySet
  <2>2. Cardinality(T) \in Nat /\ Cardinality(S) \in Nat
    BY <1>2, FS_CardinalityType
  <2>3. /\ IsFiniteSet(T \cup S)
        /\ Cardinality(T \cup S) = Cardinality(T) + Cardinality(S) - Cardinality(T \cap S)
    BY <1>2, FS_Union
  <2> QED
    BY <2>1, <2>2, <2>3
<1> QED
  BY <1>1, <1>3, <1>4, <1>5 DEF CountsInv, CountsExact

LEMMA DropCounts ==
  ASSUME CountsInv, NEW e \in Events, Drop(e)
  PROVE  CountsInv'
<1> DEFINE T == Ended("dropped")
<1>1. Ended("dropped")' = T \cup {e} /\ Ended("shipped")' = Ended("shipped") /\ e \notin T
  BY DEF Drop, Ended, CountsInv
<1>2. eventsDropped = Cardinality(T) /\ eventsDropped' = eventsDropped + 1 /\ IsFiniteSet(T)
  BY DEF Drop, CountsInv, CountsExact
<1>3. /\ IsFiniteSet(Ended("shipped")) /\ eventsShipped' = Cardinality(Ended("shipped"))
      /\ DOMAIN status' = Events
  BY DEF Drop, CountsInv, CountsExact
<1> HIDE DEF T
<1>4. IsFiniteSet(T \cup {e}) /\ Cardinality(T \cup {e}) = Cardinality(T) + 1
  BY <1>1, <1>2, FS_AddElement
<1> QED
  BY <1>1, <1>2, <1>3, <1>4 DEF CountsInv, CountsExact

LEMMA CountsStep == CountsInv /\ [Next]_vars => CountsInv'
<1> SUFFICES ASSUME CountsInv, [Next]_vars
             PROVE  CountsInv'
  OBVIOUS
<1>1. ASSUME NEW e \in Events, Accept(e) \/ Reject(e)
      PROVE  CountsInv'
  <2>1. /\ UNCHANGED <<eventsShipped, eventsDropped>> /\ DOMAIN status' = Events
        /\ Ended("shipped")' = Ended("shipped") /\ Ended("dropped")' = Ended("dropped")
    BY <1>1 DEF Accept, Reject, Ended, CountsInv
  <2> QED
    BY <2>1 DEF CountsInv, CountsExact
<1>2. ASSUME NEW e \in Events, Drop(e)
      PROVE  CountsInv'
  BY <1>2, DropCounts
<1>3. ASSUME NEW S \in SUBSET Events, Ship(S)
      PROVE  CountsInv'
  BY <1>3, ShipCounts
<1>4. CASE UNCHANGED vars
  BY <1>4 DEF vars, CountsInv, CountsExact, Ended
<1> QED
  BY <1>1, <1>2, <1>3, <1>4 DEF Next

\* CountsExact: EventsShipped and EventsDropped (ShipperMetrics) are exact,
\* however shipped batches and single drops follow each other.
THEOREM CountersTell == Spec => []CountsExact
<1>1. CountsInv => CountsExact
  BY DEF CountsInv
<1> QED
  BY <1>1, CountsInit, CountsStep, PTL DEF Spec

\* EndsAreFinal: no event that was shipped, dropped or turned away is ever
\* anything else; no retry or requeue brings it back.
THEOREM EndsStay == Spec => EndsAreFinal
<1>1. [Next]_vars /\ DOMAIN status = Events =>
        [\A how \in {"shipped", "dropped", "rejected"} : Ended(how) \subseteq Ended(how)']_vars
  BY DEF Next, Accept, Reject, Drop, Ship, Ended, vars
<1>2. CountsInv => DOMAIN status = Events
  BY DEF CountsInv
<1> QED
  BY <1>1, <1>2, CountsInit, CountsStep, PTL DEF Spec, EndsAreFinal
=============================================================================
