--------------------------- MODULE EventDelivery ---------------------------
(***************************************************************************)
(* What the log shipper promises about every access event, whatever the    *)
(* collector, the rate limiter and the breaker do: an event handed over is *)
(* pending until it is shipped or dropped, never both and never twice; a   *)
(* batch ships whole; and the two published counters count exactly these   *)
(* two ends.  LogShipper implements this module.                           *)
(***************************************************************************)
EXTENDS Naturals, FiniteSets

CONSTANTS Events, BatchSize

VARIABLES
  status,                        \* what has become of each event
  eventsShipped, eventsDropped   \* the published counters

vars == <<status, eventsShipped, eventsDropped>>

Statuses == {"new", "pending", "shipped", "dropped", "rejected"}

Init ==
  /\ status = [e \in Events |-> "new"]
  /\ eventsShipped = 0
  /\ eventsDropped = 0

Accept(e) ==
  /\ status[e] = "new"
  /\ status' = [status EXCEPT ![e] = "pending"]
  /\ UNCHANGED <<eventsShipped, eventsDropped>>

\* After the shipper has been stopped an event is turned away.
Reject(e) ==
  /\ status[e] = "new"
  /\ status' = [status EXCEPT ![e] = "rejected"]
  /\ UNCHANGED <<eventsShipped, eventsDropped>>

Drop(e) ==
  /\ status[e] = "pending"
  /\ status' = [status EXCEPT ![e] = "dropped"]
  /\ eventsDropped' = eventsDropped + 1
  /\ UNCHANGED eventsShipped

Ship(S) ==
  /\ S # {} /\ IsFiniteSet(S) /\ Cardinality(S) <= BatchSize
  /\ \A e \in S : status[e] = "pending"
  /\ status' = [e \in Events |-> IF e \in S THEN "shipped" ELSE status[e]]
  /\ eventsShipped' = eventsShipped + Cardinality(S)
  /\ UNCHANGED eventsDropped

Next ==
  \/ \E e \in Events : Accept(e) \/ Reject(e) \/ Drop(e)
  \/ \E S \in SUBSET Events : Ship(S)

Spec == Init /\ [][Next]_vars

-----------------------------------------------------------------------------
Ended(how) == {e \in Events : status[e] = how}

\* The published counters are the numbers of events that were shipped and that
\* were dropped.
CountsExact ==
  /\ eventsShipped = Cardinality(Ended("shipped"))
  /\ eventsDropped = Cardinality(Ended("dropped"))

\* What has been shipped, dropped or turned away stays so.
EndsAreFinal ==
  [][\A how \in {"shipped", "dropped", "rejected"} : Ended(how) \subseteq Ended(how)']_vars
=============================================================================
