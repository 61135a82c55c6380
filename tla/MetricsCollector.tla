-------------------------- MODULE MetricsCollector --------------------------
(***************************************************************************)
(* logs/metrics.go: now and then the collector passes what the counters of *)
(* the shipper have grown by on to Prometheus.  It loads each counter      *)
(* twice, once for the difference and, after all the differences, once     *)
(* more to remember it; the shipper counts on in between.  What is counted *)
(* between the two loads is never reported.                                *)
(***************************************************************************)
EXTENDS Integers

CONSTANT Counters    \* 1 .. n: ShipperMetrics, in the order of updateMetrics

VARIABLES
  counter,    \* ShipperMetrics, written by the shipper
  collector,  \* collectMetrics: "select", "adding", "storing" or "returned"
  next,       \* the counter updateMetrics is at
  last,       \* lastEventsShipped, lastEventsDropped and so on
  reported    \* the counters that Prometheus reads

Init ==
  /\ collector = "select" /\ next = 1
  /\ last = [c \in Counters |-> 0]
  /\ reported = [c \in Counters |-> 0]

\* One case of the select: the ticker.
Collect ==
  /\ collector = "select"
  /\ collector' = "adding" /\ next' = 1
  /\ UNCHANGED <<last, reported>>

\* The other: mc.ctx is done.
Return(cancelled) ==
  /\ collector = "select" /\ cancelled
  /\ collector' = "returned"
  /\ UNCHANGED <<next, last, reported>>

\* Mutation: the end of the list is tested before the step, not after it.
AdvancePast(then) ==
  \/ next \in Counters /\ next' = next + 1 /\ UNCHANGED collector
  \/ next \notin Counters /\ next' = 1 /\ collector' = then

\* Mutation: collectMetrics without its loop.
AdvanceOnce(then) ==
  \/ next + 1 \in Counters /\ next' = next + 1 /\ UNCHANGED collector
  \/ /\ next + 1 \notin Counters /\ next' = 1
     /\ collector' = IF then = "select" THEN "returned" ELSE then

\* On to the following counter, or to `then` after the last one.
Advance(then) ==
  \/ next + 1 \in Counters /\ next' = next + 1 /\ UNCHANGED collector
  \/ next + 1 \notin Counters /\ next' = 1 /\ collector' = then

AddDifference ==
  /\ collector = "adding"
  /\ reported' = [reported EXCEPT ![next] = @ + (counter[next] - last[next])]
  /\ Advance("storing")
  /\ UNCHANGED last

\* Mutation: the value reported is remembered, not the value counted so far.
StoreDifference ==
  /\ collector = "storing"
  /\ last' = [last EXCEPT ![next] = counter[next] - last[next]]
  /\ Advance("select")
  /\ UNCHANGED reported

StoreLast ==
  /\ collector = "storing"
  /\ last' = [last EXCEPT ![next] = counter[next]]
  /\ Advance("select")
  /\ UNCHANGED reported

Update == AddDifference \/ StoreLast

-----------------------------------------------------------------------------
TypeOK ==
  /\ collector \in {"select", "adding", "storing", "returned"}
  /\ next \in Counters
  /\ last \in [Counters -> Nat] /\ reported \in [Counters -> Nat]
=============================================================================
