------------------------- MODULE LogShipperProofs -------------------------
(***************************************************************************)
(* For every number of events and every capacity, batch size, retry limit  *)
(* and threshold: type correctness, the circuit breaker, the bound on the  *)
(* POSTs to a failing collector, and that nothing is counted as shipped    *)
(* that the collector has not taken.                                       *)
(*                                                                         *)
(* Each part of TypeOK has a lemma of its own, with one step for each      *)
(* action or group of actions that bears on it.  failureCount stays within *)
(* the threshold only because the breaker lets no batch through at it, so  *)
(* the counters are inductive together with BreakerInv.                    *)
(***************************************************************************)
EXTENDS LogShipper, TLAPS

USE ShipperAssumption
USE DEF chanVars, shipVars, breakerVars, mainVars, metricVars

-----------------------------------------------------------------------------
(* Bounded sequences of events.                                            *)

LEMMA EmptyFits ==
  ASSUME NEW n \in Nat
  PROVE  << >> \in SeqUpTo(n)
BY DEF SeqUpTo

LEMMA AppendFits ==
  ASSUME NEW n \in Nat, NEW m \in Nat, NEW s \in SeqUpTo(n), NEW e \in Events, Len(s) < m
  PROVE  Append(s, e) \in SeqUpTo(m)
BY DEF SeqUpTo

LEMMA FirstFits ==
  ASSUME NEW n \in Nat, NEW s \in SeqUpTo(n), s # << >>
  PROVE  Head(s) \in Events /\ Tail(s) \in SeqUpTo(n)
BY DEF SeqUpTo

\* The two parts in which processBufferedEvents and flushBuffer cut a queue.
LEMMA ChunkFits ==
  ASSUME NEW n \in Nat, NEW s \in SeqUpTo(n)
  PROVE  /\ SubSeq(s, 1, ChunkSize(s)) \in SeqUpTo(BatchSize)
         /\ SubSeq(s, ChunkSize(s) + 1, Len(s)) \in SeqUpTo(n)
<1>1. s \in Seq(Events) /\ Len(s) <= n
  BY DEF SeqUpTo
<1>2. ChunkSize(s) \in 0 .. Len(s) /\ ChunkSize(s) <= BatchSize
  BY <1>1 DEF ChunkSize
<1>3. ASSUME NEW k \in 0 .. Len(s)
      PROVE  /\ SubSeq(s, 1, k) \in Seq(Events) /\ Len(SubSeq(s, 1, k)) = k
             /\ SubSeq(s, k + 1, Len(s)) \in Seq(Events)
             /\ Len(SubSeq(s, k + 1, Len(s))) = Len(s) - k
  BY <1>1
<1> QED
  BY <1>1, <1>2, <1>3 DEF SeqUpTo

LEMMA BatchType ==
  ASSUME NEW n \in Nat, NEW s \in SeqUpTo(n)
  PROVE  Range(s) \subseteq Events /\ Len(s) \in Nat
BY DEF Range, SeqUpTo

-----------------------------------------------------------------------------
(* The parts of TypeOK.                                                    *)

LEMMA ControlStep == ControlOK /\ [Next]_vars => ControlOK'
<1> SUFFICES ASSUME ControlOK, [Next]_vars
             PROVE  ControlOK'
  OBVIOUS
<1> USE DEF ControlOK
<1>1. CASE Handlers
  BY <1>1 DEF Handlers, SendEvent, SendOverflow
<1>2. CASE Receive \/ DrainBuffer \/ Gate \/ Requeue
  BY <1>2 DEF Receive, DrainBuffer, Gate, Requeue, CallShip, Return
<1>3. CASE Leave \/ Tick
  BY <1>3 DEF Leave, Tick, ShipCollected, CallShip
<1>4. CASE BeginPost
  BY <1>4 DEF BeginPost, AttemptFailed, GiveUp
<1>5. ASSUME NEW outcome \in Outcomes, EndPost(outcome)
      PROVE  ControlOK'
  BY <1>5 DEF EndPost, AttemptFailed, GiveUp, CountShipped, Return
<1>6. CASE CoolDown \/ Stop \/ FlushNext
  BY <1>6 DEF CoolDown, Stop, Cancel, CloseChan, WorkerDone, Timeout, FlushNext, CallShip
<1>7. CASE UNCHANGED vars
  BY <1>7 DEF vars
<1> QED
  BY <1>1, <1>2, <1>3, <1>4, <1>5, <1>6, <1>7 DEF Next, Worker, Shipping

LEMMA FlagsStep == FlagsOK /\ [Next]_vars => FlagsOK'
<1> SUFFICES ASSUME FlagsOK, [Next]_vars
             PROVE  FlagsOK'
  OBVIOUS
<1> USE DEF FlagsOK
<1>1. CASE Handlers
  BY <1>1 DEF Handlers, SendEvent, SendOverflow
<1>2. CASE Receive \/ Leave \/ Tick \/ DrainBuffer \/ Requeue \/ FlushNext
  BY <1>2 DEF Receive, Leave, Tick, DrainBuffer, Requeue, FlushNext
<1>3. CASE Gate
  BY <1>3 DEF Gate
<1>4. ASSUME AttemptFailed
      PROVE  circuitOpen' \in BOOLEAN /\ cooled' \in BOOLEAN
  BY <1>4 DEF AttemptFailed, GiveUp, RecordFailure
<1>5. CASE BeginPost
  BY <1>5, <1>4 DEF BeginPost
<1>6. ASSUME NEW outcome \in Outcomes, EndPost(outcome)
      PROVE  FlagsOK'
  BY <1>6, <1>4 DEF EndPost, RecordSuccess
<1>7. CASE CoolDown
  BY <1>7 DEF CoolDown
<1>8. CASE Stop
  BY <1>8 DEF Stop, Cancel, CloseChan, WorkerDone, Timeout
<1>9. CASE UNCHANGED vars
  BY <1>9 DEF vars
<1> QED
  BY <1>1, <1>2, <1>3, <1>5, <1>6, <1>7, <1>8, <1>9 DEF Next, Worker, Shipping

LEMMA BufferAddFits ==
  ASSUME QueuesOK, NEW e \in Events, BufferAdd(e)
  PROVE  buffer' \in SeqUpTo(BufferSize)
BY AppendFits DEF QueuesOK, BufferAdd

LEMMA QueuesStep == QueuesOK /\ [Next]_vars => QueuesOK'
<1> SUFFICES ASSUME QueuesOK, [Next]_vars
             PROVE  QueuesOK'
  OBVIOUS
<1> USE DEF QueuesOK
<1>0. << >> \in SeqUpTo(BatchSize - 1) /\ << >> \in SeqUpTo(BatchSize)
      /\ << >> \in SeqUpTo(BufferSize)
  BY EmptyFits
<1>1. ASSUME NEW e \in Events, SendEvent(e)
      PROVE  QueuesOK'
  <2>1. \/ UNCHANGED eventChan
        \/ Len(eventChan) < ChanCap /\ eventChan' = Append(eventChan, e)
    BY <1>1 DEF SendEvent
  <2>2. Len(eventChan) < ChanCap => Append(eventChan, e) \in SeqUpTo(ChanCap)
    BY AppendFits
  <2>3. eventChan' \in SeqUpTo(ChanCap)
    BY <2>1, <2>2
  <2> QED
    BY <1>1, <2>3 DEF SendEvent
<1>2. ASSUME NEW e \in Events, SendOverflow(e)
      PROVE  QueuesOK'
  BY <1>2, BufferAddFits DEF SendOverflow
<1>3. CASE Receive
  <2> DEFINE grown == Append(batch, Head(eventChan))
  <2>1. Head(eventChan) \in Events /\ eventChan' \in SeqUpTo(ChanCap)
    BY <1>3, FirstFits DEF Receive
  <2>2. grown \in SeqUpTo(BatchSize) /\ (~BatchFull(grown) => grown \in SeqUpTo(BatchSize - 1))
    BY <2>1 DEF SeqUpTo, BatchFull
  <2> QED
    BY <1>0, <1>3, <2>1, <2>2 DEF Receive, CallShip
<1>4. CASE Leave \/ Tick
  <2>1. batch \in SeqUpTo(BatchSize)
    BY DEF SeqUpTo
  <2> QED
    BY <1>0, <1>4, <2>1 DEF Leave, Tick, ShipCollected, CallShip
<1>5. CASE DrainBuffer
  BY <1>5, ChunkFits DEF DrainBuffer, CallShip
<1>6. CASE Gate \/ CoolDown \/ Cancel \/ CloseChan \/ Timeout
  BY <1>6 DEF Gate, CoolDown, Cancel, CloseChan, Timeout
<1>7. CASE BeginPost
  BY <1>7 DEF BeginPost, AttemptFailed, GiveUp
<1>8. ASSUME NEW outcome \in Outcomes, EndPost(outcome)
      PROVE  QueuesOK'
  BY <1>0, <1>8 DEF EndPost, AttemptFailed, GiveUp, Return
<1>9. CASE Requeue
  <2>1. CASE shipping # << >>
    BY <1>9, <2>1, FirstFits, BufferAddFits DEF Requeue
  <2>2. CASE shipping = << >>
    BY <1>9, <2>2 DEF Requeue, Return
  <2> QED
    BY <2>1, <2>2
<1>10. CASE WorkerDone
  BY <1>0, <1>10 DEF WorkerDone
<1>11. CASE FlushNext
  BY <1>11, ChunkFits DEF FlushNext, CallShip
<1>12. CASE UNCHANGED vars
  BY <1>12 DEF vars
<1> QED
  BY <1>1, <1>2, <1>3, <1>4, <1>5, <1>6, <1>7, <1>8, <1>9, <1>10, <1>11, <1>12
     DEF Next, Handlers, Worker, Shipping, Stop

LEMMA HistoryStep == HistoryOK /\ QueuesOK /\ [Next]_vars => HistoryOK'
<1> SUFFICES ASSUME HistoryOK, QueuesOK, [Next]_vars
             PROVE  HistoryOK'
  OBVIOUS
<1> USE DEF HistoryOK
<1>1. Range(shipping) \subseteq Events /\ (shipping # << >> => Head(shipping) \in Events)
  BY BatchType, FirstFits DEF QueuesOK
<1>2. CASE Handlers
  BY <1>2 DEF Handlers, SendEvent, SendOverflow, BufferAdd
<1>3. CASE Receive \/ Leave \/ Tick \/ DrainBuffer \/ Gate \/ FlushNext \/ CoolDown
  BY <1>3 DEF Receive, Leave, Tick, DrainBuffer, Gate, FlushNext, CoolDown
<1>4. CASE BeginPost
  BY <1>4 DEF BeginPost, AttemptFailed, GiveUp
<1>5. ASSUME NEW outcome \in Outcomes, EndPost(outcome)
      PROVE  HistoryOK'
  BY <1>1, <1>5 DEF EndPost, AttemptFailed, GiveUp, CountShipped
<1>6. CASE Requeue
  BY <1>1, <1>6 DEF Requeue, BufferAdd
<1>7. CASE Stop
  BY <1>7 DEF Stop, Cancel, CloseChan, WorkerDone, Timeout
<1>8. CASE UNCHANGED vars
  BY <1>8 DEF vars
<1> QED
  BY <1>2, <1>3, <1>4, <1>5, <1>6, <1>7, <1>8 DEF Next, Worker, Shipping

-----------------------------------------------------------------------------
(* The circuit breaker and its counters.                                   *)

\* The failed POSTs so far: MaxRetries for each failure in a row, and those of
\* the batch under way.
FailedInv ==
  failedPosts <= failureCount * MaxRetries
                   + (IF pc \in {"post", "wire"} THEN attempt - 1 ELSE 0)

\* The counters, the breaker and the failed POSTs, as one inductive invariant.
BreakerIInv == CountersOK /\ BreakerInv /\ FailedInv

LEMMA OneMoreFailure ==
  ASSUME NEW n \in Nat
  PROVE  /\ n * MaxRetries \in Nat
         /\ (n + 1) * MaxRetries = n * MaxRetries + MaxRetries
OBVIOUS

LEMMA FailureBound ==
  ASSUME NEW n \in 0 .. FailureThreshold
  PROVE  /\ n * MaxRetries <= FailureThreshold * MaxRetries
         /\ n # FailureThreshold =>
              n * MaxRetries + MaxRetries <= FailureThreshold * MaxRetries
OBVIOUS

LEMMA AttemptFailedStep ==
  ASSUME BreakerIInv, FlagsOK, pc \in {"post", "wire"}, AttemptFailed
  PROVE  BreakerIInv'
<1> USE DEF BreakerIInv, CountersOK
<1>1. ~circuitOpen /\ ~cooled /\ attempt \in 1 .. MaxRetries
  BY DEF BreakerInv
<1>2. failureCount \in 0 .. FailureThreshold - 1
  BY <1>1 DEF BreakerInv
<1>3. CASE RetriesLeft
  <2>1. failedPosts' = failedPosts + 1 /\ attempt' = attempt + 1 /\ pc' = "post"
        /\ UNCHANGED <<failureCount, circuitOpen, cooled, eventsShipped, eventsDropped>>
        /\ attempt < MaxRetries
    BY <1>3 DEF AttemptFailed, RetriesLeft
  <2>2. CountersOK' /\ BreakerInv'
    BY <1>1, <1>2, <2>1 DEF BreakerInv
  <2>3. FailedInv'
    BY <1>1, <1>2, <2>1, OneMoreFailure DEF FailedInv
  <2> QED
    BY <2>2, <2>3
<1>4. CASE ~RetriesLeft
  <2>1. /\ failedPosts' = failedPosts + 1 /\ pc' = "requeue"
        /\ RecordFailure
        /\ UNCHANGED <<attempt, eventsShipped, eventsDropped>>
        /\ attempt = MaxRetries
    BY <1>1, <1>4 DEF AttemptFailed, GiveUp, RetriesLeft
  <2>2. CountersOK'
    BY <1>1, <1>2, <2>1 DEF RecordFailure
  <2>3. circuitOpen' <=> failureCount' >= FailureThreshold
    BY <1>1, <2>1 DEF RecordFailure
  <2>4. BreakerInv'
    BY <1>2, <2>1, <2>2, <2>3 DEF BreakerInv, RecordFailure
  <2>5. FailedInv'
    BY <1>1, <1>2, <2>1, OneMoreFailure DEF FailedInv, RecordFailure
  <2> QED
    BY <2>2, <2>4, <2>5
<1> QED
  BY <1>3, <1>4

LEMMA BreakerStep == BreakerIInv /\ ControlOK /\ FlagsOK /\ QueuesOK /\ [Next]_vars => BreakerIInv'
<1> SUFFICES ASSUME BreakerIInv, ControlOK, FlagsOK, QueuesOK, [Next]_vars
             PROVE  BreakerIInv'
  OBVIOUS
<1> USE DEF BreakerIInv
<1>1. ASSUME NEW e \in Events, SendEvent(e) \/ SendOverflow(e)
      PROVE  BreakerIInv'
  BY <1>1 DEF SendEvent, SendOverflow, BufferAdd, CountersOK, BreakerInv, FailedInv
<1>2. CASE Receive \/ DrainBuffer
  BY <1>2 DEF Receive, DrainBuffer, CallShip, CountersOK, BreakerInv, FailedInv
<1>3. CASE Leave \/ Tick
  BY <1>3 DEF Leave, Tick, ShipCollected, CallShip, CountersOK, BreakerInv, FailedInv
<1>4. CASE Gate
  <2>1. CASE circuitOpen /\ ~cooled
    BY <1>4, <2>1 DEF Gate, CountersOK, BreakerInv, FailedInv
  <2>2. CASE circuitOpen /\ cooled
    <3>1. /\ ~circuitOpen' /\ ~cooled' /\ failureCount' = 0 /\ failedPosts' = 0
          /\ \/ pc' = "post" /\ attempt' = 1
             \/ pc' = "requeue" /\ attempt' = attempt
          /\ UNCHANGED <<eventsShipped, eventsDropped>>
      BY <1>4, <2>2 DEF Gate, CircuitCooled
    <3> QED
      BY <3>1, OneMoreFailure DEF CountersOK, BreakerInv, FailedInv
  <2>3. CASE ~circuitOpen
    <3>1. /\ ~circuitOpen' /\ ~cooled'
          /\ \/ pc' = "post" /\ attempt' = 1
             \/ pc' = "requeue" /\ attempt' = attempt
          /\ UNCHANGED <<failureCount, failedPosts, eventsShipped, eventsDropped>>
          /\ pc = "gate"
      BY <1>4, <2>3 DEF Gate, CircuitCooled
    <3> QED
      BY <2>3, <3>1, OneMoreFailure DEF CountersOK, BreakerInv, FailedInv
  <2> QED
    BY <2>1, <2>2, <2>3
<1>5. CASE BeginPost
  <2>1. CASE cancelled /\ AttemptFailed
    BY <1>5, <2>1, AttemptFailedStep DEF BeginPost
  <2>2. CASE ~(cancelled /\ AttemptFailed)
    BY <1>5, <2>2 DEF BeginPost, CountersOK, BreakerInv, FailedInv
  <2> QED
    BY <2>1, <2>2
<1>6. ASSUME NEW outcome \in Outcomes, EndPost(outcome)
      PROVE  BreakerIInv'
  <2>1. CASE outcome # "accepted"
    BY <1>6, <2>1, AttemptFailedStep DEF EndPost
  <2>2. CASE outcome = "accepted"
    <3>1. /\ failureCount' = 0 /\ failedPosts' = 0 /\ ~circuitOpen' /\ ~cooled'
          /\ attempt' = 0 /\ pc' = return
          /\ eventsShipped' = eventsShipped + Len(shipping) /\ UNCHANGED eventsDropped
      BY <1>6, <2>2 DEF EndPost, RecordSuccess, CountShipped, Return
    <3>2. Len(shipping) \in Nat
      BY BatchType DEF QueuesOK
    <3>3. return \notin {"post", "wire"}
      BY DEF ControlOK
    <3> QED
      BY <3>1, <3>2, <3>3, OneMoreFailure DEF CountersOK, BreakerInv, FailedInv
  <2> QED
    BY <2>1, <2>2
<1>7. CASE Requeue
  <2>1. pc \notin {"post", "wire"} /\ pc' \notin {"post", "wire"}
    BY <1>7 DEF Requeue, Return, ControlOK
  <2>2. attempt' = attempt \/ attempt' = 0
    BY <1>7 DEF Requeue, Return
  <2>3. UNCHANGED <<failureCount, circuitOpen, cooled, failedPosts>>
    BY <1>7 DEF Requeue
  <2>4. eventsShipped' = eventsShipped
        /\ (eventsDropped' = eventsDropped \/ eventsDropped' = eventsDropped + 1)
    BY <1>7 DEF Requeue, BufferAdd
  <2>5. CountersOK'
    BY <2>2, <2>3, <2>4 DEF CountersOK
  <2>6. BreakerInv'
    BY <2>1, <2>3 DEF BreakerInv
  <2>7. FailedInv'
    BY <2>1, <2>3 DEF FailedInv
  <2> QED
    BY <2>5, <2>6, <2>7
<1>8. CASE CoolDown
  BY <1>8 DEF CoolDown, CountersOK, BreakerInv, FailedInv
<1>9. CASE Stop
  BY <1>9 DEF Stop, Cancel, CloseChan, WorkerDone, Timeout, CountersOK, BreakerInv, FailedInv
<1>10. CASE FlushNext
  BY <1>10 DEF FlushNext, CallShip, CountersOK, BreakerInv, FailedInv
<1>11. CASE UNCHANGED vars
  BY <1>11 DEF vars, CountersOK, BreakerInv, FailedInv
<1> QED
  BY <1>1, <1>2, <1>3, <1>4, <1>5, <1>6, <1>7, <1>8, <1>9, <1>10, <1>11
     DEF Next, Handlers, Worker, Shipping

-----------------------------------------------------------------------------
(* The theorems.                                                           *)

ShipperIInv == TypeOK /\ BreakerIInv

LEMMA ShipperInit == Init => ShipperIInv
<1> SUFFICES ASSUME Init
             PROVE  ShipperIInv
  OBVIOUS
<1>1. ControlOK
  BY DEF Init, ControlOK
<1>2. FlagsOK
  BY DEF Init, FlagsOK
<1>3. QueuesOK
  BY EmptyFits DEF Init, QueuesOK
<1>4. HistoryOK
  BY DEF Init, HistoryOK
<1>5. BreakerIInv
  BY OneMoreFailure DEF Init, BreakerIInv, CountersOK, BreakerInv, FailedInv
<1> QED
  BY <1>1, <1>2, <1>3, <1>4, <1>5 DEF ShipperIInv, TypeOK, BreakerIInv

LEMMA ShipperStep == ShipperIInv /\ [Next]_vars => ShipperIInv'
BY ControlStep, FlagsStep, QueuesStep, HistoryStep, BreakerStep
   DEF ShipperIInv, TypeOK, BreakerIInv

LEMMA ShipperInvariant == Spec => []ShipperIInv
BY ShipperInit, ShipperStep, PTL DEF Spec

\* Every variable keeps its type: the channel, the overflow buffer and the
\* batches stay within their capacities, and the failure counter of the
\* breaker within its threshold.
THEOREM TypeCorrect == Spec => []TypeOK
<1>1. ShipperIInv => TypeOK
  BY DEF ShipperIInv
<1> QED
  BY <1>1, ShipperInvariant, PTL

\* The breaker is open exactly at the threshold, and no POST of
\* sendWithRetry is under way, or about to start, while it is open.
THEOREM BreakerCorrect == Spec => []BreakerInv
<1>1. ShipperIInv => BreakerInv
  BY DEF ShipperIInv, BreakerIInv
<1> QED
  BY <1>1, ShipperInvariant, PTL

\* A failing collector gets at most FailureThreshold * MaxRetries POSTs before
\* a success or a full circuitBreakerTimeout.
THEOREM FailuresBounded == Spec => []BoundedFailures
<1>1. ShipperIInv => BoundedFailures
  <2> SUFFICES ASSUME ShipperIInv
               PROVE  BoundedFailures
    OBVIOUS
  <2> USE DEF ShipperIInv, BreakerIInv
  <2>1. CASE pc \in {"post", "wire"}
    <3>1. attempt <= MaxRetries /\ failureCount # FailureThreshold
      BY <2>1 DEF BreakerInv
    <3>2. failureCount * MaxRetries + MaxRetries <= FailureThreshold * MaxRetries
      BY <3>1, FailureBound DEF CountersOK
    <3>3. failedPosts <= failureCount * MaxRetries + (attempt - 1)
      BY <2>1 DEF FailedInv
    <3>4. failureCount * MaxRetries \in Nat /\ FailureThreshold * MaxRetries \in Nat
      BY OneMoreFailure DEF CountersOK
    <3> QED
      BY <3>1, <3>2, <3>3, <3>4 DEF BoundedFailures, CountersOK
  <2>2. CASE pc \notin {"post", "wire"}
    <3>1. failureCount * MaxRetries \in Nat /\ FailureThreshold * MaxRetries \in Nat
      BY OneMoreFailure DEF CountersOK
    <3> QED
      BY <2>2, <3>1, FailureBound DEF BoundedFailures, CountersOK, FailedInv
  <2> QED
    BY <2>1, <2>2
<1> QED
  BY <1>1, ShipperInvariant, PTL

\* EventsShipped counts only events the collector has taken: through every
\* retry, lost answer, cut-off request and requeue.
THEOREM ShippedReceived == Spec => []ShippedWasReceived
<1>1. Init => ShippedWasReceived
  BY DEF Init, ShippedWasReceived
<1>2. ShippedWasReceived /\ [Next]_vars => ShippedWasReceived'
  <2> SUFFICES ASSUME ShippedWasReceived, [Next]_vars
               PROVE  ShippedWasReceived'
    OBVIOUS
  <2> USE DEF ShippedWasReceived
  <2>1. CASE Handlers
    BY <2>1 DEF Handlers, SendEvent, SendOverflow, BufferAdd
  <2>2. CASE Receive \/ Leave \/ Tick \/ DrainBuffer \/ Gate \/ FlushNext \/ CoolDown
    BY <2>2 DEF Receive, Leave, Tick, DrainBuffer, Gate, FlushNext, CoolDown
  <2>3. CASE BeginPost
    BY <2>3 DEF BeginPost, AttemptFailed, GiveUp
  <2>4. ASSUME NEW outcome \in Outcomes, EndPost(outcome)
        PROVE  ShippedWasReceived'
    BY <2>4 DEF EndPost, AttemptFailed, GiveUp, CountShipped
  <2>5. CASE Requeue
    BY <2>5 DEF Requeue, BufferAdd
  <2>6. CASE Stop
    BY <2>6 DEF Stop, Cancel, CloseChan, WorkerDone, Timeout
  <2>7. CASE UNCHANGED vars
    BY <2>7 DEF vars
  <2> QED
    BY <2>1, <2>2, <2>3, <2>4, <2>5, <2>6, <2>7 DEF Next, Worker, Shipping
<1> QED
  BY <1>1, <1>2, PTL DEF Spec
=============================================================================
