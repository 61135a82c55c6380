----------------------------- MODULE LogShipper -----------------------------
(***************************************************************************)
(* logs/shipper.go: how access events travel from the request handlers to  *)
(* the log collector.                                                      *)
(*                                                                         *)
(*   handlers --SendEvent--> eventChan --processEvents--> batch --> POST   *)
(*                   \                                      |              *)
(*                    \---> buffer <---- requeue on failure-/              *)
(*                             \-- drained on every tick --> POST          *)
(*                                                                         *)
(* Goroutines: one per request (SendEvent), the worker started by Start    *)
(* (processEvents), and main, which calls Stop.  shipBatch runs on the     *)
(* worker and, once the worker has exited, on main (flushBuffer): never on *)
(* both, so one program counter, pc, serves the two.                       *)
(*                                                                         *)
(* Abstractions.  The clock: the flush ticker may fire, and the breaker    *)
(* timeout and the stop timeout may elapse, at any time.  The rate limiter *)
(* (LeakyBucket) answers either way.  The overflow buffer is the bounded   *)
(* queue that RingBuffer implements.  Encoding a batch cannot fail.        *)
(***************************************************************************)
EXTENDS Naturals, Sequences, FiniteSets, Functions

CONSTANTS
  Events,            \* the access events; each is sent at most once
  ChanCap,           \* capacity of eventChan (1000 in the code)
  BufferSize,        \* config.BufferSize
  BatchSize,         \* config.BatchSize
  MaxRetries,        \* maxRetries: POST attempts per batch
  FailureThreshold,  \* circuitBreakerThreshold
  PostOutcomes       \* what the collector may do with a POST, see EndPost

ASSUME ShipperAssumption ==
  /\ ChanCap \in Nat \ {0} /\ BufferSize \in Nat \ {0} /\ BatchSize \in Nat \ {0}
  /\ MaxRetries \in Nat \ {0} /\ FailureThreshold \in Nat \ {0}
  /\ PostOutcomes \subseteq {"accepted", "refused", "unacknowledged"}

VARIABLES
  sender,        \* the handler that sends e: "idle", "overflowing" between the full
                 \* channel and buffer.Add, "returned" or "panicked"
  eventChan, closed,             \* the channel and whether Stop has closed it
  buffer,                        \* the overflow buffer
  pc, batch,                     \* the goroutine running processEvents or flushBuffer
  shipping, attempt, return,     \* the call of shipBatch it is in, and where it returns
  failureCount, circuitOpen,     \* the circuit breaker
  cooled,                        \* circuitBreakerTimeout has elapsed since lastFailure
  main, cancelled, toFlush,      \* main inside Stop, s.ctx, flushBuffer's local events
  eventsShipped, eventsDropped,  \* ShipperMetrics
  shipped, dropped, received,    \* history: by the metrics, and by the collector
  failedPosts                    \* history: failed POSTs since a success or a cool-down

chanVars    == <<eventChan, closed>>
shipVars    == <<shipping, attempt, return>>
breakerVars == <<failureCount, circuitOpen, cooled, failedPosts>>
mainVars    == <<main, cancelled, toFlush>>
metricVars  == <<eventsShipped, eventsDropped, shipped, dropped>>
vars == <<sender, chanVars, buffer, pc, batch, shipVars, breakerVars, mainVars,
          metricVars, received>>

Init ==
  /\ sender = [e \in Events |-> "idle"]
  /\ eventChan = << >> /\ closed = FALSE
  /\ buffer = << >>
  /\ pc = "select" /\ batch = << >>
  /\ shipping = << >> /\ attempt = 0 /\ return = "select"
  /\ failureCount = 0 /\ circuitOpen = FALSE /\ cooled = FALSE /\ failedPosts = 0
  /\ main = "running" /\ cancelled = FALSE /\ toFlush = << >>
  /\ eventsShipped = 0 /\ eventsDropped = 0
  /\ shipped = {} /\ dropped = {} /\ received = {}

-----------------------------------------------------------------------------
(* The request handlers.                                                   *)

\* buffer.Add(e), counting the event as dropped when the buffer is full.
BufferAdd(e) ==
  \/ /\ Len(buffer) < BufferSize
     /\ buffer' = Append(buffer, e)
     /\ UNCHANGED metricVars
  \/ /\ Len(buffer) >= BufferSize
     /\ eventsDropped' = eventsDropped + 1
     /\ dropped' = dropped \cup {e}
     /\ UNCHANGED <<buffer, eventsShipped, shipped>>

\* The select of SendEvent.  Sending on a closed channel panics, default or not.
SendEvent(e) ==
  /\ sender[e] = "idle"
  /\ \/ /\ closed
        /\ sender' = [sender EXCEPT ![e] = "panicked"]
        /\ UNCHANGED eventChan
     \/ /\ ~closed /\ Len(eventChan) < ChanCap
        /\ eventChan' = Append(eventChan, e)
        /\ sender' = [sender EXCEPT ![e] = "returned"]
     \/ /\ ~closed /\ Len(eventChan) >= ChanCap
        /\ sender' = [sender EXCEPT ![e] = "overflowing"]
        /\ UNCHANGED eventChan
  /\ UNCHANGED <<closed, buffer, pc, batch, shipVars, breakerVars, mainVars, metricVars,
                 received>>

\* Its default case, after the channel was found full.
SendOverflow(e) ==
  /\ sender[e] = "overflowing"
  /\ BufferAdd(e)
  /\ sender' = [sender EXCEPT ![e] = "returned"]
  /\ UNCHANGED <<chanVars, pc, batch, shipVars, breakerVars, mainVars, received>>

-----------------------------------------------------------------------------
(* The worker: one action per case of the select in processEvents.         *)

\* Call shipBatch(events), to continue at `next` when it returns.
CallShip(events, next) ==
  /\ shipping' = events
  /\ return' = next
  /\ attempt' = 0
  /\ pc' = "gate"

BatchFullLate(b) == Len(b) > BatchSize    \* mutation: an off-by-one
BatchFull(b) == Len(b) >= BatchSize

Receive ==
  /\ pc = "select"
  /\ eventChan # << >>
  /\ eventChan' = Tail(eventChan)
  /\ LET grown == Append(batch, Head(eventChan)) IN
       \/ /\ BatchFull(grown)
          /\ CallShip(grown, "select")
          /\ batch' = << >>
       \/ /\ ~BatchFull(grown)
          /\ batch' = grown
          /\ UNCHANGED <<pc, shipVars>>
  /\ UNCHANGED <<sender, closed, buffer, breakerVars, mainVars, metricVars, received>>

\* Mutation: the shipped batch is not replaced by a new one.
ShipCollectedTwice(next) ==
  \/ batch # << >> /\ CallShip(batch, next) /\ UNCHANGED batch
  \/ batch = << >> /\ pc' = next /\ UNCHANGED <<batch, shipVars>>

\* if len(batch) > 0 { s.shipBatch(batch) }, then on to `next`.
ShipCollected(next) ==
  \/ batch # << >> /\ CallShip(batch, next) /\ batch' = << >>
  \/ batch = << >> /\ pc' = next /\ UNCHANGED <<batch, shipVars>>

\* Mutation: `break` where the code has `return` leaves the select only.
LeaveSelect ==
  /\ pc = "select"
  /\ cancelled \/ (closed /\ eventChan = << >>)
  /\ ShipCollected("select")
  /\ UNCHANGED <<sender, chanVars, buffer, breakerVars, mainVars, metricVars, received>>

\* Mutation: it leaves at once.
LeaveEmptyHanded ==
  /\ pc = "select"
  /\ cancelled \/ (closed /\ eventChan = << >>)
  /\ pc' = "exited"
  /\ UNCHANGED <<sender, chanVars, buffer, batch, shipVars, breakerVars, mainVars, metricVars,
                 received>>

\* s.ctx is done, or the closed channel has been emptied: ship what was
\* collected and leave.
Leave ==
  /\ pc = "select"
  /\ cancelled \/ (closed /\ eventChan = << >>)
  /\ ShipCollected("exited")
  /\ UNCHANGED <<sender, chanVars, buffer, breakerVars, mainVars, metricVars, received>>

\* Mutation: a tick that does not process the buffered events.
TickBatchOnly ==
  /\ pc = "select"
  /\ ShipCollected("select")
  /\ UNCHANGED <<sender, chanVars, buffer, breakerVars, mainVars, metricVars, received>>

Tick ==
  /\ pc = "select"
  /\ ShipCollected("drain")
  /\ UNCHANGED <<sender, chanVars, buffer, breakerVars, mainVars, metricVars, received>>

\* How many of `events` the next batch takes.
ChunkSize(events) == IF Len(events) < BatchSize THEN Len(events) ELSE BatchSize

\* processBufferedEvents, the second half of a tick.
DrainBuffer ==
  /\ pc = "drain"
  /\ \/ /\ buffer # << >>
        /\ LET n == ChunkSize(buffer) IN
             /\ CallShip(SubSeq(buffer, 1, n), "select")
             /\ buffer' = SubSeq(buffer, n + 1, Len(buffer))
     \/ /\ buffer = << >>
        /\ pc' = "select"
        /\ UNCHANGED <<buffer, shipVars>>
  /\ UNCHANGED <<sender, chanVars, batch, breakerVars, mainVars, metricVars, received>>

-----------------------------------------------------------------------------
(* shipBatch, whoever calls it.                                            *)

CircuitCooled == circuitOpen /\ cooled

\* The breaker and then the rate limiter: go on to POST, or give the events
\* back to the buffer.  An open breaker that has cooled down is closed here.
Gate ==
  /\ pc = "gate"
  /\ \/ /\ circuitOpen /\ ~cooled
        /\ pc' = "requeue"
        /\ UNCHANGED <<attempt, breakerVars>>
     \/ /\ ~circuitOpen \/ cooled
        /\ circuitOpen' = FALSE
        /\ failureCount' = IF CircuitCooled THEN 0 ELSE failureCount
        /\ failedPosts' = IF CircuitCooled THEN 0 ELSE failedPosts
        /\ cooled' = FALSE
        /\ \/ pc' = "post" /\ attempt' = 1
           \/ pc' = "requeue" /\ UNCHANGED attempt
  /\ UNCHANGED <<sender, chanVars, buffer, batch, shipping, return, mainVars, metricVars,
                 received>>

\* Mutation: the threshold is compared with > instead of >=.
RecordFailureLate ==
  /\ failureCount' = failureCount + 1
  /\ circuitOpen' = (circuitOpen \/ failureCount' > FailureThreshold)
  /\ cooled' = FALSE

RecordFailure ==
  /\ failureCount' = failureCount + 1
  /\ circuitOpen' = (circuitOpen \/ failureCount' >= FailureThreshold)
  /\ cooled' = FALSE

RecordSuccess ==
  /\ failureCount' = 0
  /\ circuitOpen' = FALSE
  /\ cooled' = FALSE
  /\ failedPosts' = 0

\* Mutation: EventsShipped counts batches.
CountShippedBatch ==
  /\ eventsShipped' = eventsShipped + 1
  /\ shipped' = shipped \cup Range(shipping)
  /\ UNCHANGED <<eventsDropped, dropped>>

CountShipped ==
  /\ eventsShipped' = eventsShipped + Len(shipping)
  /\ shipped' = shipped \cup Range(shipping)
  /\ UNCHANGED <<eventsDropped, dropped>>

\* shipBatch returns.
Return ==
  /\ pc' = return
  /\ shipping' = << >>
  /\ attempt' = 0
  /\ UNCHANGED return

\* Mutation: sendWithRetry ends with `return nil`.
GiveUpSilently ==
  /\ CountShipped
  /\ Return
  /\ UNCHANGED <<failureCount, circuitOpen, cooled>>

\* sendWithRetry returns lastErr.
GiveUp ==
  /\ RecordFailure
  /\ pc' = "requeue"
  /\ UNCHANGED <<shipVars, metricVars>>

RetriesLeftLate == attempt <= MaxRetries    \* mutation: one attempt too many
RetriesLeft == attempt < MaxRetries

\* send returned an error: the loop of sendWithRetry goes round, every error
\* being retryable, or gives up and shipBatch records the failure.
AttemptFailed ==
  /\ failedPosts' = failedPosts + 1
  /\ \/ /\ RetriesLeft
        /\ attempt' = attempt + 1
        /\ pc' = "post"
        /\ UNCHANGED <<failureCount, circuitOpen, cooled, shipping, return, metricVars>>
     \/ /\ ~RetriesLeft
        /\ GiveUp

\* send up to client.Do, which refuses to start on a cancelled context.
BeginPost ==
  /\ pc = "post"
  /\ \/ cancelled /\ AttemptFailed
     \/ /\ ~cancelled
        /\ pc' = "wire"
        /\ UNCHANGED <<shipVars, breakerVars, metricVars>>
  /\ UNCHANGED <<sender, chanVars, buffer, batch, mainVars, received>>

\* client.Do returns.  The collector has taken the batch and its 2xx arrived
\* ("accepted"), it has taken it and the answer was lost or late
\* ("unacknowledged"), or it never took it ("refused": an error status, no
\* connection, no token yet).  A cancelled context may cut off any POST.
EndPost(outcome) ==
  /\ pc = "wire"
  /\ \/ outcome \in PostOutcomes
     \/ cancelled /\ outcome \in {"refused", "unacknowledged"}
  /\ received' = IF outcome = "refused" THEN received ELSE received \cup Range(shipping)
  /\ \/ outcome = "accepted" /\ RecordSuccess /\ CountShipped /\ Return
     \/ outcome # "accepted" /\ AttemptFailed
  /\ UNCHANGED <<sender, chanVars, buffer, batch, mainVars>>

\* The requeue loops: one buffer.Add at a time, the handlers' in between.
Requeue ==
  /\ pc = "requeue"
  /\ \/ /\ shipping # << >>
        /\ BufferAdd(Head(shipping))
        /\ shipping' = Tail(shipping)
        /\ UNCHANGED <<pc, attempt, return>>
     \/ /\ shipping = << >>
        /\ Return
        /\ UNCHANGED <<buffer, metricVars>>
  /\ UNCHANGED <<sender, chanVars, batch, breakerVars, mainVars, received>>

\* circuitBreakerTimeout has passed since lastFailure.
CoolDown ==
  /\ circuitOpen /\ ~cooled
  /\ cooled' = TRUE
  /\ UNCHANGED <<sender, chanVars, buffer, pc, batch, shipVars, failureCount, circuitOpen,
                 failedPosts, mainVars, metricVars, received>>

-----------------------------------------------------------------------------
(* Stop, called by main on SIGINT or SIGTERM.                              *)

Cancel ==
  /\ main = "running"
  /\ main' = "closing"
  /\ cancelled' = TRUE
  /\ UNCHANGED <<sender, chanVars, buffer, pc, batch, shipVars, breakerVars, toFlush,
                 metricVars, received>>

CloseChan ==
  /\ main = "closing"
  /\ main' = "waiting"
  /\ closed' = TRUE
  /\ UNCHANGED <<sender, eventChan, buffer, pc, batch, shipVars, breakerVars, cancelled,
                 toFlush, metricVars, received>>

\* The case <-done: flushBuffer starts by emptying the overflow buffer.
WorkerDone ==
  /\ main = "waiting"
  /\ pc = "exited"
  /\ main' = "flushing"
  /\ toFlush' = buffer
  /\ buffer' = << >>
  /\ pc' = "flush"
  /\ UNCHANGED <<sender, chanVars, batch, shipVars, breakerVars, cancelled, metricVars,
                 received>>

\* The case <-time.After(10 * time.Second).
Timeout ==
  /\ main = "waiting"
  /\ main' = "timedOut"
  /\ UNCHANGED <<sender, chanVars, buffer, pc, batch, shipVars, breakerVars, cancelled,
                 toFlush, metricVars, received>>

\* Mutation: the loop empties the buffer, not what it drained from it.
FlushUntilEmpty ==
  /\ pc = "flush"
  /\ \/ /\ toFlush \o buffer # << >>
        /\ LET all == toFlush \o buffer  n == ChunkSize(all) IN
             /\ CallShip(SubSeq(all, 1, n), "flush")
             /\ toFlush' = SubSeq(all, n + 1, Len(all))
        /\ buffer' = << >>
        /\ UNCHANGED main
     \/ /\ toFlush \o buffer = << >>
        /\ pc' = "stopped"
        /\ main' = "stopped"
        /\ UNCHANGED <<buffer, toFlush, shipVars>>
  /\ UNCHANGED <<sender, chanVars, batch, breakerVars, cancelled, metricVars, received>>

\* The loop of flushBuffer.
FlushNext ==
  /\ pc = "flush"
  /\ \/ /\ toFlush # << >>
        /\ LET n == ChunkSize(toFlush) IN
             /\ CallShip(SubSeq(toFlush, 1, n), "flush")
             /\ toFlush' = SubSeq(toFlush, n + 1, Len(toFlush))
        /\ UNCHANGED main
     \/ /\ toFlush = << >>
        /\ pc' = "stopped"
        /\ main' = "stopped"
        /\ UNCHANGED <<toFlush, shipVars>>
  /\ UNCHANGED <<sender, chanVars, buffer, batch, breakerVars, cancelled, metricVars,
                 received>>

-----------------------------------------------------------------------------
Handlers == \E e \in Events : SendEvent(e) \/ SendOverflow(e)

Outcomes == {"accepted", "refused", "unacknowledged"}

\* shipBatch and its callers once the select has chosen.
Shipping ==
  \/ DrainBuffer \/ Gate \/ BeginPost \/ Requeue \/ FlushNext
  \/ \E outcome \in Outcomes : EndPost(outcome)

Worker == Receive \/ Leave \/ Tick \/ Shipping

Stop == Cancel \/ CloseChan \/ WorkerDone \/ Timeout

Next == Handlers \/ Worker \/ CoolDown \/ Stop

Spec == Init /\ [][Next]_vars

(* Fairness.  Go schedules every runnable goroutine, every timer fires and  *)
(* client.Do returns within its 30 s timeout: weak fairness.  A select      *)
(* picks uniformly among its ready cases: strong fairness for each.         *)
WorkerFairness ==
  /\ WF_vars(Shipping)
  /\ SF_vars(Receive) /\ SF_vars(Tick) /\ SF_vars(Leave)

StopFairness == WF_vars(CloseChan) /\ WF_vars(WorkerDone) /\ WF_vars(Timeout)

FairSpec ==
  /\ Spec
  /\ \A e \in Events : WF_vars(SendOverflow(e))
  /\ WorkerFairness /\ WF_vars(CoolDown) /\ StopFairness

\* An environment that lets a shipper make progress: the rate limiter does not
\* refuse for ever (WaitTime has slept until the bucket refills), and a collector
\* that is asked again and again answers 2xx now and then.
GateGrants == Gate /\ pc' = "post"
Healthy == SF_vars(GateGrants) /\ SF_vars(EndPost("accepted"))

-----------------------------------------------------------------------------
ControlOK ==
  /\ pc \in {"select", "drain", "gate", "post", "wire", "requeue", "exited", "flush",
             "stopped"}
  /\ return \in {"select", "drain", "exited", "flush"}
  /\ main \in {"running", "closing", "waiting", "timedOut", "flushing", "stopped"}
  /\ sender \in [Events -> {"idle", "overflowing", "returned", "panicked"}]

FlagsOK ==
  /\ circuitOpen \in BOOLEAN /\ cooled \in BOOLEAN
  /\ closed \in BOOLEAN /\ cancelled \in BOOLEAN

SeqUpTo(n) == {s \in Seq(Events) : Len(s) <= n}

QueuesOK ==
  /\ eventChan \in SeqUpTo(ChanCap)
  /\ buffer \in SeqUpTo(BufferSize) /\ toFlush \in SeqUpTo(BufferSize)
  /\ batch \in SeqUpTo(BatchSize - 1) /\ shipping \in SeqUpTo(BatchSize)

CountersOK ==
  /\ attempt \in 0 .. MaxRetries
  /\ failureCount \in 0 .. FailureThreshold
  /\ eventsShipped \in Nat /\ eventsDropped \in Nat /\ failedPosts \in Nat

HistoryOK == shipped \subseteq Events /\ dropped \subseteq Events /\ received \subseteq Events

TypeOK == ControlOK /\ FlagsOK /\ QueuesOK /\ CountersOK /\ HistoryOK

\* Where an event can be: the sequences that hold it, and the sets it ends in.
Held == <<eventChan, batch, shipping, toFlush, buffer>>
Overflowing == {e \in Events : sender[e] = "overflowing"}
Submitted == {e \in Events : sender[e] \in {"overflowing", "returned"}}
Places == [i \in 1 .. 8 |->
             IF i <= 5 THEN Range(Held[i]) ELSE <<Overflowing, shipped, dropped>>[i - 5]]

\* Conservation: an event handed to SendEvent is in exactly one place -
\* waiting in the channel, a batch or the buffer, being written to the buffer,
\* shipped, or dropped - and there once.  Nothing is lost or doubled between
\* the channel, the batches, a failed POST and the requeue, whoever else adds
\* to the buffer meanwhile.
NoEventLost ==
  /\ UNION {Places[i] : i \in DOMAIN Places} = Submitted
  /\ \A i, j \in DOMAIN Places : i # j => Places[i] \cap Places[j] = {}
  /\ \A i \in DOMAIN Held : Cardinality(Range(Held[i])) = Len(Held[i])

\* What a Stop that has returned nil leaves behind is in the channel or in the
\* buffer, never in the hands of the worker or of flushBuffer: however sends,
\* failures and requeues fall, at most as many events are lost uncounted as these
\* two hold.
Settled == shipped \cup dropped \cup Overflowing
StopLosesAtMost ==
  main = "stopped" => Cardinality(Submitted \ Settled) <= ChanCap + BufferSize

\* EventsShipped never counts an event the collector has not taken, across
\* retries, lost answers and cut-off requests.
ShippedWasReceived == shipped \subseteq received

\* The breaker is open exactly when the failures in a row have reached the
\* threshold, and no POST is under way, or about to start, while it is.
BreakerInv ==
  /\ circuitOpen <=> failureCount = FailureThreshold
  /\ cooled => circuitOpen
  /\ pc \in {"post", "wire"} => ~circuitOpen /\ attempt \in 1 .. MaxRetries

\* A collector that answers nothing but errors gets a bounded number of POSTs
\* before it is left alone for circuitBreakerTimeout.
BoundedFailures == failedPosts <= FailureThreshold * MaxRetries

StatusOf(e) ==
  CASE sender[e] = "idle" -> "new"
    [] sender[e] = "panicked" -> "rejected"
    [] e \in shipped -> "shipped"
    [] e \in dropped -> "dropped"
    [] OTHER -> "pending"

Delivery == INSTANCE EventDelivery WITH status <- [e \in Events |-> StatusOf(e)]

\* The shipper implements EventDelivery: EventsShipped and EventsDropped are
\* the numbers of events that were shipped and dropped, no event ends twice,
\* none leaves its end again, and at most BatchSize are shipped at a time.
RefinesDelivery == Delivery!Spec

\* Without a Stop, a collector that recovers again and again eventually gets
\* every submitted event, except those the full buffer made it drop: no event
\* is parked in the channel, the partial batch or behind the breaker for ever.
EventuallySettled ==
  Healthy => \A e \in Events : (e \in Submitted) ~> (e \in shipped \cup dropped \/ cancelled)

\* Stop returns, whatever state the worker, the collector and the breaker are
\* in: in particular flushing ends although failing batches go back to the
\* buffer being flushed.
StopReturns == cancelled ~> main \in {"stopped", "timedOut"}

\* The worker does not outlive its shipper.
WorkerGone == pc = "exited" \/ main \in {"flushing", "stopped"}
WorkerLeaves == cancelled ~> WorkerGone

\* main.go:267, "Stop log shipper and flush remaining events": once Stop has
\* returned nil every event handed over before has been shipped, or counted as
\* dropped.
StopFlushes == main = "stopped" => Submitted \subseteq shipped \cup dropped \cup Overflowing

\* README.md:117, "Returns 200 (allowed) or 403 (denied) to Traefik": a handler
\* that has denied a request gets through SendEvent and answers.
SendEventReturns == \A e \in Events : sender[e] # "panicked"
=============================================================================
