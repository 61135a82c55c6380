# A verification of the ELLIO Traefik forward-auth middleware

The program answers Traefik's forward-auth requests: it keeps a list of IP
addresses (the EDL, fetched from a server and refreshed for ever), allows or
denies each request by it, and ships an event for every denied request to a log
collector. This directory holds TLA+ models of it, the TLC runs that check them
and the theorems TLAPS proves about them. It was written from the Go code, which
has no tests of its own; `PROJECT.json` maps every definition to its lines.

## 1. The system

| component | state | operations | where |
|---|---|---|---|
| configuration and deployment | bootstrap answer, URLs, mode (`EDLMode`) | load, bootstrap, fetch the EDL configuration, decide what to do about a disabled or deleted deployment | `config/`, `api/config.go`, `api/bootstrap.go` |
| token manager | token, its expiry, the two URLs, `deploymentDeleted` | the refresh loop, read token, read URL, stop | `api/token_manager.go` |
| EDL updates | the list in force, its count, last error, last update | fetch with retries, parse, install, the update loop | `edl/`, `ipmatcher/` |
| access decisions | none of its own | find the client address, evaluate it, answer 200/403, send an event | `auth/handler.go` |
| log shipper | event channel, batch, overflow buffer, circuit breaker, counters | SendEvent, processEvents, shipBatch with retries, Stop | `logs/shipper.go` |
| overflow buffer | array, head, tail, size | Add, Get, Drain, DrainAll | `logs/buffer.go` |
| rate limiter | tokens, last refill | Allow, WaitTime | `logs/leaky_bucket.go` |
| metrics collector | the last counter values seen | collect, once per period | `logs/metrics.go` |
| health and readiness | none of its own | read the update status and judge it by its age | `auth/health.go` |
| process | the auth server and the metrics server, the root context | start in order, wait for a signal, shut down in order | `main.go` |

How they interact. `main` loads the configuration (which starts the token
manager's loop), starts the updater and waits for the first list, starts the
shipper and the servers, and then waits for a signal. From there on these
goroutines run side by side: one per request (reads the list, sends an event),
the update loop (writes the list, reads the token manager's URL), the token
loop (writes token and URLs), the shipper's worker (reads channel and buffer,
POSTs with the token), the metrics loop, and `main` in its shutdown. What they
share is the two atomics of the matcher, the status under `u.mu`, the shipper's
channel, buffer and atomics, and the token manager's fields under its lock.

What is hard about it, component by component, and the property that would be
wrong if it went wrong (the lines are in `PROJECT.json` under `hazards`):

- *Overflow buffer.* Two indices wrap at different times. Correct if every call
  acts as on a plain FIFO queue of bounded length.
- *Log shipper.* Handlers overflow into the buffer while the worker requeues a
  failed batch into it; an answer of the collector can be lost, so it may get a
  batch twice; the breaker is two atomics and a time; Stop cancels, closes,
  waits and flushes while handlers go on. Correct if no event is lost or counted
  twice, the breaker opens at its threshold and closes again, events do not wait
  for ever, and Stop returns.
- *EDL updates and decisions.* Requests read the list while it is replaced; a
  fetch fails, breaks off half way or returns what is already outdated. Correct
  if each decision is made with one list, whole; no failure removes the list in
  force; an older list never comes back; and each new list eventually gets in.
- *Deployment and token manager.* Errors from the platform mean "try again",
  "stop enforcing" or "give up", and which one is decided in three places, at
  start and at run time. Correct if only an answer that names an inactive
  deployment, or a 410, stops enforcement, only a 410 stops the refreshing, and a
  deletion does stop it.
- *Rate limiter.* Elapsed time is turned into whole tokens, with rounding, and
  the rest forgotten; the wait and the token are two calls. Correct if the rate is
  kept, not undercut by more than half, and one who waits is served.
- *Metrics collector.* Differences of counters that move meanwhile. Correct if
  nothing is reported twice and the collector keeps up.
- *Readiness.* A fixed age limit on a list whose updates may fail for hours.
  Correct if a pod that has become unready comes back by itself.
- *Process.* Handlers, shipper, collector and two servers are stopped one after
  the other under one deadline while requests are in flight. Correct if a denial
  is reported truthfully or not answered 403, nothing is cut off before the
  deadline, and the process ends.

## 2. The modules

Abstract specifications, each one page and free of any mechanism:

- `BoundedFIFO`: a queue of bounded length, one atomic step per call.
- `EventDelivery`: an event is new, pending, then shipped, dropped or rejected,
  once; two counters say how many.
- `AccessControl`: one edition of the list in force, replaced as a whole by newer
  ones only; requests are judged by it.
- `TokenBucket`: a rate limiter as two accounts, what may be taken at most and
  what must be granted at least.

Detailed specifications, one action per operation or handler step:

- `RingBuffer` (`logs/buffer.go`) implements `BoundedFIFO`. Every method holds
  the lock throughout, so every method is one action; `Remove(n)` is the loop
  that Get, Drain and DrainAll share, in closed form. `called` and `reply` are the
  last call and its result.
- `LogShipper` (`logs/shipper.go`) implements `EventDelivery`. `sender` is the
  handlers' control, `pc` that of the goroutine inside processEvents (and, after
  the worker has exited, of `main` inside flushBuffer; they never run shipBatch
  together), `main` that of Stop. The steps are cut where another goroutine can
  come in: SendEvent is cut between the full channel and `buffer.Add`; shipBatch
  at the gate (breaker and limiter), before and after each POST, and between the
  single `buffer.Add` calls of the requeue loop; Stop between cancel, close, wait
  and flush. The buffer is a plain sequence, which the refinement above entitles
  it to be. `shipped`, `dropped`, `received` and `failedPosts` are history
  variables: no guard reads them.
- `Enforcement` (`edl/updater.go`, `edl/fetcher.go`, `ipmatcher/matcher.go`, the
  decision of `auth/handler.go`) implements `AccessControl`. A list is the number
  of its edition; `ipset` and `count` are the matcher's two atomics and are
  stored in two steps. Main's first update and the update loop are the same
  control, `upc`, since the loop is started only after the first update.
  `lastGood`, `arrivedAt` and `judgedBy` are history variables. Readiness
  (`auth/health.go`) is the predicate `Ready`; of the age of the last update only
  whether it exceeds two hours is kept (`Age`).
- `Deployment` (`config/loader.go`, `api/bootstrap.go`, `api/config.go`,
  `api/token_manager.go`). What one bootstrap answer brings (token, expiry, two
  URLs, all written under one lock) is a number, the `session`. `main` is the
  start-up, `loop` the refresh goroutine; they share the bootstrap request, since
  the loop is started after main's. A reader (main's GetEDLConfig, the shipper's
  send) takes the URL and the token in two steps. The platform is the environment:
  it changes the deployment at any time and answers with HTTP statuses and bodies,
  and the code's classification of them is `Permanent` and `SaysInactive`. Any
  request may also meet one of the `Strays`, 410 among them, which a proxy or a wrong
  URL answers whatever the deployment is. A disabled deployment may be answered by
  status and code or by a 200 with `"enabled": false`; the code is known only from how
  it reads the answers, so the model allows whatever it has a field or a branch for.
  `toldBy` and `gone` are history variables.
- `LeakyBucket` (`logs/leaky_bucket.go` and its use in shipBatch) implements
  `TokenBucket`. Time is counted in ticks, a nanosecond each in the code; timers
  move instead of a clock. Every method is one action, and the time between
  WaitTime and Allow is the sleep. `Truncated` is the conversion of a float64 to
  an integer: where the exact quotient is whole, the computed one may fall just
  below it (290 ms at 100 tokens per second make 28 tokens), so both are allowed.
  One event takes one token; the bucket's rate is that of batches.
- `MetricsCollector` (`logs/metrics.go`): the two passes over the counters,
  counter by counter, over whatever counters it is given.
- `ForwardAuth` (`auth/handler.go`, `logs/event.go`, `main.go`): the running
  process. `pc` is the control of each request's handler, `phase` that of `main`
  in waitForShutdown; the collector is an instance of `MetricsCollector` on the
  shipper's two event counters, and the shipper itself is `EventDelivery`, which
  `LogShipper` has been shown to implement. `onList` is a history variable.

`MCRingBuffer`, `MCLogShipper`, `MCEnforcement`, `MCDeployment`, `MCLeakyBucket`
and `MCForwardAuth` are what TLC runs (symmetry sets, the three editions); the
`...Proofs` modules hold the theorems: one for each detailed specification, for
`LogShipper` two (`DeliveryProofs` builds on `LogShipperProofs`), and
`EventDeliveryProofs` for what follows from that abstract specification alone.

How they compose. `LogShipper` uses a plain queue where the code uses the ring
buffer: `RingBuffer` implementing `BoundedFIFO` is what allows it. `Enforcement`
starts with any `edlMode`: `Deployment` says which one a start-up can settle on.
`LogShipper` lets any POST fail, for want of a token too: `Deployment`'s reader
`logs` is that POST seen from the token manager. `ForwardAuth` uses the shipper as
`EventDelivery` (and its proofs what `EventDeliveryProofs` shows of it) and the list as a set that changes in one step, as `AccessControl`
has it; it starts when there is a first list, which `Enforcement` shows, with any
mode `Deployment` can settle on. What it assumes of Stop, that it returns, is
`StopReturns` of `LogShipper`. That the limiter does not refuse for ever, which
`LogShipper` assumes, is `NeverStarved` of `LeakyBucket`.

A definition whose comment starts with *Mutation* stands beside the definition it
would replace and is used by no specification: it is a plausible bug that the
property named in `PROJECT.json` (`mutants`) is known to catch.

Abstractions worth knowing. Except in `LeakyBucket` there is no clock: a ticker may
fire, and a timeout or a delay may elapse, at any moment, so every order of
timeouts and answers is explored, and nothing that depends on how long something
takes is claimed. In `LogShipper` the limiter answers either way. A POST ends as
`accepted`, `refused` (the collector never took it) or `unacknowledged` (it did,
the answer is lost). An EDL fetch succeeds with the edition published at that
moment or fails; a list that breaks off half way is a failure, since parseEDL
returns the scanner's error; `LastGoodStaysActive` is known to notice if it did not.
(That holds for a body with a length or in chunks; one that ends with its connection
cannot be told from a shorter list by the code, and the model leaves it out.) A header stands for the first element of its
value; an address is itself, one that does not parse, or the empty string. Of an
event only the client, the mode, the outcome and the reason are kept.

## 3. The runs

Every run is exhaustive. Deadlock is not checked where the system really stops
(after a shutdown, an exit, or when all events and requests of the instance are
used up); `ring_buffer` and `leaky_bucket` never stop and are checked for deadlock.

| run | asks | instance |
|---|---|---|
| `ring_buffer` | is the array a FIFO queue, call by call? | capacity 3, batch 2, 3 events: the batch size does not divide the capacity, so head and tail meet every offset, and drains wrap |
| `shipper_safety` | is any event lost, doubled, or miscounted; how much can a Stop leave behind; is the breaker right? | 5 events, channel 1, buffer 2, batch 2, 2 attempts, threshold 2 |
| `shipper_live` | does every event leave, if the collector recovers now and then; does Stop return and the worker end, whatever fails? | 3 events, threshold 1, `FairSpec` |
| `stop_loses_events` | does Stop flush? (it does not) | 2 events, a collector that accepts everything |
| `send_after_stop` | can a handler always send? (no) | the same |
| `enforcement` | is each decision made with one whole list, the last good one; does every new list get in? | 3 editions (one grows, one is empty), 2 requests, 2 addresses, 2 attempts, all modes, `FairSpec` |
| `leaky_bucket` | is the rate kept, and does one who waits get a token? | capacity 4, 3 tokens in 7 ticks, `FairSpec` |
| `forward_auth` | is every denial reported, with its true reason; is the exit graceful until its deadline, and does the process end; are the metrics ever ahead of the shipper or of the handlers, or stuck? | 2 requests, 1 address, 2 lists, every mode, with and without a shipper, `FairSpec` |
| `no_attempts` | does the service answer with MAX_RETRY_ATTEMPTS=0? (it panics) | 1 request |
| `deployment` | which answers open the gate or end the refreshing; do URL and token fit; do refreshes recover, and do they end after a deletion? | 3 sessions, every kind of answer, a stray 410 and `"enabled": false` included, `FairSpec` |
| `deleted_at_start` | does a deleted deployment allow all traffic? (it exits) | the same |
| `failsafe_at_run_time` | does a change on the platform reach a running process? (no) | the same, `FairSpec` |

Why these bounds are enough to be interesting. Five events against a channel of
one, a batch of two and a buffer of two fill all three at once with one handler
left over, so the event that is refused a place while a batch of two is being
requeued is in the state space. Two attempts and a threshold of two
distinguish "this attempt failed", "this batch failed" and "the breaker opens",
and the breaker opens, cools down and opens again. The liveness runs use three
events and a threshold of one, since symmetry would be unsound there; the breaker
still opens and closes. Three editions let one be fetched while a second is in
force and a third is published; the third, empty one tells an empty list from no
list. Of two requests one may span an update while the other is judged before,
during or after it; requests do not depend on each other. In `leaky_bucket` the
rate does not divide the second, so a wait is cut off, and a refill may bring a
whole number of tokens or not; the capacity is more than a refill brings while one
token is waited for. In `forward_auth` one request can be in each step of its
handler while the other is accepted, dropped, shipped or turned away, and the two
can be counted before, between and after the two loads of one collection. Three sessions let a
reader hold the URL of the first and the token of the second while the third is
handed out; they are numbered up to `MaxIssued` and alike from there on, so that
refreshing never ends for want of numbers.

### Fairness

- *Goroutines and timers*: weak fairness. Go runs every runnable goroutine, and
  every timer fires. `Shipping`, `Update`, `Main`, `Loop` and the steps of Stop
  are of this kind; so is the end of a request, since each HTTP client has a
  timeout (30 s or 10 s) and fails at the latest then.
- *Cases of a select*: strong fairness, one per case. Go picks uniformly among the
  ready cases, so a case that is ready again and again is picked.
- *Time*, in `LeakyBucket`: weak fairness of `Tick`, and of the shipper's two
  calls, since batches keep coming.
- *The environment*: strong fairness on the good answer. `EventuallySettled`
  has the hypothesis `Healthy`: a collector asked again and again accepts now and
  then (`EndPost("accepted")`), and the limiter does not refuse for ever
  (`GateGrants`, which `LeakyBucket` shows: `NeverStarved`). `EventuallyEnforced` assumes the same of the EDL server,
  `EventuallyRefreshed` and `EventuallyQuiet` of the platform (a 200 as long as the
  deployment exists, a 410 once it is deleted: `SaysGone`; nobody is obliged to send
  a stray 410). `StopReturns` and
  `WorkerLeaves` assume nothing of it.
- Nothing obliges handlers to send, requests to arrive, the platform to change,
  tokens to expire, `main` to get a signal or a scrape of the metrics server to end.

Known and not counted as a failure:

- Between the two stores of `matcher.Update` the count that `/health` and `/ready`
  report is that of the list just replaced; `CountFollows` says that this is the
  only moment.
- `/ready` answers 503 as long as the list in force has no entry, and always when
  the deployment is disabled (`health.go:49`), though both are served;
  `ReadyAgain` makes these exceptions.
- What the shipper counts between the collector's two loads of a counter is never
  reported (`metrics.go:62` and `:68`), so `NeverOverReported` is an inequality.
- A 410 without a code is final whoever sends it. One answer of that kind to the
  configuration request, from a proxy or a retired URL, opens the gate of an active
  deployment until the process restarts (`config.go:92`, `loader.go:63`); one to a
  refresh ends the refreshing, and with it the shipping of events once the collector
  refuses the expired token (`token_manager.go:92`). `NoTransientIsFinal` and
  `EventuallyRefreshed` make these exceptions, and `Strays` lets them happen.
- A disabled deployment that is answered 200 with `"enabled": false` is enforced: the
  field (`config.go:24`) is overwritten with true (`:112`) before `loader.go:99` looks
  at it, against README.md:107 of the program. The model does as the code
  does (`Configured`), and no property excludes it. It is not among the counterexamples
  below because whether the platform ever answers so is not to be seen from the code;
  the codes it is known to use for a disabled deployment are recognised.
- Readiness ends two hours after an update even if nothing fails, when the platform
  sets a longer update frequency; `ReadyAgain` says that it comes back, not for how
  long it stays.
- The first list is counted twice in `forwardauth_edl_updates_total`, by
  updateNow (`updater.go:87`) and by initEDL (`main.go:124`).
- The gauges of buffer and bucket stay zero: `main.go:175` passes nil for both.
- A request without any address is answered 400 even when the deployment is
  disabled (`handler.go:55`), where `main.go:104` says "allowing all traffic".
- A full bucket with part of a token under way may grant one more than its
  capacity at once, and one who wakes up to the nanosecond may be refused and has to
  wait again; `TokenBucket` and `LateIsGranted` say so.

### Where the code does not do what is written about it

Five runs are counterexamples, each with the sentence it contradicts in
`PROJECT.json` (`findings`):

1. *Stop loses events* (`stop_loses_events`). It cancels the context first; from
   then on no POST can start, the worker may leave the channel unread, and what
   flushBuffer fails to send it puts back into a buffer nobody reads again.
2. *A handler panics after Stop* (`send_after_stop`). The channel is closed while
   the HTTP server still serves.
3. *No attempts, no error* (`no_attempts`). With MAX_RETRY_ATTEMPTS of zero or
   less the service starts with a nil list and panics on every request. Every
   theorem about the list, but for its type and count, therefore assumes a
   positive number.
4. *A deployment deleted before the start ends the process* (`deleted_at_start`):
   the permanent error is rewrapped and no longer recognised. (A deletion that is
   only seen by the configuration request is recognised.)
5. *A change at run time is never applied* (`failsafe_at_run_time`).

## 4. The proofs

TLAPS proves, for all values of the constants that satisfy the assumptions named
in the modules (positive sizes and limits; a non-empty sequence of editions):

| module | theorem | says |
|---|---|---|
| `RingBufferProofs` | `TypeCorrect`, `WindowCorrect`, `Refinement` | the indices stay in the array, the events are exactly in the window from head to tail, every call acts as on the queue |
| `LogShipperProofs` | `TypeCorrect` | channel, batches and buffer within their capacities, failures within the threshold |
| | `BreakerCorrect`, `FailuresBounded` | open exactly at the threshold, no POST while open; at most threshold * attempts failed POSTs in a row |
| | `ShippedReceived` | EventsShipped counts only what the collector has taken |
| `DeliveryProofs` | `NothingLost` | an event is in exactly one place, and there once (`NoEventLost`) |
| | `StopLossBounded` | a Stop that returns nil loses at most what channel and buffer hold (`StopLosesAtMost`) |
| | `Refinement` | the shipper implements `EventDelivery` |
| | `CountersExact` | EventsShipped and EventsDropped are the numbers of events shipped and dropped |
| | `FlushShipsNothing` | from the moment flushBuffer begins, nothing reaches the collector or is counted as shipped |
| `EventDeliveryProofs` | `CountersTell`, `EndsStay` | the counters are exact and an end is final (`CountsExact`, `EndsAreFinal`), in whatever implements `EventDelivery` |
| `EnforcementProofs` | `TypeCorrect` | for any integer MaxRetryAttempts |
| | `CountsFollow` | the count follows the list |
| | `LastGoodKept`, `NoneGoesBack`, `NonePanics`, `Refinement` | the last good list stays, none comes back, none is nil, and the whole implements `AccessControl`; for MaxRetryAttempts > 0 |
| `LeakyBucketProofs` | `TypeCorrect` | tokens between none and the capacity, waits of a second at most |
| | `LateGranted` | who wakes up two ticks late is granted a token |
| | `Refinement` | the bucket implements `TokenBucket`: its rate at most, half of it at least |
| `ForwardAuthProofs` | `TypeCorrect`, `DenialsAreReported`, `EventsTellTruth` | for any number of requests and any lists |
| | `ShutdownGraceful` | nobody is cut off before the deadline |
| | `NothingOverReported` | the metrics are never ahead of the shipper, whatever it counts between the collector's steps |
| | `NoMoreThanSent` | nor ahead of what the handlers have sent (`ReportedWereSent`) |
| `DeploymentProofs` | `TypeCorrect`, `TokensNotOlder` | types; no request pairs a token with a newer URL (`TokenNotOlder`) |
| | `TransientNeverFinal` | nothing but a 410 or the name of an inactive deployment opens the gate, nothing but a 410 ends the refreshing (`NoTransientIsFinal`) |

The arguments.

- *Ring buffer.* `TypeOK` and `WindowInv` together are inductive: `tail` is `size`
  places after `head`, and a slot holds an event exactly if it is less than `size`
  places after `head`. The modular arithmetic is in three lemmas (`WrapOnce`,
  `WrapTwice`, `WrapPast`) and `SlotsDistinct`.
- *Breaker.* The inductive invariant (`BreakerIInv`) is `BreakerInv` with the types
  of the counters and `FailedInv`. A failure recorded while the counter is at its
  threshold would break the first; it cannot happen, because the goroutine in front
  of or inside a POST has passed the gate, so the breaker is closed and the counter
  below the threshold. `FailedInv` bounds the failed POSTs by `MaxRetries` for each
  failure in a row and the attempts of the batch under way.
- *Conservation.* The inductive invariant (`DeliveryIInv`) is that of
  `LogShipperProofs` with two parts. `DivideInv`: the five queues, the handlers on
  their way to the buffer and the two ends divide the submitted events among them,
  and no queue holds one twice (`Distinct`; `DistinctIs` turns that into the
  cardinality the property states). It is not inductive alone: CallShip replaces
  `shipping`, WorkerDone replaces `toFlush`, ShipCollected replaces `batch`, and
  whatever these hold would be lost. That they are empty then is `PhaseInv`, which
  says what each queue may hold at each point of the worker and of Stop, and that
  main is in its flush exactly while that control serves it. Every step then moves
  some events from one of the eight places to another (`MoveDivides`), puts a new
  one into one (`PutDivides`), or moves none. When Stop has returned nil, `PhaseInv`
  leaves only channel and buffer, and `StopLosesAtMost` is counting.
- *Shipper as EventDelivery.* The mapping reads `status` off the handler and the two
  ends. A step is `Accept` or `Reject` for SendEvent, `Ship` for an accepted POST,
  which ships a set since a batch holds no event twice, `Drop` for a full buffer,
  and a stutter for all the rest; that the dropped or shipped were pending is
  `DivideInv`. `CountersExact` then comes from `EventDelivery` through the mapping.
- *Flush.* `PhaseInv` also keeps main's flush away from the wire: the context is
  cancelled before, so no POST can start, and the worker has left its own.
- *Enforcement.* The inductive invariant is a chain: the list a request arrived
  under is at most the one it was judged by, which is at most the one in force,
  which is at most the last one fetched, which is at most the edition published;
  and between fetch and install the list in hand is the last one fetched. The
  refinement maps `list` to `ipset`, so only `StoreSet` installs.
- *Leaky bucket.* The arithmetic is in lemmas on `Truncated`: n tokens added mean
  that less than n + 1 of them had accrued, hence at most twice of what is added is
  forgotten, and time waited for a token is time accrued for it. The inductive
  invariant relates the timers: while shipBatch sleeps for want of a token, what
  has accrued and what is left of the sleep together make one, up to a tick.
- *ForwardAuth.* Three invariants, each kept by every step. `HandlerInv` says what
  a handler knows and has told at each point of its way: a request that is not
  reported yet is unknown to the shipper, and one that is denied has an address
  that is on the list exactly if the list blocks. `MainInv`: the server is left only
  with nothing open or past the deadline. `CollectorInv`: what is reported is not
  ahead of what is remembered, except for a counter between its two loads, where it
  is not ahead of the counter. `NoMoreThanSent` joins the three: reported is at most
  counted, counted is exact (`EventDeliveryProofs`), and what has ended was sent
  (`SentInv`).
- *Deployment.* Sessions only grow, from what a reader holds to what is in force
  to what was issued last. The mode is `none` until the one step in which main is
  answered (`ModeInv`), and a 410 is followed on its way from the answer over
  `deploymentDeleted` to the end of the loop (`GoneInv`).

Only model-checked, by the runs above: the liveness properties
(`EventuallySettled`, `StopReturns`, `WorkerLeaves`, `EventuallyEnforced`,
`ReadyAgain`, `EventuallyRefreshed`, `EventuallyQuiet`, `NeverStarved`,
`SignalEndsProcess`, `CaughtUp`), since the prover does not handle fairness
(ENABLED). Every other property of a passing run is a theorem. The five
counterexamples are TLC's; of `stop_loses_events`, `FlushShipsNothing` proves that
it is no accident of the instance.

## 5. Not modelled, and the plan

Not modelled because there is nothing to check: Prometheus registrations, the
logger, version strings, single environment values, flags and static files, the
legacy API client, the token manager's Stop, ForceRefresh and
GetTokenWithMinValidity, AllowN and `deployment_state.go` (none of which has a
caller). Sentry calls are left out everywhere. Of parseEDL only that it yields a
list or fails; of an event not the details of the request. The refresh
interval of the token manager is abstracted to a timer that may fire at any time,
so nothing is said about whether a token is renewed before it expires.

What is left, the most important first:

1. parseEDL line by line, and the refresh interval against the lifetime of a token.
2. What the liveness properties rest on and can be stated without fairness: that
   flushing ends because nothing enters what is being flushed, and that every
   waiting step of the worker and of Stop has a way out.
