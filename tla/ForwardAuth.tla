---------------------------- MODULE ForwardAuth ----------------------------
(***************************************************************************)
(* The running process: the handlers of auth/handler.go between Traefik,   *)
(* the list and the log shipper, the metrics collector, and main.go from   *)
(* the start of the servers to the end of waitForShutdown.                 *)
(*                                                                         *)
(*   signal -> shipper.Stop -> collector.Stop -> server.Shutdown           *)
(*          -> metricsServer.Shutdown -> cancel, exit                      *)
(*             '------ one deadline of 10 s for all of it ------'          *)
(*                                                                         *)
(* Stop's own timeout is 10 s too and starts later, so it never comes      *)
(* before the deadline.  What is proved of the parts elsewhere is used     *)
(* here: the list in force changes in one step and is there before the     *)
(* servers are (AccessControl), the shipper is EventDelivery.  A request   *)
(* has at most one event, so the requests stand for their events.          *)
(*                                                                         *)
(* A header is represented by the first element of its value, trimmed, or  *)
(* "absent"; an element by the address it is, BadAddr if it does not       *)
(* parse, or "empty".                                                      *)
(***************************************************************************)
EXTENDS Integers, FiniteSets

CONSTANTS
  Addrs, BadAddr,
  Requests,
  Lists,           \* the lists that may be in force, sets of addresses
  HeaderOverride,  \* config.IPHeaderOverride is set
  BatchSize

ASSUME ForwardAuthAssumption ==
  /\ HeaderOverride \in BOOLEAN /\ BatchSize \in Nat \ {0} /\ IsFiniteSet(Requests)
  /\ Lists # {} /\ \A l \in Lists : l \subseteq Addrs
  /\ BadAddr \notin Addrs /\ {"empty", "absent", "none"} \cap (Addrs \cup {BadAddr}) = {}

VARIABLES
  edlMode,    \* Handler.isBlocklist and deploymentEnabled
  shipping,   \* whether there is a log shipper: the platform has named a logs URL
  list,       \* the list in force
  phase,      \* main: "serving", then in waitForShutdown "stopping" the shipper,
              \* "draining" the server and "closing" the metrics server; at the end
              \* "exited", or "crashed" after os.Exit(1)
  closed,     \* LogShipper.eventChan has been closed
  expired,    \* the deadline of shutdownCtx has passed
  scrape,     \* somebody is being served by the metrics server
  pc,         \* each request's handler: "new", "received", "denied", "reported", "done"
  asked,      \* the client address it has found, "none" before
  onList,     \* history: whether that address was on the list when it was judged
  answer,     \* "none", "200", "400", "403", "panicked" or "cut"
  event,      \* the access event it has sent, NoEvent before
  status, eventsShipped, eventsDropped,   \* the shipper, see EventDelivery
  collector, next, last, reported         \* see MetricsCollector

configVars == <<edlMode, shipping>>
mainVars   == <<phase, closed, expired>>
reqVars    == <<pc, asked, onList, answer, event>>
logVars    == <<status, eventsShipped, eventsDropped>>
statVars   == <<collector, next, last, reported>>
vars == <<configVars, list, mainVars, scrape, reqVars, logVars, statVars>>

Delivery  == INSTANCE EventDelivery WITH Events <- Requests
Collector == INSTANCE MetricsCollector WITH
  Counters <- 1 .. 2, counter <- <<eventsShipped, eventsDropped>>

NoEvent == [outcome |-> "none"]

Init ==
  /\ edlMode \in {"blocklist", "allowlist", "disabled"} /\ shipping \in BOOLEAN
  /\ list \in (IF edlMode = "disabled" THEN {{}} ELSE Lists)
  /\ phase = "serving" /\ closed = FALSE /\ expired = FALSE /\ scrape = FALSE
  /\ pc = [r \in Requests |-> "new"] /\ asked = [r \in Requests |-> "none"]
  /\ onList = [r \in Requests |-> FALSE] /\ answer = [r \in Requests |-> "none"]
  /\ event = [r \in Requests |-> NoEvent]
  /\ Delivery!Init /\ Collector!Init

Running == phase \notin {"exited", "crashed"}

-----------------------------------------------------------------------------
(* ServeHTTP.                                                              *)

Headers == [override : Addrs \cup {BadAddr, "empty", "absent"},
            xForwardedFor : Addrs \cup {BadAddr, "empty", "absent"},
            xRealIP : Addrs \cup {BadAddr, "absent"},
            remoteAddr : Addrs]

\* extractClientIP.
ClientIP(h) ==
  IF HeaderOverride /\ h.override # "absent" THEN h.override
  ELSE IF h.xForwardedFor # "absent" THEN h.xForwardedFor
  ELSE IF h.xRealIP # "absent" THEN h.xRealIP
  ELSE h.remoteAddr

\* The server accepts connections until Shutdown closes its listener.
Arrive(r) ==
  /\ phase \in {"serving", "stopping"}
  /\ pc[r] = "new"
  /\ pc' = [pc EXCEPT ![r] = "received"]
  /\ \E h \in Headers : asked' = [asked EXCEPT ![r] = ClientIP(h)]
  /\ UNCHANGED <<configVars, list, mainVars, scrape, onList, answer, event, logVars, statVars>>

\* ServeHTTP up to the decision: no address is an error in every mode, one that
\* does not parse unless the deployment is disabled.
Invalid(a) == a = "empty" \/ (a = BadAddr /\ edlMode # "disabled")
Allowed(a) == edlMode = "disabled" \/ (edlMode = "blocklist") # (a \in list)

Finish(r, code) ==
  /\ pc' = [pc EXCEPT ![r] = "done"]
  /\ answer' = [answer EXCEPT ![r] = code]

Evaluate(r) ==
  /\ Running /\ pc[r] = "received"
  /\ onList' = [onList EXCEPT ![r] = asked[r] \in list]
  /\ \/ Invalid(asked[r]) /\ Finish(r, "400")
     \/ ~Invalid(asked[r]) /\ Allowed(asked[r]) /\ Finish(r, "200")
     \/ /\ ~Invalid(asked[r]) /\ ~Allowed(asked[r])
        /\ pc' = [pc EXCEPT ![r] = "denied"]
        /\ UNCHANGED answer
  /\ UNCHANGED <<configVars, list, mainVars, scrape, asked, event, logVars, statVars>>

\* Mutation: the two reasons of a denial swapped.
AccessEventSwapped(ip, mode, allowed) ==
  [ip |-> ip, mode |-> mode,
   outcome |-> IF allowed THEN "allowed" ELSE "blocked",
   reason |-> IF (mode = "blocklist") THEN "not_in_allowlist" ELSE "in_blocklist"]

\* NewAccessEvent: who, under which mode, what and why.
AccessEvent(ip, mode, allowed) ==
  [ip |-> ip, mode |-> mode,
   outcome |-> IF allowed THEN "allowed" ELSE "blocked",
   reason |-> CASE allowed /\ mode = "allowlist" -> "in_allowlist"
                [] allowed /\ mode = "blocklist" -> "not_in_blocklist"
                [] ~allowed /\ mode = "allowlist" -> "not_in_allowlist"
                [] ~allowed /\ mode = "blocklist" -> "in_blocklist"]

\* Mutation: SendEvent recovers from the panic, and the handler goes on.
ReportRecovered(r) ==
  /\ Running /\ pc[r] = "denied"
  /\ \/ ~shipping /\ UNCHANGED <<event, logVars>>
     \/ /\ shipping /\ ~closed
        /\ Delivery!Accept(r)
        /\ event' = [event EXCEPT ![r] = AccessEvent(asked[r], edlMode, FALSE)]
     \/ shipping /\ closed /\ Delivery!Reject(r) /\ UNCHANGED event
  /\ pc' = [pc EXCEPT ![r] = "reported"]
  /\ UNCHANGED <<configVars, list, mainVars, scrape, asked, onList, answer, statVars>>

\* sendAccessEvent, if there is a shipper.  SendEvent panics once the channel is
\* closed; sentryhttp passes the panic on, net/http ends the connection and the
\* process goes on.
Report(r) ==
  /\ Running /\ pc[r] = "denied"
  /\ \/ /\ ~shipping
        /\ pc' = [pc EXCEPT ![r] = "reported"]
        /\ UNCHANGED <<answer, event, logVars>>
     \/ /\ shipping /\ ~closed
        /\ Delivery!Accept(r)
        /\ event' = [event EXCEPT ![r] = AccessEvent(asked[r], edlMode, FALSE)]
        /\ pc' = [pc EXCEPT ![r] = "reported"]
        /\ UNCHANGED answer
     \/ /\ shipping /\ closed
        /\ Delivery!Reject(r)
        /\ Finish(r, "panicked")
        /\ UNCHANGED event
  /\ UNCHANGED <<configVars, list, mainVars, scrape, asked, onList, statVars>>

\* serveForbidden.
Forbid(r) ==
  /\ Running /\ pc[r] = "reported"
  /\ Finish(r, "403")
  /\ UNCHANGED <<configVars, list, mainVars, scrape, asked, onList, event, logVars, statVars>>

Handle(r) == Evaluate(r) \/ Report(r) \/ Forbid(r)

-----------------------------------------------------------------------------
(* The others: the list is replaced, the shipper ships and drops, a scrape *)
(* or a profile begins and ends, the collector collects until it is         *)
(* stopped.                                                                *)

NewList ==
  /\ Running /\ edlMode # "disabled"
  /\ list' \in Lists \ {list}
  /\ UNCHANGED <<configVars, mainVars, scrape, reqVars, logVars, statVars>>

Deliver ==
  /\ Running /\ shipping
  /\ \/ \E S \in SUBSET Requests : Delivery!Ship(S)
     \/ \E r \in Requests : Delivery!Drop(r)
  /\ UNCHANGED <<configVars, list, mainVars, scrape, reqVars, statVars>>

\* The listener of the metrics server is open until its Shutdown.
BeginScrape ==
  /\ phase \in {"serving", "stopping", "draining"}
  /\ ~scrape /\ scrape' = TRUE
  /\ UNCHANGED <<configVars, list, mainVars, reqVars, logVars, statVars>>

EndScrape ==
  /\ Running /\ scrape /\ scrape' = FALSE
  /\ UNCHANGED <<configVars, list, mainVars, reqVars, logVars, statVars>>

\* One step of collectMetrics.  main cancels it on its way from
\* the shipper to the server.
CollectorStep ==
  /\ Running /\ shipping
  /\ \/ Collector!Collect
     \/ Collector!Return(phase \in {"draining", "closing"})
     \/ Collector!Update
  /\ UNCHANGED <<configVars, list, mainVars, scrape, reqVars, logVars>>

-----------------------------------------------------------------------------
(* main: the listener that fails, and waitForShutdown.                     *)

Open(r) == pc[r] \notin {"new", "done"}

\* The process ends; whoever is still being served sees the connection close.
End(how) ==
  /\ phase' = how
  /\ pc' = [r \in Requests |-> IF Open(r) THEN "done" ELSE pc[r]]
  /\ answer' = [r \in Requests |-> IF Open(r) THEN "cut" ELSE answer[r]]

\* ListenAndServe returns an error: os.Exit(1).
ListenFails ==
  /\ phase \in {"serving", "stopping"}
  /\ End("crashed")
  /\ UNCHANGED <<configVars, list, closed, expired, scrape, asked, onList, event, logVars, statVars>>

Signal ==
  /\ phase = "serving" /\ phase' = "stopping"
  /\ UNCHANGED <<configVars, list, closed, expired, scrape, reqVars, logVars, statVars>>

Expire ==
  /\ phase \in {"stopping", "draining", "closing"}
  /\ ~expired /\ expired' = TRUE
  /\ UNCHANGED <<configVars, list, phase, closed, scrape, reqVars, logVars, statVars>>

\* Stop closes the channel the handlers send on, while the server still serves.
CloseChan ==
  /\ phase = "stopping" /\ shipping
  /\ ~closed /\ closed' = TRUE
  /\ UNCHANGED <<configVars, list, phase, expired, scrape, reqVars, logVars, statVars>>

\* Stop returns, flushed or not, and the collector is stopped.
Stopped ==
  /\ phase = "stopping" /\ (shipping => closed)
  /\ phase' = "draining"
  /\ UNCHANGED <<configVars, list, closed, expired, scrape, reqVars, logVars, statVars>>

\* Mutation: Close in the place of Shutdown.
DrainAtOnce ==
  /\ phase = "draining"
  /\ phase' = "closing"
  /\ UNCHANGED <<configVars, list, closed, expired, scrape, reqVars, logVars, statVars>>

\* server.Shutdown returns.
Drain ==
  /\ phase = "draining"
  /\ expired \/ \A r \in Requests : ~Open(r)
  /\ phase' = "closing"
  /\ UNCHANGED <<configVars, list, closed, expired, scrape, reqVars, logVars, statVars>>

\* Mutation: Shutdown with a context of its own, without a deadline.
CloseMetricsPatiently ==
  /\ phase = "closing" /\ ~scrape
  /\ End("exited")
  /\ UNCHANGED <<configVars, list, closed, expired, scrape, asked, onList, event, logVars, statVars>>

\* metricsServer.Shutdown returns, and main.
CloseMetrics ==
  /\ phase = "closing"
  /\ expired \/ ~scrape
  /\ End("exited")
  /\ UNCHANGED <<configVars, list, closed, expired, scrape, asked, onList, event, logVars, statVars>>

Shutdown == CloseChan \/ Stopped \/ Drain \/ CloseMetrics

Next ==
  \/ \E r \in Requests : Arrive(r) \/ Handle(r)
  \/ NewList \/ Deliver \/ BeginScrape \/ EndScrape \/ CollectorStep
  \/ ListenFails \/ Signal \/ Expire \/ Shutdown

Spec == Init /\ [][Next]_vars

\* Go runs every goroutine that can run and every timer fires; Stop returns
\* (LogShipper's StopReturns).  Nobody has to send a signal, and a scrape need
\* not end.
FairSpec ==
  /\ Spec
  /\ \A r \in Requests : WF_vars(Handle(r))
  /\ WF_vars(CollectorStep) /\ WF_vars(Expire) /\ WF_vars(Shutdown)

-----------------------------------------------------------------------------
TypeOK ==
  /\ edlMode \in {"blocklist", "allowlist", "disabled"} /\ shipping \in BOOLEAN
  /\ list \in Lists \cup {{}}
  /\ phase \in {"serving", "stopping", "draining", "closing", "exited", "crashed"}
  /\ closed \in BOOLEAN /\ expired \in BOOLEAN /\ scrape \in BOOLEAN
  /\ pc \in [Requests -> {"new", "received", "denied", "reported", "done"}]
  /\ asked \in [Requests -> Addrs \cup {BadAddr, "empty", "none"}]
  /\ onList \in [Requests -> BOOLEAN]
  /\ answer \in [Requests -> {"none", "200", "400", "403", "panicked", "cut"}]
  /\ event \in [Requests -> {NoEvent} \cup
       [ip : Addrs, mode : {"blocklist", "allowlist"}, outcome : {"blocked"},
        reason : {"not_in_allowlist", "in_blocklist"}]]
  /\ status \in [Requests -> Delivery!Statuses]
  /\ eventsShipped \in Nat /\ eventsDropped \in Nat
  /\ Collector!TypeOK

\* While events are shipped, nobody is told 403 whose event the shipper has not
\* been given, however the handler and Stop interleave; and only a denial gets an
\* event: whoever the shipper knows of is not answered 200 or 400.
DenialsReported ==
  \A r \in Requests :
    /\ answer[r] = "403" /\ shipping => status[r] \in {"pending", "shipped", "dropped"}
    /\ status[r] # "new" => answer[r] \notin {"200", "400"}

\* An event tells why its request was denied: its reason, which the code takes from
\* the mode alone, fits what the list said of that address when it was judged.
EventTellsTruth ==
  \A r \in Requests : event[r] # NoEvent =>
    /\ event[r].ip = asked[r]
    /\ event[r].reason = "in_blocklist" <=> onList[r]
    /\ event[r].mode = (IF onList[r] THEN "blocklist" ELSE "allowlist")

\* Shutdown is graceful as long as its deadline allows: no request and no scrape
\* is cut off in an orderly exit before it.
NoneCutInTime ==
  /\ \A r \in Requests : answer[r] = "cut" => expired \/ phase = "crashed"
  /\ phase = "exited" /\ scrape => expired

\* What Prometheus reads is never ahead of the shipper's counters, and no
\* difference is negative (Counter.Add would panic), although every counter is
\* loaded twice and the shipper counts on in between.
NeverOverReported ==
  \A c \in 1 .. 2 :
    LET counted == <<eventsShipped, eventsDropped>>[c] IN
    last[c] <= counted /\ reported[c] <= counted

\* What Prometheus reads adds up to no more denials than handlers have given
\* events for, over handler, shipper and collector together: an event counted both
\* as shipped and as dropped, or by two collections, would break that, unless as
\* many were missed.
ReportedWereSent ==
  reported[1] + reported[2] <= Cardinality({r \in Requests : event[r] # NoEvent})

\* After a signal the process ends, whatever requests and scrapes are open.
SignalEndsProcess == phase = "stopping" ~> ~Running

\* As long as the process serves, the collector catches up with every counter
\* again and again.
CaughtUp ==
  []<>(last = <<eventsShipped, eventsDropped>> \/ ~shipping \/ phase # "serving")
=============================================================================
