------------------------- MODULE ForwardAuthProofs -------------------------
(***************************************************************************)
(* For every number of requests, every set of addresses and lists: denials *)
(* are reported, with their true reason; an orderly exit cuts nobody off   *)
(* before the deadline; and the metrics never run ahead of the shipper's   *)
(* counters, nor of what the handlers have sent.                           *)
(*                                                                         *)
(* The inductive invariant has a part for the handlers, one for main and   *)
(* one for the collector, and the types; each part is taken through all    *)
(* the steps by itself.                                                    *)
(***************************************************************************)
EXTENDS ForwardAuth, FiniteSetTheorems, TLAPS

USE ForwardAuthAssumption
USE DEF configVars, mainVars, reqVars, logVars, statVars, Running

-----------------------------------------------------------------------------
(* The counters and the collector.                                         *)

CountTypes ==
  /\ eventsShipped \in Nat /\ eventsDropped \in Nat
  /\ status \in [Requests -> Delivery!Statuses]

Counted(c) == IF c = 1 THEN eventsShipped ELSE eventsDropped

\* Has the difference of counter c been added, but its value not been stored yet?
Between(c) ==
  \/ collector = "adding" /\ c < next
  \/ collector = "storing" /\ c >= next

\* What is remembered is not ahead of the counter, and what is reported is not
\* ahead of what is remembered, except between the two.
CollectorInv ==
  /\ CountTypes /\ Collector!TypeOK
  /\ \A c \in 1 .. 2 :
       /\ last[c] <= Counted(c)
       /\ reported[c] <= (IF Between(c) THEN Counted(c) ELSE last[c])

LEMMA CounterIs ==
  ASSUME NEW c \in 1 .. 2
  PROVE  <<eventsShipped, eventsDropped>>[c] = Counted(c)
<1>1. CASE c = 1
  BY <1>1 DEF Counted
<1>2. CASE c = 2
  BY <1>2 DEF Counted
<1> QED
  BY <1>1, <1>2

LEMMA CollectorInit == Init => CollectorInv
BY DEF Init, Delivery!Init, Collector!Init, CollectorInv, CountTypes, Collector!TypeOK,
       Between, Counted, Delivery!Statuses

\* The shipper counts on: that disturbs nothing.
LEMMA CountsOn ==
  ASSUME CollectorInv, CountTypes', UNCHANGED statVars,
         eventsShipped' >= eventsShipped, eventsDropped' >= eventsDropped
  PROVE  CollectorInv'
BY DEF CollectorInv, CountTypes, Collector!TypeOK, Between, Counted

LEMMA DeliverCounts ==
  ASSUME CountTypes,
         \/ \E r \in Requests : Delivery!Accept(r) \/ Delivery!Reject(r) \/ Delivery!Drop(r)
         \/ \E S \in SUBSET Requests : Delivery!Ship(S)
  PROVE  CountTypes' /\ eventsShipped' >= eventsShipped /\ eventsDropped' >= eventsDropped
<1>1. ASSUME NEW r \in Requests, Delivery!Accept(r) \/ Delivery!Reject(r) \/ Delivery!Drop(r)
      PROVE  CountTypes' /\ eventsShipped' >= eventsShipped /\ eventsDropped' >= eventsDropped
  BY <1>1 DEF CountTypes, Delivery!Statuses, Delivery!Accept, Delivery!Reject, Delivery!Drop
<1>2. ASSUME NEW S \in SUBSET Requests, Delivery!Ship(S)
      PROVE  CountTypes' /\ eventsShipped' >= eventsShipped /\ eventsDropped' >= eventsDropped
  <2>1. Cardinality(S) \in Nat
    BY FS_Subset, FS_CardinalityType
  <2>2. Delivery!Cardinality(S) = Cardinality(S)
    BY DEF Delivery!Cardinality, Cardinality
  <2> QED
    BY <1>2, <2>1, <2>2 DEF CountTypes, Delivery!Statuses, Delivery!Ship
<1> QED
  BY <1>1, <1>2

\* Counter n of the two goes from one value to another, and the collector goes on.
LEMMA Moved ==
  ASSUME CollectorInv, UNCHANGED logVars, Collector!TypeOK',
         \A c \in 1 .. 2 :
           /\ last'[c] <= Counted(c)
           /\ reported'[c] <= (IF Between(c)' THEN Counted(c) ELSE last'[c])
  PROVE  CollectorInv'
BY DEF CollectorInv, CountTypes, Counted

LEMMA CollectorAdds ==
  ASSUME CollectorInv, UNCHANGED logVars, Collector!AddDifference
  PROVE  CollectorInv'
<1> DEFINE n == next
           difference == Counted(n) - last[n]
<1>1. /\ collector = "adding" /\ n \in 1 .. 2 /\ last' = last
      /\ reported' = [reported EXCEPT ![n] = @ + difference]
  BY CounterIs DEF CollectorInv, Collector!TypeOK, Collector!AddDifference
<1>2. /\ difference \in Nat /\ reported[n] + difference <= Counted(n)
      /\ reported[n] + difference \in Nat
  BY <1>1 DEF CollectorInv, CountTypes, Collector!TypeOK, Counted, Between
<1>3. \/ n = 1 /\ next' = 2 /\ collector' = "adding"
      \/ n = 2 /\ next' = 1 /\ collector' = "storing"
  BY <1>1 DEF Collector!AddDifference, Collector!Advance
<1>4. Collector!TypeOK'
  BY <1>1, <1>2, <1>3 DEF CollectorInv, Collector!TypeOK
<1>5. ASSUME NEW c \in 1 .. 2
      PROVE  /\ last'[c] <= Counted(c)
             /\ reported'[c] <= (IF Between(c)' THEN Counted(c) ELSE last'[c])
  <2>1. last[c] <= Counted(c) /\ reported[c] <= (IF Between(c) THEN Counted(c) ELSE last[c])
    BY DEF CollectorInv
  <2>2. CASE c = n
    BY <1>1, <1>2, <1>3, <2>1, <2>2 DEF Between, CollectorInv, Collector!TypeOK
  <2>3. CASE c # n
    BY <1>1, <1>3, <2>1, <2>3 DEF Between, CollectorInv, Collector!TypeOK
  <2> QED
    BY <2>2, <2>3
<1> QED
  BY <1>4, <1>5, Moved

LEMMA CollectorStores ==
  ASSUME CollectorInv, UNCHANGED logVars, Collector!StoreLast
  PROVE  CollectorInv'
<1> DEFINE n == next
<1>1. /\ collector = "storing" /\ n \in 1 .. 2 /\ reported' = reported
      /\ last' = [last EXCEPT ![n] = Counted(n)]
  BY CounterIs DEF CollectorInv, Collector!TypeOK, Collector!StoreLast
<1>2. Counted(n) \in Nat
  BY DEF CollectorInv, CountTypes, Counted
<1>3. \/ n = 1 /\ next' = 2 /\ collector' = "storing"
      \/ n = 2 /\ next' = 1 /\ collector' = "select"
  BY <1>1 DEF Collector!StoreLast, Collector!Advance
<1>4. Collector!TypeOK'
  BY <1>1, <1>2, <1>3 DEF CollectorInv, Collector!TypeOK
<1>5. ASSUME NEW c \in 1 .. 2
      PROVE  /\ last'[c] <= Counted(c)
             /\ reported'[c] <= (IF Between(c)' THEN Counted(c) ELSE last'[c])
  <2>1. last[c] <= Counted(c) /\ reported[c] <= (IF Between(c) THEN Counted(c) ELSE last[c])
    BY DEF CollectorInv
  <2>2. CASE c = n
    BY <1>1, <1>2, <1>3, <2>1, <2>2 DEF Between, CollectorInv, Collector!TypeOK
  <2>3. CASE c # n
    BY <1>1, <1>3, <2>1, <2>3 DEF Between, CollectorInv, Collector!TypeOK
  <2> QED
    BY <2>2, <2>3
<1> QED
  BY <1>4, <1>5, Moved

LEMMA CollectorKept == CollectorInv /\ [Next]_vars => CollectorInv'
<1> SUFFICES ASSUME CollectorInv, [Next]_vars
             PROVE  CollectorInv'
  OBVIOUS
<1>1. CASE UNCHANGED <<logVars, statVars>>
  BY <1>1, CountsOn DEF CollectorInv, CountTypes
<1>2. ASSUME NEW r \in Requests, Report(r)
      PROVE  CollectorInv'
  <2>1. CASE UNCHANGED logVars
    BY <1>1, <1>2, <2>1 DEF Report
  <2>2. CASE Delivery!Accept(r) \/ Delivery!Reject(r)
    BY <1>2, <2>2, DeliverCounts, CountsOn DEF Report, CollectorInv
  <2> QED
    BY <1>2, <2>1, <2>2 DEF Report
<1>3. CASE Deliver
  BY <1>3, DeliverCounts, CountsOn DEF Deliver, CollectorInv
<1>4. CASE CollectorStep
  <2>1. CASE Collector!Collect \/ Collector!Return(phase \in {"draining", "closing"})
    <3>1. /\ collector = "select" /\ UNCHANGED <<last, reported>> /\ next' \in 1 .. 2
          /\ \/ collector' = "adding" /\ next' = 1
             \/ collector' = "returned"
      BY <2>1 DEF Collector!Collect, Collector!Return, CollectorInv, Collector!TypeOK
    <3> QED
      BY <1>4, <3>1 DEF CollectorStep, CollectorInv, CountTypes, Collector!TypeOK, Between, Counted
  <2> QED
    BY <1>4, <2>1, CollectorAdds, CollectorStores DEF CollectorStep, Collector!Update
<1>5. CASE \E r \in Requests : Arrive(r) \/ Evaluate(r) \/ Forbid(r)
  BY <1>1, <1>5 DEF Arrive, Evaluate, Forbid
<1>6. CASE NewList \/ BeginScrape \/ EndScrape \/ ListenFails \/ Signal \/ Expire \/ Shutdown
  BY <1>1, <1>6
     DEF NewList, BeginScrape, EndScrape, ListenFails, Signal, Expire, Shutdown, CloseChan,
         Stopped, Drain, CloseMetrics
<1>7. CASE UNCHANGED vars
  BY <1>1, <1>7 DEF vars
<1> QED
  BY <1>2, <1>3, <1>4, <1>5, <1>6, <1>7 DEF Next, Handle

\* NeverOverReported: what Prometheus reads is never ahead of the shipper, however
\* the collector's loads and the shipper's counting interleave.
THEOREM NothingOverReported == Spec => []NeverOverReported
<1>1. CollectorInv => NeverOverReported
  <2> SUFFICES ASSUME CollectorInv, NEW c \in 1 .. 2
               PROVE  last[c] <= Counted(c) /\ reported[c] <= Counted(c)
    BY CounterIs DEF NeverOverReported
  <2> QED
    BY DEF CollectorInv, CountTypes, Collector!TypeOK, Counted
<1> QED
  BY <1>1, CollectorInit, CollectorKept, PTL DEF Spec

-----------------------------------------------------------------------------
(* main.                                                                   *)

\* The server is left only when it has nothing open or the deadline has passed,
\* and only the end of the process cuts anybody off.
MainInv ==
  /\ phase = "closing" => expired \/ \A r \in Requests : ~Open(r)
  /\ \A r \in Requests : answer[r] = "cut" => phase = "crashed" \/ (phase = "exited" /\ expired)
  /\ phase = "exited" /\ scrape => expired

MainTypes ==
  /\ phase \in {"serving", "stopping", "draining", "closing", "exited", "crashed"}
  /\ pc \in [Requests -> {"new", "received", "denied", "reported", "done"}]
  /\ answer \in [Requests -> {"none", "200", "400", "403", "panicked", "cut"}]

LEMMA MainInit == Init => MainTypes /\ MainInv
BY DEF Init, MainTypes, MainInv, Open

\* A handler answers, but never cuts itself off, and is open before.
LEMMA HandlerLeaves ==
  ASSUME MainTypes, MainInv, NEW r \in Requests, Running, pc[r] \notin {"new", "done"},
         NEW step \in {"denied", "reported", "done"}, pc' = [pc EXCEPT ![r] = step],
         NEW code \in {"200", "400", "403", "panicked"},
         UNCHANGED answer \/ answer' = [answer EXCEPT ![r] = code],
         UNCHANGED <<mainVars, scrape>>
  PROVE  MainTypes' /\ MainInv'
BY DEF MainTypes, MainInv, Open

LEMMA MainKept == MainTypes /\ MainInv /\ [Next]_vars => MainTypes' /\ MainInv'
<1> SUFFICES ASSUME MainTypes, MainInv, [Next]_vars
             PROVE  MainTypes' /\ MainInv'
  OBVIOUS
<1>1. CASE UNCHANGED <<mainVars, scrape, pc, answer>>
  BY <1>1 DEF MainTypes, MainInv, Open
<1>2. ASSUME NEW r \in Requests, Arrive(r)
      PROVE  MainTypes' /\ MainInv'
  BY <1>2 DEF Arrive, MainTypes, MainInv, Open
<1>3. ASSUME NEW r \in Requests, Handle(r)
      PROVE  MainTypes' /\ MainInv'
  BY <1>3, HandlerLeaves DEF Handle, Evaluate, Report, Forbid, Finish
<1>4. CASE NewList \/ Deliver \/ CollectorStep \/ UNCHANGED vars
  BY <1>1, <1>4 DEF NewList, Deliver, CollectorStep, vars
<1>5. CASE BeginScrape \/ EndScrape
  BY <1>5 DEF BeginScrape, EndScrape, MainTypes, MainInv, Open
<1>6. CASE ListenFails
  BY <1>6 DEF ListenFails, End, MainTypes, MainInv, Open
<1>7. CASE Signal \/ Expire \/ CloseChan \/ Stopped
  BY <1>7 DEF Signal, Expire, CloseChan, Stopped, MainTypes, MainInv, Open
<1>8. CASE Drain
  BY <1>8 DEF Drain, MainTypes, MainInv, Open
<1>9. CASE CloseMetrics
  <2>1. /\ phase = "closing" /\ phase' = "exited" /\ UNCHANGED <<expired, scrape>>
        /\ expired \/ ~scrape
        /\ pc' = [r \in Requests |-> IF Open(r) THEN "done" ELSE pc[r]]
        /\ answer' = [r \in Requests |-> IF Open(r) THEN "cut" ELSE answer[r]]
    BY <1>9 DEF CloseMetrics, End
  <2>2. MainTypes'
    BY <2>1 DEF MainTypes
  <2>3. ASSUME NEW r \in Requests, answer'[r] = "cut"
        PROVE  expired
    BY <2>1, <2>3 DEF MainInv
  <2> QED
    BY <2>1, <2>2, <2>3 DEF MainInv
<1> QED
  BY <1>2, <1>3, <1>4, <1>5, <1>6, <1>7, <1>8, <1>9 DEF Next, Shutdown

\* NoneCutInTime: the shutdown is graceful until its deadline.
THEOREM ShutdownGraceful == Spec => []NoneCutInTime
<1>1. MainInv => NoneCutInTime
  BY DEF MainInv, NoneCutInTime
<1> QED
  BY <1>1, MainInit, MainKept, PTL DEF Spec

-----------------------------------------------------------------------------
(* The handlers.                                                           *)

ConfigTypes ==
  /\ edlMode \in {"blocklist", "allowlist", "disabled"} /\ shipping \in BOOLEAN
  /\ list \in Lists \cup {{}}
  /\ closed \in BOOLEAN /\ expired \in BOOLEAN /\ scrape \in BOOLEAN

BlockEvents ==
  [ip : Addrs, mode : {"blocklist", "allowlist"}, outcome : {"blocked"},
   reason : {"not_in_allowlist", "in_blocklist"}]

RequestTypes ==
  /\ asked \in [Requests -> Addrs \cup {BadAddr, "empty", "none"}]
  /\ onList \in [Requests -> BOOLEAN]
  /\ event \in [Requests -> {NoEvent} \cup BlockEvents]

\* What a handler knows and has told at each step of its way.  A request whose
\* denial has not been reported yet is unknown to the shipper.
HandlerInv(r) ==
  /\ pc[r] # "new" => asked[r] # "none"
  /\ pc[r] \in {"denied", "reported"} =>
       /\ asked[r] \in Addrs /\ edlMode # "disabled"
       /\ onList[r] <=> edlMode = "blocklist"
  /\ pc[r] # "done" => answer[r] = "none"
  /\ pc[r] \in {"new", "received", "denied"} => status[r] = "new" /\ event[r] = NoEvent
  /\ pc[r] = "reported" /\ shipping => status[r] \in {"pending", "shipped", "dropped"}
  /\ answer[r] = "403" /\ shipping => status[r] \in {"pending", "shipped", "dropped"}
  /\ status[r] # "new" => answer[r] \notin {"200", "400"}
  /\ event[r] # NoEvent =>
       /\ event[r].ip = asked[r]
       /\ event[r].reason = "in_blocklist" <=> onList[r]
       /\ event[r].mode = (IF onList[r] THEN "blocklist" ELSE "allowlist")

RequestInv == RequestTypes /\ \A r \in Requests : HandlerInv(r)

\* All there is, for TypeOK too.
IInv == CollectorInv /\ MainTypes /\ MainInv /\ ConfigTypes /\ RequestInv

LEMMA ConfigKept ==
  ConfigTypes /\ [Next]_vars => ConfigTypes'
<1> SUFFICES ASSUME ConfigTypes, [Next]_vars
             PROVE  ConfigTypes'
  OBVIOUS
<1> USE DEF ConfigTypes
<1>1. ASSUME NEW r \in Requests, Arrive(r) \/ Handle(r)
      PROVE  ConfigTypes'
  BY <1>1 DEF Arrive, Handle, Evaluate, Report, Forbid
<1>2. CASE NewList
  BY <1>2 DEF NewList
<1>3. CASE Deliver \/ CollectorStep \/ UNCHANGED vars
  BY <1>3 DEF Deliver, CollectorStep, vars
<1>4. CASE BeginScrape \/ EndScrape
  BY <1>4 DEF BeginScrape, EndScrape
<1>5. CASE ListenFails \/ Signal \/ Expire
  BY <1>5 DEF ListenFails, Signal, Expire
<1>6. CASE Shutdown
  BY <1>6 DEF Shutdown, CloseChan, Stopped, Drain, CloseMetrics
<1> QED
  BY <1>1, <1>2, <1>3, <1>4, <1>5, <1>6 DEF Next

LEMMA RequestInit == Init => ConfigTypes /\ RequestInv
<1> SUFFICES ASSUME Init
             PROVE  ConfigTypes /\ RequestInv
  OBVIOUS
<1>1. ConfigTypes
  <2>1. list \in (IF edlMode = "disabled" THEN {{}} ELSE Lists)
    BY DEF Init
  <2>2. list \in Lists \cup {{}}
    BY <2>1
  <2> QED
    BY <2>2 DEF Init, ConfigTypes
<1>2. RequestTypes
  BY DEF Init, RequestTypes
<1>3. ASSUME NEW r \in Requests
      PROVE  HandlerInv(r)
  BY DEF Init, Delivery!Init, HandlerInv
<1> QED
  BY <1>1, <1>2, <1>3 DEF RequestInv

\* A step of one handler leaves the other requests alone.
LEMMA OthersKept ==
  ASSUME RequestInv, NEW r \in Requests, NEW s \in Requests, s # r, UNCHANGED configVars,
         pc'[s] = pc[s], asked'[s] = asked[s], onList'[s] = onList[s],
         answer'[s] = answer[s], event'[s] = event[s], status'[s] = status[s]
  PROVE  HandlerInv(s)'
BY DEF RequestInv, HandlerInv

LEMMA ClientIPType ==
  ASSUME NEW h \in Headers
  PROVE  ClientIP(h) \in Addrs \cup {BadAddr, "empty"} /\ ClientIP(h) # "none"
BY DEF Headers, ClientIP

LEMMA ArriveKeeps ==
  ASSUME IInv, NEW r \in Requests, Arrive(r)
  PROVE  RequestInv'
<1>1. PICK h \in Headers : asked' = [asked EXCEPT ![r] = ClientIP(h)]
  BY DEF Arrive
<1>2. /\ pc[r] = "new" /\ pc' = [pc EXCEPT ![r] = "received"]
      /\ UNCHANGED <<configVars, onList, answer, event, logVars>>
  BY DEF Arrive
<1>3. RequestTypes'
  BY <1>1, <1>2, ClientIPType DEF IInv, RequestInv, RequestTypes
<1>4. HandlerInv(r)'
  BY <1>1, <1>2, ClientIPType DEF IInv, RequestInv, RequestTypes, HandlerInv, MainTypes
<1>5. ASSUME NEW s \in Requests, s # r
      PROVE  HandlerInv(s)'
  BY <1>1, <1>2, <1>5, OthersKept DEF IInv, RequestInv, RequestTypes, MainTypes
<1> QED
  BY <1>3, <1>4, <1>5 DEF RequestInv

LEMMA EvaluateKeeps ==
  ASSUME IInv, NEW r \in Requests, Evaluate(r)
  PROVE  RequestInv'
<1>1. /\ pc[r] = "received" /\ onList' = [onList EXCEPT ![r] = asked[r] \in list]
      /\ UNCHANGED <<configVars, asked, event, logVars>>
  BY DEF Evaluate
<1>2. \/ /\ pc' = [pc EXCEPT ![r] = "done"]
         /\ answer' = [answer EXCEPT ![r] = "400"] \/ answer' = [answer EXCEPT ![r] = "200"]
      \/ /\ ~Invalid(asked[r]) /\ ~Allowed(asked[r])
         /\ pc' = [pc EXCEPT ![r] = "denied"] /\ UNCHANGED answer
  BY DEF Evaluate, Finish
<1>3. RequestTypes'
  BY <1>1 DEF IInv, RequestInv, RequestTypes
<1>4. asked[r] # "none" /\ asked[r] \in Addrs \cup {BadAddr, "empty"}
  BY <1>1 DEF IInv, RequestInv, RequestTypes, HandlerInv
<1>5. ~Invalid(asked[r]) /\ ~Allowed(asked[r]) =>
        /\ asked[r] \in Addrs /\ edlMode # "disabled"
        /\ asked[r] \in list <=> edlMode = "blocklist"
  BY <1>4 DEF Invalid, Allowed
<1>6. HandlerInv(r)'
  <2>1. /\ status'[r] = "new" /\ event'[r] = NoEvent /\ answer[r] = "none"
        /\ asked'[r] = asked[r] /\ onList'[r] = (asked[r] \in list)
    BY <1>1 DEF IInv, RequestInv, RequestTypes, HandlerInv
  <2>2. CASE pc' = [pc EXCEPT ![r] = "done"] /\ answer'[r] \in {"400", "200"}
    <3>1. pc'[r] = "done"
      BY <2>2 DEF IInv, MainTypes
    <3> QED
      BY <1>4, <2>1, <2>2, <3>1 DEF HandlerInv
  <2>3. CASE /\ ~Invalid(asked[r]) /\ ~Allowed(asked[r])
             /\ pc' = [pc EXCEPT ![r] = "denied"] /\ UNCHANGED answer
    <3>1. pc'[r] = "denied"
      BY <2>3 DEF IInv, MainTypes
    <3> QED
      BY <1>1, <1>4, <1>5, <2>1, <2>3, <3>1 DEF HandlerInv
  <2> QED
    BY <1>2, <2>2, <2>3 DEF IInv, MainTypes
<1>7. ASSUME NEW s \in Requests, s # r
      PROVE  HandlerInv(s)'
  BY <1>1, <1>2, <1>7, OthersKept DEF IInv, RequestInv, RequestTypes, MainTypes
<1> QED
  BY <1>3, <1>6, <1>7 DEF RequestInv

LEMMA ReportKeeps ==
  ASSUME IInv, NEW r \in Requests, Report(r)
  PROVE  RequestInv'
<1>1. /\ pc[r] = "denied" /\ asked[r] \in Addrs /\ edlMode \in {"blocklist", "allowlist"}
      /\ onList[r] <=> edlMode = "blocklist"
      /\ status[r] = "new" /\ event[r] = NoEvent /\ answer[r] = "none"
  BY DEF Report, IInv, RequestInv, HandlerInv, ConfigTypes
<1>2. UNCHANGED <<configVars, asked, onList>>
  BY DEF Report
<1>3. CASE ~shipping /\ pc' = [pc EXCEPT ![r] = "reported"] /\ UNCHANGED <<answer, event, logVars>>
  <2>1. RequestTypes'
    BY <1>2, <1>3 DEF IInv, RequestInv, RequestTypes
  <2>2. HandlerInv(r)'
    BY <1>1, <1>2, <1>3 DEF IInv, RequestInv, RequestTypes, HandlerInv, MainTypes
  <2>3. ASSUME NEW s \in Requests, s # r
        PROVE  HandlerInv(s)'
    BY <1>2, <1>3, <2>3, OthersKept DEF IInv, RequestInv, RequestTypes, MainTypes
  <2> QED
    BY <2>1, <2>2, <2>3 DEF RequestInv
<1>4. CASE /\ Delivery!Accept(r) /\ pc' = [pc EXCEPT ![r] = "reported"] /\ UNCHANGED answer
           /\ event' = [event EXCEPT ![r] = AccessEvent(asked[r], edlMode, FALSE)]
  <2> DEFINE ev == AccessEvent(asked[r], edlMode, FALSE)
  <2>1. /\ ev \in BlockEvents /\ ev.ip = asked[r] /\ ev.mode = edlMode
        /\ ev.reason = "in_blocklist" <=> edlMode = "blocklist"
    BY <1>1 DEF AccessEvent, BlockEvents
  <2>2. status' = [status EXCEPT ![r] = "pending"]
    BY <1>4 DEF Delivery!Accept
  <2>3. RequestTypes'
    BY <1>2, <1>4, <2>1 DEF IInv, RequestInv, RequestTypes
  <2>4. HandlerInv(r)'
    BY <1>1, <1>2, <1>4, <2>1, <2>2
       DEF IInv, RequestInv, RequestTypes, HandlerInv, MainTypes, CollectorInv, CountTypes
  <2>5. ASSUME NEW s \in Requests, s # r
        PROVE  HandlerInv(s)'
    BY <1>2, <1>4, <2>2, <2>5, OthersKept
       DEF IInv, RequestInv, RequestTypes, MainTypes, CollectorInv, CountTypes
  <2> QED
    BY <2>3, <2>4, <2>5 DEF RequestInv
<1>5. CASE Delivery!Reject(r) /\ Finish(r, "panicked") /\ UNCHANGED event
  <2>1. /\ status' = [status EXCEPT ![r] = "rejected"]
        /\ pc' = [pc EXCEPT ![r] = "done"] /\ answer' = [answer EXCEPT ![r] = "panicked"]
    BY <1>5 DEF Delivery!Reject, Finish
  <2>2. RequestTypes'
    BY <1>2, <1>5 DEF IInv, RequestInv, RequestTypes
  <2>3. HandlerInv(r)'
    BY <1>1, <1>2, <1>5, <2>1
       DEF IInv, RequestInv, RequestTypes, HandlerInv, MainTypes, CollectorInv, CountTypes
  <2>4. ASSUME NEW s \in Requests, s # r
        PROVE  HandlerInv(s)'
    BY <1>2, <1>5, <2>1, <2>4, OthersKept
       DEF IInv, RequestInv, RequestTypes, MainTypes, CollectorInv, CountTypes
  <2> QED
    BY <2>2, <2>3, <2>4 DEF RequestInv
<1> QED
  BY <1>3, <1>4, <1>5 DEF Report

LEMMA ForbidKeeps ==
  ASSUME IInv, NEW r \in Requests, Forbid(r)
  PROVE  RequestInv'
<1>1. /\ pc[r] = "reported" /\ pc' = [pc EXCEPT ![r] = "done"]
      /\ answer' = [answer EXCEPT ![r] = "403"]
      /\ UNCHANGED <<configVars, asked, onList, event, logVars>>
  BY DEF Forbid, Finish
<1>2. RequestTypes'
  BY <1>1 DEF IInv, RequestInv, RequestTypes
<1>3. HandlerInv(r)'
  BY <1>1 DEF IInv, RequestInv, RequestTypes, HandlerInv, MainTypes
<1>4. ASSUME NEW s \in Requests, s # r
      PROVE  HandlerInv(s)'
  BY <1>1, <1>4, OthersKept DEF IInv, RequestInv, RequestTypes, MainTypes
<1> QED
  BY <1>2, <1>3, <1>4 DEF RequestInv

\* The shipper moves events on, among those it has been handed.
LEMMA DeliverKeeps ==
  ASSUME IInv, Deliver
  PROVE  RequestInv'
<1>1. UNCHANGED <<configVars, reqVars>>
  BY DEF Deliver
<1>2. \A r \in Requests :
        status'[r] = status[r] \/ (status[r] = "pending" /\ status'[r] \in {"shipped", "dropped"})
  BY DEF Deliver, Delivery!Drop, Delivery!Ship, IInv, CollectorInv, CountTypes
<1>3. ASSUME NEW r \in Requests
      PROVE  HandlerInv(r)'
  BY <1>1, <1>2 DEF IInv, RequestInv, HandlerInv
<1> QED
  BY <1>1, <1>3 DEF IInv, RequestInv, RequestTypes

\* The end of the process cuts off the open ones.
LEMMA EndKeeps ==
  ASSUME IInv, NEW how, End(how), UNCHANGED <<configVars, asked, onList, event, logVars>>
  PROVE  RequestInv'
<1>1. ASSUME NEW r \in Requests
      PROVE  HandlerInv(r)'
  BY DEF End, Open, IInv, RequestInv, HandlerInv, MainTypes
<1> QED
  BY <1>1 DEF IInv, RequestInv, RequestTypes

LEMMA RequestKept == IInv /\ [Next]_vars => RequestInv'
<1> SUFFICES ASSUME IInv, [Next]_vars
             PROVE  RequestInv'
  OBVIOUS
<1>1. CASE UNCHANGED <<configVars, reqVars, logVars>>
  BY <1>1 DEF IInv, RequestInv, RequestTypes, HandlerInv
<1>2. ASSUME NEW r \in Requests, Arrive(r) \/ Handle(r)
      PROVE  RequestInv'
  BY <1>2, ArriveKeeps, EvaluateKeeps, ReportKeeps, ForbidKeeps DEF Handle
<1>3. CASE Deliver
  BY <1>3, DeliverKeeps
<1>4. CASE ListenFails \/ CloseMetrics
  BY <1>4, EndKeeps DEF ListenFails, CloseMetrics
<1>5. CASE NewList \/ BeginScrape \/ EndScrape \/ CollectorStep
  BY <1>1, <1>5 DEF NewList, BeginScrape, EndScrape, CollectorStep
<1>6. CASE Signal \/ Expire \/ CloseChan \/ Stopped \/ Drain \/ UNCHANGED vars
  BY <1>1, <1>6 DEF Signal, Expire, CloseChan, Stopped, Drain, vars
<1> QED
  BY <1>2, <1>3, <1>4, <1>5, <1>6 DEF Next, Shutdown

LEMMA Inductive == Spec => []IInv
<1>1. Init => IInv
  BY CollectorInit, MainInit, RequestInit DEF IInv
<1>2. IInv /\ [Next]_vars => IInv'
  BY CollectorKept, MainKept, ConfigKept, RequestKept DEF IInv
<1> QED
  BY <1>1, <1>2, PTL DEF Spec

\* TypeOK.
THEOREM TypeCorrect == Spec => []TypeOK
<1>1. IInv => TypeOK
  BY DEF IInv, CollectorInv, CountTypes, MainTypes, ConfigTypes, RequestInv, RequestTypes,
         BlockEvents, TypeOK
<1> QED
  BY <1>1, Inductive, PTL

\* DenialsReported: no client is told 403 whose event the shipper does not have,
\* although Stop may close the channel at any step of the handler.
THEOREM DenialsAreReported == Spec => []DenialsReported
<1>1. IInv => DenialsReported
  BY DEF IInv, RequestInv, HandlerInv, DenialsReported
<1> QED
  BY <1>1, Inductive, PTL

\* EventTellsTruth: the reason, taken from the mode, is that of the decision.
THEOREM EventsTellTruth == Spec => []EventTellsTruth
<1>1. IInv => EventTellsTruth
  BY DEF IInv, RequestInv, HandlerInv, EventTellsTruth
<1> QED
  BY <1>1, Inductive, PTL
-----------------------------------------------------------------------------
(* From the handlers' events to Prometheus.                                *)

\* What is known of the shipper's counters as an EventDelivery.
Counts == INSTANCE EventDeliveryProofs WITH Events <- Requests

\* Whatever the shipper has, a handler has given it.
SentInv ==
  \A r \in Requests : status[r] \in {"pending", "shipped", "dropped"} => event[r] # NoEvent

\* A step of the process is one of the shipper, or none for it.
LEMMA ShipperSteps == [Next]_vars => [Counts!Next]_(Counts!vars)
<1> SUFFICES ASSUME [Next]_vars
             PROVE  Counts!Next \/ UNCHANGED logVars
  BY DEF Counts!vars
<1>1. ASSUME NEW r \in Requests, Delivery!Accept(r) \/ Delivery!Reject(r) \/ Delivery!Drop(r)
      PROVE  Counts!Next
  BY <1>1 DEF Delivery!Accept, Delivery!Reject, Delivery!Drop,
              Counts!Accept, Counts!Reject, Counts!Drop, Counts!Next
<1>2. ASSUME NEW S \in SUBSET Requests, Delivery!Ship(S)
      PROVE  Counts!Next
  <2>1. /\ Delivery!Cardinality(S) = Counts!Cardinality(S)
        /\ Delivery!IsFiniteSet(S) = Counts!IsFiniteSet(S)
    BY DEF Delivery!Cardinality, Counts!Cardinality, Delivery!IsFiniteSet, Counts!IsFiniteSet
  <2>2. Counts!Ship(S)
    BY <1>2, <2>1 DEF Delivery!Ship, Counts!Ship
  <2> QED
    BY <2>2 DEF Counts!Next
<1>3. ASSUME NEW r \in Requests, Arrive(r) \/ Handle(r)
      PROVE  Counts!Next \/ UNCHANGED logVars
  BY <1>1, <1>3 DEF Arrive, Handle, Evaluate, Report, Forbid
<1>4. CASE Deliver
  BY <1>1, <1>2, <1>4 DEF Deliver
<1>5. CASE NewList \/ BeginScrape \/ EndScrape \/ CollectorStep \/ UNCHANGED vars
  BY <1>5 DEF NewList, BeginScrape, EndScrape, CollectorStep, vars
<1>6. CASE ListenFails \/ Signal \/ Expire \/ Shutdown
  BY <1>6 DEF ListenFails, Signal, Expire, Shutdown, CloseChan, Stopped, Drain, CloseMetrics
<1> QED
  BY <1>3, <1>4, <1>5, <1>6 DEF Next

LEMMA SentStep == IInv /\ SentInv /\ [Next]_vars => SentInv'
<1> SUFFICES ASSUME IInv, SentInv, [Next]_vars
             PROVE  SentInv'
  OBVIOUS
<1> USE DEF SentInv
<1>1. CASE UNCHANGED <<event, logVars>>
  BY <1>1
<1>2. ASSUME NEW r \in Requests, Report(r)
      PROVE  SentInv'
  <2>1. status \in [Requests -> Delivery!Statuses] /\ DOMAIN event = Requests
    BY DEF IInv, CollectorInv, CountTypes, RequestInv, RequestTypes
  <2>2. CASE UNCHANGED <<event, logVars>>
    BY <2>2
  <2>3. CASE /\ Delivery!Accept(r)
             /\ event' = [event EXCEPT ![r] = AccessEvent(asked[r], edlMode, FALSE)]
    <3>1. AccessEvent(asked[r], edlMode, FALSE).outcome # NoEvent.outcome
      BY DEF AccessEvent, NoEvent
    <3>2. event'[r] # NoEvent
      BY <2>1, <2>3, <3>1
    <3>3. \A s \in Requests : s # r => event'[s] = event[s] /\ status'[s] = status[s]
      BY <2>1, <2>3 DEF Delivery!Accept
    <3> QED
      BY <3>2, <3>3
  <2>4. CASE Delivery!Reject(r) /\ UNCHANGED event
    BY <2>1, <2>4 DEF Delivery!Reject
  <2> QED
    BY <1>2, <2>2, <2>3, <2>4 DEF Report
<1>3. CASE Deliver
  <2>1. \A r \in Requests :
          status'[r] = status[r] \/ status[r] = "pending"
    BY <1>3 DEF Deliver, Delivery!Drop, Delivery!Ship, IInv, CollectorInv, CountTypes
  <2> QED
    BY <1>3, <2>1 DEF Deliver
<1>4. CASE \E r \in Requests : Arrive(r) \/ Evaluate(r) \/ Forbid(r)
  BY <1>1, <1>4 DEF Arrive, Evaluate, Forbid
<1>5. CASE NewList \/ BeginScrape \/ EndScrape \/ CollectorStep \/ UNCHANGED vars
  BY <1>1, <1>5 DEF NewList, BeginScrape, EndScrape, CollectorStep, vars
<1>6. CASE ListenFails \/ Signal \/ Expire \/ Shutdown
  BY <1>1, <1>6 DEF ListenFails, Signal, Expire, Shutdown, CloseChan, Stopped, Drain, CloseMetrics
<1> QED
  BY <1>2, <1>3, <1>4, <1>5, <1>6 DEF Next, Handle

\* Two disjoint sets of requests with an event are no more than there are events.
LEMMA EndsFit ==
  ASSUME NEW A, NEW B, NEW C \in SUBSET Requests, A \cap B = {}, A \subseteq C, B \subseteq C
  PROVE  Cardinality(A) + Cardinality(B) <= Cardinality(C)
<1>1. IsFiniteSet(C) /\ IsFiniteSet(A) /\ IsFiniteSet(B) /\ Cardinality(A \cap B) = 0
  BY FS_Subset, FS_EmptySet
<1>2. Cardinality(A \cup B) = Cardinality(A) + Cardinality(B) - Cardinality(A \cap B)
  BY <1>1, FS_Union
<1>3. Cardinality(A \cup B) <= Cardinality(C)
  BY <1>1, FS_Subset
<1>4. Cardinality(A) \in Nat /\ Cardinality(B) \in Nat
  BY <1>1, FS_CardinalityType
<1> QED
  BY <1>1, <1>2, <1>3, <1>4

\* ReportedWereSent: Prometheus shows no more shipped and dropped events than
\* handlers have sent, by any interleaving of handlers, shipper and collector.
THEOREM NoMoreThanSent == Spec => []ReportedWereSent
<1>1. Init => Counts!CountsInv /\ SentInv
  <2>1. Init => Counts!Init
    BY DEF Init, Delivery!Init, Counts!Init
  <2>2. Init => SentInv
    BY DEF Init, Delivery!Init, SentInv
  <2> QED
    BY <2>1, <2>2, Counts!CountsInit
<1>2. Counts!CountsInv /\ [Next]_vars => Counts!CountsInv'
  BY ShipperSteps, Counts!CountsStep
<1>3. CollectorInv /\ Counts!CountsInv /\ SentInv => ReportedWereSent
  <2> SUFFICES ASSUME CollectorInv, Counts!CountsInv, SentInv
               PROVE  ReportedWereSent
    OBVIOUS
  <2> DEFINE Sent == {r \in Requests : event[r] # NoEvent}
  <2>1. /\ eventsShipped = Counts!Cardinality(Counts!Ended("shipped"))
        /\ eventsDropped = Counts!Cardinality(Counts!Ended("dropped"))
    BY DEF Counts!CountsInv, Counts!CountsExact
  <2>2. \A S : Counts!Cardinality(S) = Cardinality(S)
    BY DEF Counts!Cardinality, Cardinality
  <2>3. /\ Counts!Ended("shipped") \cap Counts!Ended("dropped") = {}
        /\ Counts!Ended("shipped") \subseteq Sent /\ Counts!Ended("dropped") \subseteq Sent
    BY DEF Counts!Ended, SentInv
  <2>4. eventsShipped + eventsDropped <= Cardinality(Sent)
    <3>1. Sent \in SUBSET Requests
      OBVIOUS
    <3> HIDE DEF Sent
    <3> QED
      BY <2>1, <2>2, <2>3, <3>1, EndsFit
  <2>5. /\ reported[1] \in Nat /\ reported[2] \in Nat
        /\ reported[1] <= eventsShipped /\ reported[2] <= eventsDropped
    BY DEF CollectorInv, CountTypes, Collector!TypeOK, Counted
  <2>6. Cardinality(Sent) \in Nat
    BY FS_Subset, FS_CardinalityType
  <2>7. eventsShipped \in Nat /\ eventsDropped \in Nat
    BY DEF CollectorInv, CountTypes
  <2>8. reported[1] + reported[2] <= Cardinality(Sent)
    <3> HIDE DEF Sent
    <3> QED
      BY <2>4, <2>5, <2>6, <2>7
  <2> QED
    BY <2>8 DEF ReportedWereSent
<1>4. IInv => CollectorInv
  BY DEF IInv
<1> QED
  BY <1>1, <1>2, <1>3, <1>4, SentStep, Inductive, PTL DEF Spec
=============================================================================
