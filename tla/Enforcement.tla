---------------------------- MODULE Enforcement ----------------------------
(***************************************************************************)
(* How the list of addresses gets from the EDL server to the decisions:    *)
(* edl/fetcher.go, edl/updater.go, ipmatcher/matcher.go, and the decision  *)
(* of auth/handler.go.                                                     *)
(*                                                                         *)
(*   EDL server --GET--> FetchWithRetry --> matcher.Update --> status      *)
(*                                            |  ipset, count              *)
(*   Traefik --request--> ServeHTTP --Contains-/                           *)
(*                                                                         *)
(* Goroutines: main until the first list is loaded, then the update loop   *)
(* (never both: upc is their common program counter), and one for each     *)
(* request.  matcher.Update writes two atomics, one after the other, and   *)
(* updateNow commits the status in a third step; requests run in between.  *)
(*                                                                         *)
(* A list is represented by the number of its edition.  The update period, *)
(* the delay between attempts and the two hours after which auth/health.go *)
(* takes the list for stale may elapse at any time.  Left out: what only   *)
(* /health reports (updateCount, the times) and the metrics.               *)
(***************************************************************************)
EXTENDS Integers, Sequences

CONSTANTS
  Addrs,            \* the IP addresses
  BadAddr,          \* what does not parse as an address
  Requests,         \* the requests Traefik forwards
  EDL,              \* the editions of the list: [ips, entries], entries counts lines
  MaxRetryAttempts  \* config.MaxRetryAttempts, any integer

ASSUME EnforcementAssumption ==
  /\ EDL \in Seq([ips : SUBSET Addrs, entries : Nat]) /\ EDL # << >>
  /\ BadAddr \notin Addrs
  /\ "none" \notin Addrs \cup {BadAddr}
  /\ MaxRetryAttempts \in Int

VARIABLES
  edlMode,     \* config.EDLMode, settled before anything here starts
  edition,     \* the edition the EDL server hands out
  phase,       \* main: "starting", "serving", "exited" after os.Exit(1), or "down"
               \* once it has cancelled ctx
  upc,         \* the goroutine inside updateNow, or between two updates
  attempt,     \* the attempt of FetchWithRetry
  fetched,     \* the list updateNow has in hand
  ipset,       \* Matcher.ipset
  count,       \* Matcher.count
  lastUpdate,  \* "zero" until the first update is committed, then "fresh", and
               \* "stale" when that is more than two hours ago
  lastError,   \* "nil" or "error"
  asked,       \* the client address of each request, "none" before it arrives
  verdict,     \* what ServeHTTP decides about it
  lastGood,    \* history: the edition of the last successful fetch
  arrivedAt,   \* history: the list in force when the request arrived
  judgedBy     \* history: the list it was decided with

listVars   == <<ipset, count>>
statusVars == <<lastUpdate, lastError>>
reqVars    == <<asked, verdict, arrivedAt, judgedBy>>
vars == <<edlMode, edition, phase, upc, attempt, fetched, listVars, statusVars, reqVars,
          lastGood>>

Editions == 1 .. Len(EDL)
Empty == 0     \* the empty set ipmatcher.New stores
NilSet == -1   \* the nil *IPSet

Members(v) == IF v \in Editions THEN EDL[v].ips ELSE {}
Entries(v) == IF v \in Editions THEN EDL[v].entries ELSE 0

\* updater.Start fetches the first list on main's goroutine, unless the
\* deployment is disabled: then the servers start at once.
Init ==
  /\ edlMode \in {"blocklist", "allowlist", "disabled"}
  /\ edition = 1
  /\ IF edlMode = "disabled" THEN phase = "serving" /\ upc = "off"
                             ELSE phase = "starting" /\ upc = "retry"
  /\ attempt = 0 /\ fetched = Empty
  /\ ipset = Empty /\ count = 0
  /\ lastUpdate = "zero" /\ lastError = "nil"
  /\ asked = [r \in Requests |-> "none"] /\ verdict = [r \in Requests |-> "none"]
  /\ lastGood = Empty
  /\ arrivedAt = [r \in Requests |-> Empty] /\ judgedBy = [r \in Requests |-> Empty]

\* The EDL server's side: a new edition replaces the old one.
Publish ==
  /\ edition < Len(EDL)
  /\ edition' = edition + 1
  /\ UNCHANGED <<edlMode, phase, upc, attempt, fetched, listVars, statusVars, reqVars,
                 lastGood>>

-----------------------------------------------------------------------------
(* FetchWithRetry.                                                         *)

AttemptsLeftLate == attempt <= MaxRetryAttempts    \* mutation: one attempt too many
AttemptsLeft == attempt < MaxRetryAttempts

\* Mutation: after the last attempt, `return nil, 0, nil`.
RetryWithoutError ==
  /\ upc = "retry"
  /\ \/ AttemptsLeft /\ upc' = "get" /\ UNCHANGED fetched
     \/ ~AttemptsLeft /\ upc' = "storeSet" /\ fetched' = NilSet
  /\ UNCHANGED <<edlMode, edition, phase, attempt, listVars, statusVars, reqVars, lastGood>>

\* The head of its loop, and the wait before every attempt but the first.
\* With no attempt allowed at all the loop ends without an error and without
\* a list.
Retry ==
  /\ upc = "retry"
  /\ \/ /\ AttemptsLeft
        /\ upc' = "get"
        /\ UNCHANGED fetched
     \/ /\ attempt > 0
        /\ ~AttemptsLeft \/ phase = "down"
        /\ upc' = "failed"
        /\ UNCHANGED fetched
     \/ /\ ~AttemptsLeft /\ attempt = 0
        /\ fetched' = NilSet
        /\ upc' = "storeSet"
  /\ UNCHANGED <<edlMode, edition, phase, attempt, listVars, statusVars, reqVars, lastGood>>

\* One GET is answered with a list that parses to its end.
FetchOK ==
  /\ upc = "get" /\ phase # "down"
  /\ fetched' = edition
  /\ lastGood' = edition
  /\ upc' = "storeSet"
  /\ UNCHANGED <<edlMode, edition, phase, attempt, listVars, statusVars, reqVars>>

\* Mutation: parseEDL does not ask scanner.Err, so a body that breaks off is the
\* list of what has arrived; here nothing has, the list of no entry.
FetchInstallsPart ==
  /\ upc = "get"
  /\ \/ attempt' = attempt + 1 /\ upc' = "retry" /\ UNCHANGED fetched
     \/ fetched' = Empty /\ upc' = "storeSet" /\ UNCHANGED attempt
  /\ UNCHANGED <<edlMode, edition, phase, listVars, statusVars, reqVars, lastGood>>

\* It fails: no answer, an error status, or a body that breaks off, of which
\* parseEDL returns nothing.
FetchFails ==
  /\ upc = "get"
  /\ attempt' = attempt + 1
  /\ upc' = "retry"
  /\ UNCHANGED <<edlMode, edition, phase, fetched, listVars, statusVars, reqVars, lastGood>>

-----------------------------------------------------------------------------
(* The rest of updateNow and the loop around it.                           *)

\* matcher.Update, first store.
StoreSet ==
  /\ upc = "storeSet"
  /\ ipset' = fetched
  /\ upc' = "storeCount"
  /\ UNCHANGED <<edlMode, edition, phase, attempt, fetched, count, statusVars, reqVars,
                 lastGood>>

\* Mutation: count.Add instead of count.Store.
AddCount ==
  /\ upc = "storeCount"
  /\ count' = count + Entries(fetched)
  /\ upc' = "commit"
  /\ UNCHANGED <<edlMode, edition, phase, attempt, fetched, ipset, statusVars, reqVars,
                 lastGood>>

\* matcher.Update, second store.
StoreCount ==
  /\ upc = "storeCount"
  /\ count' = Entries(fetched)
  /\ upc' = "commit"
  /\ UNCHANGED <<edlMode, edition, phase, attempt, fetched, ipset, statusVars, reqVars,
                 lastGood>>

\* Mutation: the time of the first update is kept.
CommitOnce ==
  /\ upc = "commit"
  /\ lastUpdate' = (IF lastUpdate = "zero" THEN "fresh" ELSE lastUpdate) /\ lastError' = "nil"
  /\ phase' = IF phase = "starting" THEN "serving" ELSE phase
  /\ upc' = "idle"
  /\ UNCHANGED <<edlMode, edition, attempt, fetched, listVars, reqVars, lastGood>>

\* The status, under u.mu.  After the first update main starts the servers.
Commit ==
  /\ upc = "commit"
  /\ lastUpdate' = "fresh" /\ lastError' = "nil"
  /\ phase' = IF phase = "starting" THEN "serving" ELSE phase
  /\ upc' = "idle"
  /\ UNCHANGED <<edlMode, edition, attempt, fetched, listVars, reqVars, lastGood>>

\* Mutation: a failed update stores the empty list.
UpdateFailsOpen ==
  /\ upc = "failed"
  /\ lastError' = "error"
  /\ ipset' = Empty
  /\ upc' = "idle"
  /\ UNCHANGED <<edlMode, edition, phase, attempt, fetched, count, lastUpdate, reqVars,
                 lastGood>>

\* Mutation: the loop of runUpdateLoop returns on an error.
UpdateFailsForGood ==
  /\ upc = "failed"
  /\ lastError' = "error"
  /\ phase' = IF phase = "starting" THEN "exited" ELSE phase
  /\ upc' = "off"
  /\ UNCHANGED <<edlMode, edition, attempt, fetched, listVars, lastUpdate, reqVars, lastGood>>

\* The error return: main gives up when it was the first update.
UpdateFails ==
  /\ upc = "failed"
  /\ lastError' = "error"
  /\ \/ phase = "starting" /\ phase' = "exited" /\ upc' = "off"
     \/ phase # "starting" /\ upc' = "idle" /\ UNCHANGED phase
  /\ UNCHANGED <<edlMode, edition, attempt, fetched, listVars, lastUpdate, reqVars, lastGood>>

\* The select of runUpdateLoop.
UpdateTick ==
  /\ upc = "idle"
  /\ \/ upc' = "retry" /\ attempt' = 0
     \/ phase = "down" /\ upc' = "off" /\ UNCHANGED attempt
  /\ UNCHANGED <<edlMode, edition, phase, fetched, listVars, statusVars, reqVars, lastGood>>

\* Two hours have passed since the last update that succeeded.
Age ==
  /\ lastUpdate = "fresh"
  /\ lastUpdate' = "stale"
  /\ UNCHANGED <<edlMode, edition, phase, upc, attempt, fetched, listVars, lastError, reqVars,
                 lastGood>>

\* /ready answers 200.
Ready == lastUpdate = "fresh" /\ count # 0

\* waitForShutdown ends with cancel().
Shutdown ==
  /\ phase = "serving"
  /\ phase' = "down"
  /\ UNCHANGED <<edlMode, edition, upc, attempt, fetched, listVars, statusVars, reqVars,
                 lastGood>>

-----------------------------------------------------------------------------
(* ServeHTTP.                                                              *)

\* A request comes in and extractClientIP finds a, or something else that is not
\* the empty string (see ForwardAuth for that).
Arrive(r, a) ==
  /\ phase = "serving"
  /\ asked[r] = "none"
  /\ asked' = [asked EXCEPT ![r] = a]
  /\ arrivedAt' = [arrivedAt EXCEPT ![r] = ipset]
  /\ UNCHANGED <<edlMode, edition, phase, upc, attempt, fetched, listVars, statusVars,
                 verdict, judgedBy, lastGood>>

\* Mutation: evaluateAccess does not look at deploymentEnabled.
DecisionAlways(a) ==
  IF a = BadAddr THEN "invalid"
  ELSE IF (edlMode = "blocklist") # (a \in Members(ipset)) THEN "allowed" ELSE "denied"

\* evaluateAccess for an address, with the list Contains loads; the nil list
\* panics.
Decision(a) ==
  IF edlMode = "disabled" THEN "allowed"
  ELSE IF a = BadAddr THEN "invalid"
  ELSE IF ipset = NilSet THEN "panic"
  ELSE IF (edlMode = "blocklist") # (a \in Members(ipset)) THEN "allowed" ELSE "denied"

Decide(r) ==
  /\ asked[r] # "none" /\ verdict[r] = "none"
  /\ verdict' = [verdict EXCEPT ![r] = Decision(asked[r])]
  /\ judgedBy' = [judgedBy EXCEPT ![r] = ipset]
  /\ UNCHANGED <<edlMode, edition, phase, upc, attempt, fetched, listVars, statusVars, asked,
                 arrivedAt, lastGood>>

-----------------------------------------------------------------------------
Update ==
  \/ Retry \/ FetchOK \/ FetchFails
  \/ StoreSet \/ StoreCount \/ Commit \/ UpdateFails
  \/ UpdateTick

Serve == \E r \in Requests : Decide(r) \/ \E a \in Addrs \cup {BadAddr} : Arrive(r, a)

Next == Publish \/ Update \/ Age \/ Shutdown \/ Serve

Spec == Init /\ [][Next]_vars

\* The update loop runs, its ticker fires, and a server that is asked again
\* and again answers now and then.
FairSpec == Spec /\ WF_vars(Update) /\ SF_vars(FetchOK)

-----------------------------------------------------------------------------
TypeOK ==
  /\ edlMode \in {"blocklist", "allowlist", "disabled"}
  /\ edition \in Editions
  /\ phase \in {"starting", "serving", "exited", "down"}
  /\ upc \in {"retry", "get", "storeSet", "storeCount", "commit", "failed", "idle", "off"}
  /\ attempt \in Nat /\ attempt <= (IF MaxRetryAttempts > 0 THEN MaxRetryAttempts ELSE 0)
  /\ fetched \in Editions \cup {Empty, NilSet}
  /\ ipset \in Editions \cup {Empty, NilSet}
  /\ count \in Nat
  /\ lastUpdate \in {"zero", "fresh", "stale"} /\ lastError \in {"nil", "error"}
  /\ asked \in [Requests -> Addrs \cup {BadAddr, "none"}]
  /\ verdict \in [Requests -> {"none", "allowed", "denied", "invalid", "panic"}]
  /\ lastGood \in Editions \cup {Empty}
  /\ arrivedAt \in [Requests -> Editions \cup {Empty, NilSet}]
  /\ judgedBy \in [Requests -> Editions \cup {Empty, NilSet}]

\* README.md:109, "The last successfully fetched EDL remains active until
\* connectivity is restored": whatever fails, and however often, the list in
\* force is the last one fetched, except in the moment it takes to install it.
LastGoodStaysActive == upc # "storeSet" => ipset = lastGood

\* A request is never judged by an older list than the one in force when it
\* arrived, nor by one the server has not published: so a client that saw an
\* update take effect never sees it undone.
NeverGoesBack ==
  \A r \in Requests :
    verdict[r] # "none" => arrivedAt[r] <= judgedBy[r] /\ judgedBy[r] <= edition

Access == INSTANCE AccessControl WITH list <- ipset

\* Fetching, retrying, installing in two stores and deciding with one read of
\* the list implement the owner's view: see AccessControl.
RefinesAccess == Access!Spec

\* Every edition, or a later one, is in force some time after it has been
\* published, unless the process has ended: no failure stops the update loop.
EventuallyEnforced ==
  \A e \in Editions : edition = e ~> ipset >= e \/ phase \in {"exited", "down"} \/ edlMode = "disabled"

\* The count that /health and /ready report is that of the list in force, except
\* between the two stores of matcher.Update: no failed or cut off update leaves
\* the two apart.
CountFollows == upc # "storeCount" => count = Entries(ipset)

\* However often the updates fail and for however long the list was stale,
\* /ready answers 200 again and again, as long as the EDL server recovers now and
\* then and its list has entries: readiness lost in an outage comes back.
ReadyAgain ==
  []<>(Ready \/ Entries(ipset) = 0 \/ phase \in {"exited", "down"} \/ edlMode = "disabled")

\* README.md:117, "Returns 200 (allowed) or 403 (denied) to Traefik": a request
\* with a valid address is answered.
NeverPanics == \A r \in Requests : verdict[r] # "panic"
=============================================================================
