----------------------------- MODULE Deployment -----------------------------
(***************************************************************************)
(* How the process learns what to enforce and keeps its access to the      *)
(* platform: config/loader.go, api/bootstrap.go, api/config.go and         *)
(* api/token_manager.go.                                                   *)
(*                                                                         *)
(*   main:  bootstrap --> start the refresh loop --> GET the configuration *)
(*          --> mode --> first list --> serving                            *)
(*   loop:  timer --> bootstrap --> token and URLs, or "deleted"           *)
(*   shipper and main:  read a URL, read the token, send a request         *)
(*                                                                         *)
(* The token and the two URLs of a bootstrap answer are written together   *)
(* under tm.mu and stand as one number, the session; a reader takes the    *)
(* lock twice, once for the URL and once for the token.  Timers may fire   *)
(* at any time.  Not here: tm.Stop, ForceRefresh and                       *)
(* GetTokenWithMinValidity, which have no callers.                         *)
(***************************************************************************)
EXTENDS Naturals

CONSTANT MaxIssued   \* bound: sessions are numbered up to here, then alike

ASSUME DeploymentAssumption == MaxIssued \in Nat \ {0}

VARIABLES
  deployment,         \* on the platform: "active", "disabled" or "deleted"
  issued,             \* the last session the platform has handed out
  main,               \* "bootstrapping", "configuring", "starting" the updater,
                      \* "serving", or "exited" after os.Exit(1)
  edlMode,            \* cfg.EDLMode, "none" before it is set
  loop,               \* the refresh loop: "off", "started", "waiting", "posting", "ended"
  answer,             \* the status the bootstrap request under way got, or Awaited
  session,            \* currentToken, configURL, logsURL; 0 before there are any
  expired,            \* the current token has run out
  deploymentDeleted,  \* tm.deploymentDeleted
  reading,            \* what each reader has in hand: "nothing", "url", "both"
  urlOf, tokenOf,     \* ... and from which session
  toldBy,             \* history: what the deployment was when main was last answered,
                      \* "gone" if the answer was a 410 that does not say
  gone                \* history: a bootstrap request has been answered with 410

platformVars == <<deployment, issued>>
readVars     == <<reading, urlOf, tokenOf>>
tmVars       == <<session, expired, deploymentDeleted>>
history      == <<toldBy, gone>>
vars == <<platformVars, main, edlMode, loop, answer, tmVars, readVars, history>>

Readers == {"config", "logs"}   \* GetEDLConfig, and send of the log shipper

NoAnswer == 0   \* no connection, the client's timeout, or a body that does not decode
Awaited == 1    \* not answered yet

Init ==
  /\ deployment \in {"active", "disabled", "deleted"} /\ issued = 0
  /\ main = "bootstrapping" /\ edlMode = "none"
  /\ loop = "off" /\ answer = Awaited
  /\ session = 0 /\ expired = FALSE /\ deploymentDeleted = FALSE
  /\ reading = [r \in Readers |-> "nothing"]
  /\ urlOf = [r \in Readers |-> 0] /\ tokenOf = [r \in Readers |-> 0]
  /\ toldBy = "nobody" /\ gone = FALSE

-----------------------------------------------------------------------------
(* The platform.                                                           *)

\* Its owner disables, enables or deletes the deployment.
Change(d) ==
  /\ deployment # "deleted" /\ d # deployment
  /\ deployment' = d
  /\ UNCHANGED <<issued, main, edlMode, loop, answer, tmVars, readVars, history>>

\* What any request may meet: no answer, or the status of a proxy, of a wrong URL
\* or of a platform in trouble, whatever the deployment is; 500 stands for all the
\* statuses the code does not tell apart.
Strays == {NoAnswer, 403, 404, 410, 500}

\* The statuses a bootstrap request may get.
BootstrapStatuses == Strays \cup (IF deployment = "deleted" THEN {} ELSE {200})

\* The answers a configuration request may get: a status, and of the body its error
\* code or its field `enabled`.
ConfigAnswers ==
  (Strays \X {"none"}) \cup
  CASE deployment = "active"   -> {<<200, "enabled">>}
    [] deployment = "disabled" -> {<<200, "not enabled">>}
                                    \cup ({403, 404, 410} \X {"DEPLOYMENT_DISABLED"})
    [] deployment = "deleted"  -> {403, 404, 410} \X {"DEPLOYMENT_DELETED"}

\* A bootstrap request is answered; with 200 there is a new session.
AnswerBootstrap(status) ==
  /\ main = "bootstrapping" \/ (loop = "posting" /\ main # "exited")
  /\ answer = Awaited /\ status \in BootstrapStatuses
  /\ answer' = status
  /\ issued' = IF status = 200 /\ issued < MaxIssued THEN issued + 1 ELSE issued
  /\ gone' = (gone \/ status = 410)
  /\ UNCHANGED <<deployment, main, edlMode, loop, tmVars, readVars, toldBy>>

-----------------------------------------------------------------------------
(* Bootstrap, as Initialize and the refresh loop see it.                   *)

\* Mutation: a 403 is permanent too.
ForbiddenIsPermanent(status) == status \in {403, 410}

\* A PermanentError: 410 and nothing else, whoever answers it.
Permanent(status) == status = 410

\* The answer is a new session: all fields change under one lock.
TakeSession ==
  /\ answer = 200
  /\ session' = issued
  /\ expired' = FALSE
  /\ UNCHANGED deploymentDeleted

\* It is an error: note a deletion.
TakeError ==
  /\ answer \notin {200, Awaited}
  /\ deploymentDeleted' = (deploymentDeleted \/ Permanent(answer))
  /\ UNCHANGED <<session, expired>>

-----------------------------------------------------------------------------
(* main: config.Load, then initEDL.                                        *)

\* InitializeServices meets an error: a PermanentError disables enforcement,
\* any other ends in os.Exit(1).
StartupError(permanent) ==
  \/ permanent /\ edlMode' = "disabled" /\ main' = "starting"
  \/ ~permanent /\ main' = "exited" /\ UNCHANGED edlMode

\* Initialize has its answer.  Its error is a new one made from the text of
\* the first, never a PermanentError.
Bootstrapped ==
  /\ main = "bootstrapping"
  /\ \/ TakeSession /\ main' = "configuring" /\ loop' = "started" /\ UNCHANGED edlMode
     \/ TakeError /\ StartupError(FALSE) /\ UNCHANGED loop
  /\ answer' = Awaited
  /\ UNCHANGED <<platformVars, readVars, history>>

\* Mutation: a 403 or 404 counts whatever code it carries.
AnyRefusal(status, body) == status \in {403, 404, 410}

\* GetEDLConfig recognises an answer about the deployment, and returns the
\* configuration that stands for "allow all".
SaysInactive(status, body) ==
  status \in {403, 404, 410} /\ body \in {"DEPLOYMENT_DISABLED", "DEPLOYMENT_DELETED"}

\* Mutation: no default case, the purpose is the mode.
ModeIsPurpose(purpose) == purpose

\* applyEDLConfig: whatever is not an allowlist is a blocklist.
ModeOf(purpose) == IF purpose = "allowlist" THEN "allowlist" ELSE "blocklist"

Purposes == {"allowlist", "blocklist", "other"}

\* GetEDLConfig has its answer and the configuration is applied.  Of a 200 only the
\* purpose counts: `enabled` is set to true before applyEDLConfig looks at it.
Configured(status, body) ==
  /\ main = "configuring" /\ reading["config"] = "both"
  /\ <<status, body>> \in ConfigAnswers
  /\ \/ /\ status = 200
        /\ \E purpose \in Purposes : edlMode' = ModeOf(purpose)
        /\ main' = "starting"
     \/ /\ SaysInactive(status, body)
        /\ edlMode' = "disabled"
        /\ main' = "starting"
     \/ /\ status # 200 /\ ~SaysInactive(status, body)
        /\ StartupError(Permanent(status))
  /\ toldBy' = IF <<status, body>> = <<410, "none">> THEN "gone" ELSE deployment
  /\ reading' = [reading EXCEPT !["config"] = "nothing"]
  /\ UNCHANGED <<platformVars, loop, answer, tmVars, urlOf, tokenOf, gone>>

\* initEDL, and the servers start; without a first list the process ends.
StartServing ==
  /\ main = "starting"
  /\ \/ main' = "serving"
     \/ edlMode # "disabled" /\ main' = "exited"
  /\ UNCHANGED <<platformVars, edlMode, loop, answer, tmVars, readVars, history>>

-----------------------------------------------------------------------------
(* The refresh loop.                                                       *)

StartLoop ==
  /\ loop = "started" /\ main # "exited"
  /\ loop' = IF deploymentDeleted THEN "ended" ELSE "waiting"
  /\ UNCHANGED <<platformVars, main, edlMode, answer, tmVars, readVars, history>>

\* Mutation: no look at deploymentDeleted.
RefreshAnyway ==
  /\ loop = "waiting" /\ main # "exited"
  /\ loop' = "posting"
  /\ UNCHANGED <<platformVars, main, edlMode, answer, tmVars, readVars, history>>

\* The timer fires, after 80% of the token's lifetime or 30 s after a failure.
Refresh ==
  /\ loop = "waiting" /\ main # "exited"
  /\ loop' = IF deploymentDeleted THEN "ended" ELSE "posting"
  /\ UNCHANGED <<platformVars, main, edlMode, answer, tmVars, readVars, history>>

\* refresh returns, with or without an error; the timer is set again.
Refreshed ==
  /\ loop = "posting" /\ main # "exited"
  /\ TakeSession \/ TakeError
  /\ loop' = "waiting"
  /\ answer' = Awaited
  /\ UNCHANGED <<platformVars, main, edlMode, readVars, history>>

\* ExpiresIn seconds have passed.
Expire ==
  /\ session # 0 /\ ~expired /\ main # "exited"
  /\ expired' = TRUE
  /\ UNCHANGED <<platformVars, main, edlMode, loop, answer, session, deploymentDeleted,
                 readVars, history>>

-----------------------------------------------------------------------------
(* The readers.                                                            *)

CanRead(r) == main = (IF r = "config" THEN "configuring" ELSE "serving")

\* Mutation: the token is read first.
ReadTokenFirst(r) ==
  \/ /\ reading[r] = "nothing"
     /\ reading' = [reading EXCEPT ![r] = "url"]
     /\ tokenOf' = [tokenOf EXCEPT ![r] = session]
     /\ UNCHANGED urlOf
  \/ /\ reading[r] = "url"
     /\ reading' = [reading EXCEPT ![r] = "both"]
     /\ urlOf' = [urlOf EXCEPT ![r] = session]
     /\ UNCHANGED tokenOf

\* Get...URL, then GetToken: each under the lock, not the two together.
ReadNext(r) ==
  \/ /\ reading[r] = "nothing"
     /\ reading' = [reading EXCEPT ![r] = "url"]
     /\ urlOf' = [urlOf EXCEPT ![r] = session]
     /\ UNCHANGED tokenOf
  \/ /\ reading[r] = "url"
     /\ reading' = [reading EXCEPT ![r] = "both"]
     /\ tokenOf' = [tokenOf EXCEPT ![r] = session]
     /\ UNCHANGED urlOf

Read(r) ==
  /\ CanRead(r)
  /\ ReadNext(r)
  /\ UNCHANGED <<platformVars, main, edlMode, loop, answer, tmVars, history>>

\* The shipper's POST is over.
Sent ==
  /\ main = "serving" /\ reading["logs"] = "both"
  /\ reading' = [reading EXCEPT !["logs"] = "nothing"]
  /\ UNCHANGED <<platformVars, main, edlMode, loop, answer, tmVars, urlOf, tokenOf, history>>

-----------------------------------------------------------------------------
Statuses == Strays \cup {200}
Bodies == {"none", "enabled", "not enabled", "DEPLOYMENT_DISABLED", "DEPLOYMENT_DELETED"}

Platform ==
  \/ \E d \in {"active", "disabled", "deleted"} : Change(d)
  \/ \E status \in Statuses : AnswerBootstrap(status)

Main == Bootstrapped \/ StartServing \/ \E s \in Statuses, b \in Bodies : Configured(s, b)

Loop == StartLoop \/ Refresh \/ Refreshed

Next == Platform \/ Main \/ Loop \/ Expire \/ Sent \/ \E r \in Readers : Read(r)

Spec == Init /\ [][Next]_vars

\* The platform's answer to a bootstrap for a deployment that is deleted.
SaysGone == deployment = "deleted" /\ AnswerBootstrap(410)

\* The goroutines run, the timers fire and the clients' timeouts end every
\* request; a platform that is asked again and again answers now and then.
FairSpec ==
  /\ Spec
  /\ WF_vars(Main) /\ WF_vars(Loop) /\ WF_vars(Read("config"))
  /\ WF_vars(\E status \in Statuses : AnswerBootstrap(status))
  /\ SF_vars(AnswerBootstrap(200)) /\ SF_vars(SaysGone)

-----------------------------------------------------------------------------
Deployments == {"active", "disabled", "deleted"}

TypeOK ==
  /\ deployment \in Deployments /\ issued \in 0 .. MaxIssued
  /\ main \in {"bootstrapping", "configuring", "starting", "serving", "exited"}
  /\ edlMode \in {"none", "blocklist", "allowlist", "disabled"}
  /\ loop \in {"off", "started", "waiting", "posting", "ended"}
  /\ answer \in Statuses \cup {Awaited}
  /\ session \in 0 .. MaxIssued
  /\ expired \in BOOLEAN /\ deploymentDeleted \in BOOLEAN
  /\ reading \in [Readers -> {"nothing", "url", "both"}]
  /\ urlOf \in [Readers -> 0 .. MaxIssued] /\ tokenOf \in [Readers -> 0 .. MaxIssued]
  /\ toldBy \in Deployments \cup {"nobody", "gone"} /\ gone \in BOOLEAN

\* bootstrap.go:132, "Other errors (including 403) are temporary": no outage, no
\* refused token and no 404 of a wrong URL opens the gate or ends the refreshing.
\* The gate is open only after an answer that names an inactive deployment or a
\* 410, and the refreshing has ended only after a 410.  A 410 counts whoever sends
\* it, so the one of a proxy does both; and a 200 enforces, whatever `enabled` says.
NoTransientIsFinal ==
  /\ edlMode = "disabled" => toldBy # "active"
  /\ deploymentDeleted \/ loop = "ended" => gone

\* Although the session is renewed between the two reads, a request never
\* carries a token older than the URL it goes to.
TokenNotOlder == \A r \in Readers : reading[r] = "both" => urlOf[r] <= tokenOf[r]

\* No failure but a 410 ends the refreshing: an expired token is replaced some time
\* later, unless the process has once been told 410.
EventuallyRefreshed ==
  (loop # "off" /\ expired) ~> (~expired \/ gone \/ main = "exited")

\* A deletion reaches the process, and then it leaves the platform alone.
EventuallyQuiet ==
  (deployment = "deleted" /\ loop # "off") ~> (loop = "ended" \/ main = "exited")

\* token_manager.go:46, "Deployment has been permanently deleted (410). Switching
\* to allow-all mode": a process that knows of the deletion does not give up.
DeletionAllowsAll == deploymentDeleted /\ deployment = "deleted" => main # "exited"

\* README.md:107, "If the deployment is disabled in the ELLIO platform, the
\* middleware falls back to allowing all traffic", and :108, "Similar failsafe
\* applies - all traffic is allowed": also for a deployment that is disabled or
\* deleted after the start.
FailsafeApplies ==
  (main = "serving" /\ toldBy = "active" /\ deployment # "active")
    ~> (edlMode = "disabled" \/ deployment = "active")
=============================================================================
