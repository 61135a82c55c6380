-------------------------- MODULE DeploymentProofs --------------------------
(***************************************************************************)
(* Proofs about Deployment, for every number of sessions.                  *)
(*                                                                         *)
(* The invariant: sessions only grow, from what a reader holds over the    *)
(* session in force to the last one issued; and what is final, an open     *)
(* gate or an ended refresh loop, has a 410 or the name of an inactive     *)
(* deployment behind it, at every step of its way from the answer.         *)
(***************************************************************************)
EXTENDS Deployment, TLAPS

USE DeploymentAssumption

SessionsGrow ==
  /\ session <= issued
  /\ \A r \in Readers :
       /\ reading[r] # "nothing" => urlOf[r] <= session
       /\ reading[r] = "both" => urlOf[r] <= tokenOf[r] /\ tokenOf[r] <= session

\* A 410 on its way from the answer to the end of the loop.
GoneInv ==
  /\ answer = 410 => gone
  /\ deploymentDeleted => gone
  /\ loop = "ended" => deploymentDeleted

\* The mode is set in the one step in which main is answered.
ModeInv ==
  /\ main \in {"bootstrapping", "configuring"} => edlMode = "none"
  /\ edlMode = "disabled" => toldBy # "active"

\* What a step of the token manager does to its fields, whoever took it.
LEMMA TakeType ==
  ASSUME TypeOK, TakeSession \/ TakeError
  PROVE  /\ session' \in {session, issued} /\ session' \in 0 .. MaxIssued
         /\ expired' \in BOOLEAN /\ deploymentDeleted' \in BOOLEAN
BY DEF TypeOK, TakeSession, TakeError, Permanent

LEMMA TypeInit == Init => TypeOK
<1> SUFFICES ASSUME Init PROVE TypeOK
  OBVIOUS
<1>1. 0 \in 0 .. MaxIssued
  OBVIOUS
<1>2. /\ reading \in [Readers -> {"nothing", "url", "both"}]
      /\ urlOf \in [Readers -> 0 .. MaxIssued] /\ tokenOf \in [Readers -> 0 .. MaxIssued]
  BY <1>1 DEF Init
<1>3. expired \in BOOLEAN /\ deploymentDeleted \in BOOLEAN /\ gone \in BOOLEAN
  BY DEF Init
<1> QED
  BY <1>1, <1>2, <1>3 DEF Init, TypeOK, Deployments

LEMMA TypeStep == TypeOK /\ [Next]_vars => TypeOK'
<1> SUFFICES ASSUME TypeOK, [Next]_vars PROVE TypeOK'
  OBVIOUS
<1>1. ASSUME NEW d \in Deployments, Change(d) PROVE TypeOK'
  BY <1>1 DEF Change, TypeOK, history, tmVars, readVars
<1>2. ASSUME NEW status \in Statuses, AnswerBootstrap(status) PROVE TypeOK'
  BY <1>2 DEF AnswerBootstrap, TypeOK, tmVars, readVars
<1>3. CASE Bootstrapped
  BY <1>3, TakeType DEF Bootstrapped, StartupError, TypeOK, history, platformVars, readVars
<1>4. ASSUME NEW status \in Statuses, NEW body \in Bodies, Configured(status, body)
      PROVE  TypeOK'
  <2>1. edlMode' \in {"none", "blocklist", "allowlist", "disabled"}
        /\ main' \in {"starting", "exited"}
    BY <1>4 DEF Configured, StartupError, ModeOf, TypeOK
  <2>2. reading' \in [Readers -> {"nothing", "url", "both"}]
        /\ toldBy' \in Deployments \cup {"nobody", "gone"}
    BY <1>4 DEF Configured, TypeOK
  <2> QED
    BY <1>4, <2>1, <2>2 DEF Configured, TypeOK, platformVars, tmVars
<1>5. CASE StartServing
  BY <1>5 DEF StartServing, TypeOK, history, platformVars, tmVars, readVars
<1>6. CASE StartLoop
  BY <1>6 DEF StartLoop, TypeOK, history, platformVars, tmVars, readVars
<1>7. CASE Refresh
  BY <1>7 DEF Refresh, TypeOK, history, platformVars, tmVars, readVars
<1>8. CASE Refreshed
  BY <1>8, TakeType DEF Refreshed, TypeOK, history, platformVars, readVars
<1>9. CASE Expire
  BY <1>9 DEF Expire, TypeOK, history, platformVars, readVars
<1>10. ASSUME NEW r \in Readers, Read(r) PROVE TypeOK'
  BY <1>10 DEF Read, ReadNext, TypeOK, history, platformVars, tmVars
<1>11. CASE Sent
  BY <1>11 DEF Sent, TypeOK, history, platformVars, tmVars
<1>12. CASE UNCHANGED vars
  BY <1>12 DEF vars, TypeOK, history, platformVars, tmVars, readVars
<1> QED
  BY <1>1, <1>2, <1>3, <1>4, <1>5, <1>6, <1>7, <1>8, <1>9, <1>10, <1>11, <1>12
  DEF Next, Platform, Main, Loop, Deployments

\* Every field keeps its type, and a purpose the platform may add later still
\* gives one of the two modes of enforcement.
THEOREM TypeCorrect == Spec => []TypeOK
BY TypeInit, TypeStep, PTL DEF Spec

-----------------------------------------------------------------------------
(* The token and its URL.                                                  *)

LEMMA SessionsInit == Init => SessionsGrow
BY DEF Init, SessionsGrow, Readers

LEMMA SessionsStep == TypeOK /\ SessionsGrow /\ [Next]_vars => SessionsGrow'
<1> SUFFICES ASSUME TypeOK, SessionsGrow, [Next]_vars PROVE SessionsGrow'
  OBVIOUS
<1>1. ASSUME NEW d \in Deployments, Change(d) PROVE SessionsGrow'
  BY <1>1 DEF Change, SessionsGrow, tmVars, readVars
<1>2. ASSUME NEW status \in Statuses, AnswerBootstrap(status) PROVE SessionsGrow'
  <2>1. issued <= issued' /\ session' = session
    BY <1>2 DEF AnswerBootstrap, TypeOK, tmVars
  <2>2. session' <= issued'
    BY <1>2, <2>1, TypeStep DEF SessionsGrow, TypeOK, AnswerBootstrap, tmVars
  <2> QED
    BY <1>2, <2>1, <2>2 DEF AnswerBootstrap, SessionsGrow, readVars
<1>3. ASSUME TakeSession \/ TakeError,
             UNCHANGED <<issued, urlOf, tokenOf>>, UNCHANGED reading
      PROVE  SessionsGrow'
  <2>1. session <= session' /\ session' <= issued'
    BY <1>3, TakeType DEF SessionsGrow, TypeOK
  <2>2. session \in Nat /\ session' \in Nat
    BY <1>3, TakeType DEF TypeOK
  <2>3. ASSUME NEW r \in Readers
        PROVE  /\ reading'[r] # "nothing" => urlOf'[r] <= session'
               /\ reading'[r] = "both" => urlOf'[r] <= tokenOf'[r] /\ tokenOf'[r] <= session'
    <3>1. urlOf[r] \in Nat /\ tokenOf[r] \in Nat
      BY DEF TypeOK
    <3> QED
      BY <1>3, <2>1, <2>2, <3>1 DEF SessionsGrow
  <2> QED
    BY <2>1, <2>3 DEF SessionsGrow
<1>4. CASE Bootstrapped
  BY <1>3, <1>4 DEF Bootstrapped, platformVars, readVars
<1>5. CASE Refreshed
  BY <1>3, <1>5 DEF Refreshed, platformVars, readVars
<1>6. ASSUME NEW status \in Statuses, NEW body \in Bodies, Configured(status, body)
      PROVE  SessionsGrow'
  <2>1. UNCHANGED <<session, issued, urlOf, tokenOf>>
        /\ reading' = [reading EXCEPT !["config"] = "nothing"]
    BY <1>6 DEF Configured, platformVars, tmVars
  <2> QED
    BY <2>1 DEF SessionsGrow, TypeOK
<1>7. CASE Sent
  <2>1. UNCHANGED <<session, issued, urlOf, tokenOf>>
        /\ reading' = [reading EXCEPT !["logs"] = "nothing"]
    BY <1>7 DEF Sent, platformVars, tmVars
  <2> QED
    BY <2>1 DEF SessionsGrow, TypeOK
<1>8. ASSUME NEW r \in Readers, Read(r) PROVE SessionsGrow'
  <2>1. UNCHANGED <<session, issued>> /\ session \in Nat
    BY <1>8 DEF Read, platformVars, tmVars, TypeOK
  <2>2. ASSUME NEW q \in Readers
        PROVE  /\ reading'[q] # "nothing" => urlOf'[q] <= session
               /\ reading'[q] = "both" => urlOf'[q] <= tokenOf'[q] /\ tokenOf'[q] <= session
    BY <1>8, <2>1 DEF Read, ReadNext, SessionsGrow, TypeOK
  <2> QED
    BY <2>1, <2>2 DEF SessionsGrow
<1>9. CASE StartServing \/ StartLoop \/ Refresh \/ Expire \/ UNCHANGED vars
  BY <1>9 DEF StartServing, StartLoop, Refresh, Expire, vars, SessionsGrow, platformVars,
              tmVars, readVars
<1> QED
  BY <1>1, <1>2, <1>4, <1>5, <1>6, <1>7, <1>8, <1>9
  DEF Next, Platform, Main, Loop, Deployments

\* No request, of main or of the shipper, carries a token older than the URL
\* it goes to, wherever a refresh comes in between.
THEOREM TokensNotOlder == Spec => []TokenNotOlder
<1>1. TypeOK /\ SessionsGrow => TokenNotOlder
  BY DEF SessionsGrow, TokenNotOlder
<1> QED
  BY TypeCorrect, SessionsInit, SessionsStep, <1>1, PTL DEF Spec

-----------------------------------------------------------------------------
(* What is final.                                                          *)

LEMMA GoneInit == Init => GoneInv
BY DEF Init, GoneInv, Awaited

LEMMA GoneStep == GoneInv /\ [Next]_vars => GoneInv'
<1> SUFFICES ASSUME GoneInv, [Next]_vars PROVE GoneInv'
  OBVIOUS
<1>1. ASSUME NEW status \in Statuses, AnswerBootstrap(status) PROVE GoneInv'
  BY <1>1 DEF AnswerBootstrap, GoneInv, tmVars
<1>2. ASSUME TakeSession \/ TakeError PROVE deploymentDeleted' => gone
  BY <1>2 DEF TakeSession, TakeError, Permanent, GoneInv
<1>3. CASE Bootstrapped
  <2>1. answer' = Awaited /\ gone' = gone /\ (loop' = loop \/ loop' = "started")
    BY <1>3 DEF Bootstrapped, history
  <2>2. deploymentDeleted => deploymentDeleted'
    BY <1>3 DEF Bootstrapped, TakeSession, TakeError
  <2>3. deploymentDeleted' => gone'
    BY <1>2, <1>3, <2>1 DEF Bootstrapped
  <2>4. answer' # 410
    BY <2>1 DEF Awaited
  <2>5. loop' = "ended" => deploymentDeleted'
    BY <2>1, <2>2 DEF GoneInv
  <2> QED
    BY <2>3, <2>4, <2>5 DEF GoneInv
<1>4. CASE Refreshed
  BY <1>2, <1>4 DEF Refreshed, GoneInv, Awaited, history
<1>5. CASE StartLoop \/ Refresh
  BY <1>5 DEF StartLoop, Refresh, GoneInv, tmVars, history
<1>6. CASE UNCHANGED <<answer, deploymentDeleted, loop, gone>>
  BY <1>6 DEF GoneInv
<1> QED
  BY <1>1, <1>3, <1>4, <1>5, <1>6
  DEF Next, Platform, Main, Loop, Change, Configured, StartServing, Expire, Read, Sent,
      vars, tmVars, history

LEMMA ModeInit == Init => ModeInv
BY DEF Init, ModeInv

LEMMA ModeStep == TypeOK /\ ModeInv /\ [Next]_vars => ModeInv'
<1> SUFFICES ASSUME TypeOK, ModeInv, [Next]_vars PROVE ModeInv'
  OBVIOUS
<1>1. CASE Bootstrapped
  BY <1>1 DEF Bootstrapped, StartupError, ModeInv, history
<1>2. ASSUME NEW status \in Statuses, NEW body \in Bodies, Configured(status, body)
      PROVE  ModeInv'
  <2>1. edlMode = "none" /\ main' \in {"starting", "exited"}
    BY <1>2 DEF Configured, StartupError, ModeInv
  <2>2. CASE SaysInactive(status, body)
    <3>1. deployment # "active" /\ body # "none"
      BY <1>2, <2>2 DEF Configured, ConfigAnswers, SaysInactive
    <3>2. toldBy' # "active"
      BY <1>2, <3>1 DEF Configured
    <3> QED
      BY <2>1, <3>2 DEF ModeInv
  <2>3. CASE ~SaysInactive(status, body) /\ edlMode' = "disabled"
    <3>1. status = 410
      BY <1>2, <2>1, <2>3 DEF Configured, StartupError, Permanent, ModeOf
    <3>2. body = "none" \/ deployment # "active"
      <4> SUFFICES ASSUME deployment = "active" PROVE body = "none"
        OBVIOUS
      <4>1. ConfigAnswers = (Strays \X {"none"}) \cup {<<200, "enabled">>}
        BY DEF ConfigAnswers
      <4>2. <<410, body>> \in ConfigAnswers
        BY <1>2, <3>1 DEF Configured
      <4> QED
        BY <4>1, <4>2
    <3>3. toldBy' # "active"
      BY <1>2, <3>1, <3>2 DEF Configured
    <3> QED
      BY <2>1, <3>3 DEF ModeInv
  <2>4. CASE edlMode' # "disabled"
    BY <2>1, <2>4 DEF ModeInv
  <2> QED
    BY <2>2, <2>3, <2>4
<1>3. CASE StartServing
  BY <1>3 DEF StartServing, ModeInv, history
<1>4. CASE UNCHANGED <<main, edlMode, toldBy>>
  BY <1>4 DEF ModeInv
<1> QED
  BY <1>1, <1>2, <1>3, <1>4
  DEF Next, Platform, Main, Loop, Change, AnswerBootstrap, StartLoop, Refresh, Refreshed,
      Expire, Read, Sent, vars, history

\* NoTransientIsFinal: whatever the platform, or a proxy before it, answers and in
\* whatever order, the gate is open only after a 410 or an answer that names an
\* inactive deployment, and the refreshing has ended only after a 410.
THEOREM TransientNeverFinal == Spec => []NoTransientIsFinal
<1>1. ModeInv /\ GoneInv => NoTransientIsFinal
  BY DEF ModeInv, GoneInv, NoTransientIsFinal
<1> QED
  BY TypeCorrect, ModeInit, ModeStep, GoneInit, GoneStep, <1>1, PTL DEF Spec
=============================================================================
