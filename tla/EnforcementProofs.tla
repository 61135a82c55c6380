------------------------- MODULE EnforcementProofs -------------------------
(***************************************************************************)
(* For every sequence of editions, every number of requests and every      *)
(* positive number of attempts: the last list fetched stays in force, no   *)
(* request is judged by an older one than it arrived under, and            *)
(* Enforcement implements AccessControl.  With MaxRetryAttempts <= 0 none  *)
(* of this holds: the update installs the nil list.                        *)
(*                                                                         *)
(* The invariant relates five numbers in a chain,                          *)
(*     arrivedAt[r] <= judgedBy[r] <= ipset <= lastGood <= edition,        *)
(* and says at which point of updateNow the last three are equal.          *)
(***************************************************************************)
EXTENDS Enforcement, SequenceTheorems, TLAPS

USE EnforcementAssumption
USE DEF listVars, statusVars, reqVars, Editions, Empty, NilSet

LEMMA EditionsExist == Len(EDL) \in Nat /\ Len(EDL) >= 1
OBVIOUS

LEMMA EditionType ==
  ASSUME NEW v \in Editions
  PROVE  EDL[v].ips \subseteq Addrs /\ EDL[v].entries \in Nat
<1>1. EDL[v] \in [ips : SUBSET Addrs, entries : Nat]
  BY ElementOfSeq
<1> QED
  BY <1>1

LEMMA EntriesType ==
  ASSUME NEW v \in Int
  PROVE  Entries(v) \in Nat
<1>1. CASE v \in Editions
  BY <1>1, EditionType DEF Entries
<1>2. CASE v \notin Editions
  BY <1>2 DEF Entries
<1> QED
  BY <1>1, <1>2

-----------------------------------------------------------------------------
(* Types.                                                                  *)

\* A GET is made only while attempts are left.
AttemptInv == upc = "get" => AttemptsLeft

TypeIInv == TypeOK /\ AttemptInv

LEMMA TypeInit == Init => TypeIInv
BY EditionsExist DEF Init, TypeIInv, TypeOK, AttemptInv

LEMMA TypeStep == TypeIInv /\ [Next]_vars => TypeIInv'
<1> SUFFICES ASSUME TypeIInv, [Next]_vars
             PROVE  TypeIInv'
  OBVIOUS
<1> USE DEF TypeIInv, TypeOK, AttemptInv, AttemptsLeft
<1>1. CASE Publish
  BY <1>1, EditionsExist DEF Publish
<1>2. CASE Retry
  BY <1>2 DEF Retry
<1>3. CASE FetchOK
  BY <1>3 DEF FetchOK
<1>4. CASE FetchFails
  BY <1>4 DEF FetchFails
<1>5. CASE StoreSet
  BY <1>5 DEF StoreSet
<1>6. CASE StoreCount
  <2>1. fetched \in Int
    BY EditionsExist
  <2>2. Entries(fetched) \in Nat
    BY <2>1, EntriesType
  <2> QED
    BY <1>6, <2>2 DEF StoreCount
<1>7. CASE Commit \/ UpdateFails
  BY <1>7 DEF Commit, UpdateFails
<1>8. CASE UpdateTick
  <2>1. attempt' = 0 \/ attempt' = attempt
    BY <1>8 DEF UpdateTick
  <2>2. attempt' \in Nat /\ attempt' <= (IF MaxRetryAttempts > 0 THEN MaxRetryAttempts ELSE 0)
    BY <2>1
  <2>3. upc' \in {"retry", "off"} /\ UNCHANGED <<edlMode, edition, phase, fetched, listVars,
                                                 statusVars, reqVars, lastGood>>
    BY <1>8 DEF UpdateTick
  <2> QED
    BY <2>2, <2>3
<1>9. ASSUME NEW r \in Requests, Decide(r)
      PROVE  TypeIInv'
  BY <1>9 DEF Decide, Decision
<1>10. ASSUME NEW r \in Requests, NEW a \in Addrs \cup {BadAddr}, Arrive(r, a)
       PROVE  TypeIInv'
  BY <1>10 DEF Arrive
<1>11. CASE Shutdown \/ Age
  BY <1>11 DEF Shutdown, Age
<1>12. CASE UNCHANGED vars
  BY <1>12 DEF vars
<1> QED
  BY <1>1, <1>2, <1>3, <1>4, <1>5, <1>6, <1>7, <1>8, <1>9, <1>10, <1>11, <1>12
     DEF Next, Update, Serve

-----------------------------------------------------------------------------
(* The chain of editions, when attempts are allowed at all.                *)

ChainInv ==
  /\ 0 <= ipset /\ ipset <= lastGood /\ lastGood <= edition
  /\ upc = "storeSet" => fetched = lastGood /\ fetched > 0
  /\ upc # "storeSet" => ipset = lastGood

\* There is a list before anybody can ask for it.
LoadedInv ==
  /\ edlMode = "disabled" => upc = "off"
  /\ upc \in {"storeCount", "commit"} => ipset > 0
  /\ edlMode # "disabled" /\ phase \in {"serving", "down"} => ipset > 0

RequestInv ==
  \A r \in Requests :
    /\ asked[r] = "none" => verdict[r] = "none"
    /\ arrivedAt[r] <= ipset
    /\ verdict[r] # "none" => arrivedAt[r] <= judgedBy[r] /\ judgedBy[r] <= ipset
    /\ edlMode # "disabled" /\ asked[r] # "none" => ipset > 0

IInv == TypeOK /\ AttemptInv /\ ChainInv /\ LoadedInv /\ RequestInv

LEMMA IInvInit == Init => IInv
<1> SUFFICES ASSUME Init
             PROVE  IInv
  OBVIOUS
<1>1. TypeOK /\ AttemptInv
  BY TypeInit DEF TypeIInv
<1>2. ChainInv /\ LoadedInv
  BY DEF Init, ChainInv, LoadedInv
<1>3. RequestInv
  BY DEF Init, RequestInv
<1> QED
  BY <1>1, <1>2, <1>3 DEF IInv

\* Requests keep what they have when the list only moves forward.
LEMMA RequestsKept ==
  ASSUME TypeOK, RequestInv, UNCHANGED <<reqVars, edlMode>>,
         ipset' \in Int, ipset <= ipset'
  PROVE  RequestInv'
<1> SUFFICES ASSUME NEW r \in Requests
             PROVE  /\ asked[r] = "none" => verdict[r] = "none"
                    /\ arrivedAt[r] <= ipset'
                    /\ verdict[r] # "none" => arrivedAt[r] <= judgedBy[r] /\ judgedBy[r] <= ipset'
                    /\ edlMode # "disabled" /\ asked[r] # "none" => ipset' > 0
  BY DEF RequestInv
<1>1. arrivedAt[r] \in Int /\ judgedBy[r] \in Int /\ ipset \in Int
  BY EditionsExist DEF TypeOK
<1> QED
  BY <1>1 DEF RequestInv

LEMMA IInvStep == MaxRetryAttempts > 0 /\ IInv /\ [Next]_vars => IInv'
<1> SUFFICES ASSUME MaxRetryAttempts > 0, IInv, [Next]_vars
             PROVE  ChainInv' /\ LoadedInv' /\ RequestInv'
  BY TypeStep DEF IInv, TypeIInv
<1> USE DEF IInv
<1>0. ipset \in Int /\ lastGood \in Int /\ edition \in Int /\ fetched \in Int
  BY EditionsExist DEF TypeOK
<1>1. CASE Publish
  BY <1>0, <1>1, RequestsKept DEF Publish, ChainInv, LoadedInv
<1>2. CASE Retry
  <2>1. upc' \in {"get", "failed"} /\ upc = "retry"
        /\ UNCHANGED <<edlMode, edition, phase, listVars, reqVars, lastGood>>
    BY <1>2 DEF Retry, AttemptsLeft
  <2> QED
    BY <1>0, <2>1, RequestsKept DEF ChainInv, LoadedInv
<1>3. CASE FetchOK
  <2>1. edition > 0
    BY EditionsExist DEF TypeOK
  <2> QED
    BY <1>0, <1>3, <2>1, RequestsKept DEF FetchOK, ChainInv, LoadedInv
<1>4. CASE FetchFails
  BY <1>0, <1>4, RequestsKept DEF FetchFails, ChainInv, LoadedInv
<1>5. CASE StoreSet
  BY <1>0, <1>5, RequestsKept DEF StoreSet, ChainInv, LoadedInv
<1>6. CASE StoreCount
  BY <1>0, <1>6, RequestsKept DEF StoreCount, ChainInv, LoadedInv
<1>7. CASE Commit
  BY <1>0, <1>7, RequestsKept DEF Commit, ChainInv, LoadedInv
<1>8. CASE UpdateFails
  BY <1>0, <1>8, RequestsKept DEF UpdateFails, ChainInv, LoadedInv
<1>9. CASE UpdateTick
  BY <1>0, <1>9, RequestsKept DEF UpdateTick, ChainInv, LoadedInv
<1>10. CASE Shutdown \/ Age
  BY <1>0, <1>10, RequestsKept DEF Shutdown, Age, ChainInv, LoadedInv
<1>11. ASSUME NEW r \in Requests, Decide(r)
       PROVE  ChainInv' /\ LoadedInv' /\ RequestInv'
  <2>1. ChainInv' /\ LoadedInv'
    BY <1>11 DEF Decide, ChainInv, LoadedInv
  <2>2. RequestInv'
    BY <1>0, <1>11 DEF Decide, RequestInv, TypeOK
  <2> QED
    BY <2>1, <2>2
<1>12. ASSUME NEW r \in Requests, NEW a \in Addrs \cup {BadAddr}, Arrive(r, a)
       PROVE  ChainInv' /\ LoadedInv' /\ RequestInv'
  <2>1. ChainInv' /\ LoadedInv'
    BY <1>12 DEF Arrive, ChainInv, LoadedInv
  <2>2. asked[r] = "none" /\ (edlMode # "disabled" => ipset > 0)
        /\ UNCHANGED <<ipset, edlMode, verdict, judgedBy>>
    BY <1>12 DEF Arrive, LoadedInv
  <2>3. asked' = [asked EXCEPT ![r] = a] /\ arrivedAt' = [arrivedAt EXCEPT ![r] = ipset]
    BY <1>12 DEF Arrive
  <2>4. ASSUME NEW q \in Requests
        PROVE  /\ asked'[q] = "none" => verdict[q] = "none"
               /\ arrivedAt'[q] <= ipset
               /\ verdict[q] # "none" => arrivedAt'[q] <= judgedBy[q] /\ judgedBy[q] <= ipset
               /\ edlMode # "disabled" => ipset > 0
    BY <1>0, <2>2, <2>3 DEF RequestInv, TypeOK
  <2>5. RequestInv'
    BY <2>2, <2>4 DEF RequestInv
  <2> QED
    BY <2>1, <2>5
<1>13. CASE UNCHANGED vars
  BY <1>0, <1>13, RequestsKept DEF vars, ChainInv, LoadedInv
<1> QED
  BY <1>1, <1>2, <1>3, <1>4, <1>5, <1>6, <1>7, <1>8, <1>9, <1>10, <1>11, <1>12, <1>13
     DEF Next, Update, Serve

-----------------------------------------------------------------------------
(* The theorems.                                                           *)

LEMMA TypeInvariant == Spec => []TypeIInv
BY TypeInit, TypeStep, PTL DEF Spec

\* Every variable keeps its type; FetchWithRetry makes at most
\* MaxRetryAttempts attempts, for any value of MaxRetryAttempts.
THEOREM TypeCorrect == Spec => []TypeOK
<1>1. TypeIInv => TypeOK
  BY DEF TypeIInv
<1> QED
  BY <1>1, TypeInvariant, PTL

LEMMA Invariant == ASSUME MaxRetryAttempts > 0 PROVE Spec => []IInv
<1>1. IInv /\ [Next]_vars => IInv'
  BY IInvStep
<1> QED
  BY <1>1, IInvInit, PTL DEF Spec

\* Whatever fails, and however often, the list in force is the last one
\* fetched, except between the fetch and the store.
THEOREM LastGoodKept == ASSUME MaxRetryAttempts > 0 PROVE Spec => []LastGoodStaysActive
<1>1. IInv => LastGoodStaysActive
  BY DEF IInv, ChainInv, LastGoodStaysActive
<1> QED
  BY <1>1, Invariant, PTL

\* No request is judged by an older list than the one it arrived under, nor by
\* one that has not been published.
THEOREM NoneGoesBack == ASSUME MaxRetryAttempts > 0 PROVE Spec => []NeverGoesBack
<1>1. IInv => NeverGoesBack
  <2> SUFFICES ASSUME IInv, NEW r \in Requests, verdict[r] # "none"
               PROVE  arrivedAt[r] <= judgedBy[r] /\ judgedBy[r] <= edition
    BY DEF NeverGoesBack
  <2>1. judgedBy[r] \in Int /\ ipset \in Int /\ lastGood \in Int /\ edition \in Int
    BY EditionsExist DEF IInv, TypeOK
  <2> QED
    BY <2>1 DEF IInv, ChainInv, RequestInv
<1> QED
  BY <1>1, Invariant, PTL

\* With attempts allowed, every request with a valid address gets an answer:
\* no nil list is ever installed.
THEOREM NonePanics == ASSUME MaxRetryAttempts > 0 PROVE Spec => []NeverPanics
<1>1. NeverPanics /\ IInv /\ [Next]_vars => NeverPanics'
  <2> SUFFICES ASSUME NeverPanics, IInv, [Next]_vars
               PROVE  NeverPanics'
    OBVIOUS
  <2>1. CASE UNCHANGED verdict
    BY <2>1 DEF NeverPanics
  <2>2. ASSUME NEW r \in Requests, Decide(r)
        PROVE  NeverPanics'
    <3>1. ipset # NilSet
      BY EditionsExist DEF IInv, TypeOK, ChainInv
    <3>2. Decision(asked[r]) # "panic"
      BY <3>1 DEF Decision
    <3> QED
      BY <2>2, <3>2 DEF Decide, NeverPanics, IInv, TypeOK
  <2> QED
    BY <2>1, <2>2
       DEF Next, Update, Serve, Publish, Retry, FetchOK, FetchFails, StoreSet, StoreCount,
           Commit, UpdateFails, UpdateTick, Age, Shutdown, Arrive, vars
<1>2. Init => NeverPanics
  BY DEF Init, NeverPanics
<1> QED
  BY <1>1, <1>2, Invariant, PTL DEF Spec

-----------------------------------------------------------------------------
(* Enforcement implements AccessControl.                                   *)

LEMMA DecisionIsRule ==
  ASSUME IInv, NEW r \in Requests, asked[r] # "none"
  PROVE  Decision(asked[r]) = Access!Rule(asked[r])
<1>1. CASE edlMode = "disabled"
  BY <1>1 DEF Decision, Access!Rule, Access!Permitted
<1>2. CASE edlMode # "disabled"
  <2>1. ipset \in Editions
    BY <1>2, EditionsExist DEF IInv, TypeOK, ChainInv, RequestInv
  <2>2. Members(ipset) = EDL[ipset].ips /\ ipset # NilSet
    BY <2>1, EditionsExist DEF Members
  <2>3. edlMode \in {"blocklist", "allowlist"}
    BY <1>2 DEF IInv, TypeOK
  <2>4. CASE edlMode = "blocklist"
    BY <2>2, <2>4 DEF Decision, Access!Rule, Access!Permitted
  <2>5. CASE edlMode = "allowlist"
    BY <2>2, <2>5 DEF Decision, Access!Rule, Access!Permitted
  <2> QED
    BY <2>3, <2>4, <2>5
<1> QED
  BY <1>1, <1>2

LEMMA AccessStep ==
  MaxRetryAttempts > 0 /\ IInv /\ [Next]_vars => [Access!Next]_(Access!vars)
<1> SUFFICES ASSUME MaxRetryAttempts > 0, IInv, [Next]_vars
             PROVE  Access!Next \/ UNCHANGED Access!vars
  OBVIOUS
<1>1. CASE Publish
  BY <1>1 DEF Publish, Access!Next, Access!Publish
<1>2. CASE Retry \/ FetchOK \/ FetchFails \/ StoreCount \/ Commit \/ UpdateFails \/ UpdateTick
           \/ Age \/ Shutdown \/ UNCHANGED vars
  BY <1>2 DEF Retry, FetchOK, FetchFails, StoreCount, Commit, UpdateFails, UpdateTick, Age,
              Shutdown, vars, Access!vars
<1>3. CASE StoreSet
  <2>1. edlMode # "disabled"
    BY <1>3 DEF StoreSet, IInv, LoadedInv
  <2>2. ipset' = fetched /\ fetched \in 1 .. edition /\ fetched >= ipset
    BY <1>3, EditionsExist DEF StoreSet, IInv, ChainInv, TypeOK
  <2>3. CASE fetched = ipset
    BY <1>3, <2>3 DEF StoreSet, Access!vars
  <2>4. CASE fetched # ipset
    <3>1. fetched > ipset
      BY <2>2, <2>4, EditionsExist DEF IInv, TypeOK
    <3>2. Access!Install(fetched)
      BY <1>3, <2>1, <3>1 DEF StoreSet, Access!Install
    <3> QED
      BY <2>2, <3>2 DEF Access!Next
  <2> QED
    BY <2>3, <2>4
<1>4. ASSUME NEW r \in Requests, Decide(r)
      PROVE  Access!Next
  <2>1. Access!Judge(r)
    BY <1>4, DecisionIsRule DEF Decide, Access!Judge
  <2> QED
    BY <2>1 DEF Access!Next
<1>5. ASSUME NEW r \in Requests, NEW a \in Addrs \cup {BadAddr}, Arrive(r, a)
      PROVE  Access!Next
  <2>1. edlMode = "disabled" \/ ipset # 0
    BY <1>5, EditionsExist DEF Arrive, IInv, LoadedInv, TypeOK
  <2>2. Access!Ask(r, a)
    BY <1>5, <2>1 DEF Arrive, Access!Ask
  <2> QED
    BY <2>2 DEF Access!Next
<1> QED
  BY <1>1, <1>2, <1>3, <1>4, <1>5 DEF Next, Update, Serve

\* For every sequence of editions and every number of requests, fetching with
\* retries, the two stores of matcher.Update and the single read of Contains
\* implement a list that is replaced as a whole and never goes back.
THEOREM Refinement == ASSUME MaxRetryAttempts > 0 PROVE Spec => RefinesAccess
<1>1. Init => Access!Init
  BY DEF Init, Access!Init
<1>2. IInv /\ [Next]_vars => [Access!Next]_(Access!vars)
  BY AccessStep
<1> QED
  BY <1>1, <1>2, Invariant, PTL DEF Spec, RefinesAccess, Access!Spec
-----------------------------------------------------------------------------
(* The count.                                                              *)

CountInv ==
  /\ CountFollows
  /\ upc = "storeCount" => fetched = ipset

LEMMA CountStep == CountInv /\ [Next]_vars => CountInv'
<1> SUFFICES ASSUME CountInv, [Next]_vars PROVE CountInv'
  OBVIOUS
<1> USE DEF CountInv, CountFollows, Entries
<1>1. CASE Retry \/ FetchOK \/ FetchFails
  BY <1>1 DEF Retry, FetchOK, FetchFails, listVars
<1>2. CASE StoreSet \/ StoreCount
  BY <1>2 DEF StoreSet, StoreCount
<1>3. CASE Commit \/ UpdateFails \/ UpdateTick
  BY <1>3 DEF Commit, UpdateFails, UpdateTick, listVars
<1>4. CASE UNCHANGED <<upc, fetched, listVars>>
  BY <1>4 DEF listVars
<1> QED
  BY <1>1, <1>2, <1>3, <1>4
  DEF Next, Update, Serve, Publish, Age, Shutdown, Decide, Arrive, vars, listVars

\* No failure at any point of an update leaves the count of one list beside
\* another list, whatever the editions and the number of attempts.
THEOREM CountsFollow == Spec => []CountFollows
<1>1. Init => CountInv
  BY DEF Init, CountInv, CountFollows, Entries, Editions, Empty
<1>2. CountInv => CountFollows
  BY DEF CountInv
<1> QED
  BY <1>1, <1>2, CountStep, PTL DEF Spec
=============================================================================
