--------------------------- MODULE AccessControl ---------------------------
(***************************************************************************)
(* What the middleware promises the owner of the EDL.  One edition of the  *)
(* list is in force at a time; a newer one replaces it as a whole and no   *)
(* older one ever comes back; a request is judged by the edition in force  *)
(* at one moment of its life; and until there is a list, no request is     *)
(* taken at all, unless the deployment is disabled and all are allowed.    *)
(*                                                                         *)
(* Enforcement implements this module.                                     *)
(***************************************************************************)
EXTENDS Naturals, Sequences

CONSTANTS
  Addrs,     \* the IP addresses
  BadAddr,   \* what does not parse as an address
  Requests,  \* the requests Traefik forwards
  EDL        \* the editions of the list, each [ips, entries]

VARIABLES
  edlMode,   \* "blocklist", "allowlist" or "disabled"
  edition,   \* the newest edition published so far
  list,      \* the edition in force, 0 before there is one
  asked,     \* the address each request is about, "none" before it arrives
  verdict    \* what has been decided about it, "none" before

vars == <<edlMode, edition, list, asked, verdict>>

Init ==
  /\ edlMode \in {"blocklist", "allowlist", "disabled"}
  /\ edition = 1
  /\ list = 0
  /\ asked = [r \in Requests |-> "none"]
  /\ verdict = [r \in Requests |-> "none"]

Publish ==
  /\ edition < Len(EDL)
  /\ edition' = edition + 1
  /\ UNCHANGED <<edlMode, list, asked, verdict>>

Install(e) ==
  /\ edlMode # "disabled"
  /\ e > list
  /\ list' = e
  /\ UNCHANGED <<edlMode, edition, asked, verdict>>

Ask(r, a) ==
  /\ asked[r] = "none"
  /\ edlMode = "disabled" \/ list # 0
  /\ asked' = [asked EXCEPT ![r] = a]
  /\ UNCHANGED <<edlMode, edition, list, verdict>>

Permitted(a) ==
  \/ edlMode = "disabled"
  \/ edlMode = "blocklist" /\ a \notin EDL[list].ips
  \/ edlMode = "allowlist" /\ a \in EDL[list].ips

Rule(a) ==
  IF a = BadAddr /\ edlMode # "disabled" THEN "invalid"
  ELSE IF Permitted(a) THEN "allowed" ELSE "denied"

Judge(r) ==
  /\ asked[r] # "none" /\ verdict[r] = "none"
  /\ verdict' = [verdict EXCEPT ![r] = Rule(asked[r])]
  /\ UNCHANGED <<edlMode, edition, list, asked>>

Next ==
  \/ Publish
  \/ \E e \in 1 .. edition : Install(e)
  \/ \E r \in Requests : Judge(r) \/ \E a \in Addrs \cup {BadAddr} : Ask(r, a)

Spec == Init /\ [][Next]_vars
=============================================================================
