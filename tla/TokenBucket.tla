---------------------------- MODULE TokenBucket ----------------------------
(***************************************************************************)
(* What a rate limiter promises the one who takes tokens from it: never    *)
(* more than Capacity tokens and Rate / TicksPerSecond for each tick, in   *)
(* any stretch of time, but for the one token that may be under way when   *)
(* the bucket is full; and at least half of that rate.  Both promises are  *)
(* accounts, kept in parts of a token so that each tick adds Rate to them. *)
(* LeakyBucket implements this module.                                     *)
(***************************************************************************)
EXTENDS Integers

CONSTANTS Capacity, Rate, TicksPerSecond

VARIABLES
  most,    \* what may be taken, TicksPerSecond to the token
  least,   \* what must be granted, 2 * TicksPerSecond to the token
  reply    \* the answer to the last request: "none", "granted" or "refused"

vars == <<most, least, reply>>

Token == TicksPerSecond
Least(x, y) == IF x < y THEN x ELSE y

Init ==
  /\ most = Capacity * Token
  /\ least = Capacity * (2 * Token)
  /\ reply = "none"

Tick ==
  /\ most' = Least((Capacity + 1) * Token, most + Rate)
  /\ least' = Least(Capacity * (2 * Token), least + Rate)
  /\ UNCHANGED reply

\* The limiter may keep back what nobody asks for, down to what it owes.
Settle ==
  /\ most' <= most /\ least' >= least
  /\ UNCHANGED reply

Ask ==
  /\ most' <= most /\ least' >= least
  /\ reply' = "none"

Take ==
  /\ reply = "none" /\ reply' = "granted"
  /\ most >= Token /\ most' <= most - Token
  /\ least' >= least - 2 * Token

Refuse ==
  /\ reply = "none" /\ reply' = "refused"
  /\ least < 2 * Token
  /\ most' <= most /\ least' >= least

Next == Tick \/ Settle \/ Ask \/ Take \/ Refuse

Spec == Init /\ [][Next]_vars
=============================================================================
