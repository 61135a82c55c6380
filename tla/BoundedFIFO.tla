---------------------------- MODULE BoundedFIFO ----------------------------
(***************************************************************************)
(* What the overflow buffer of the log shipper promises its callers: a     *)
(* first-in first-out queue of at most Capacity events.  Every operation   *)
(* is one atomic step and leaves in `called` which one it was and in       *)
(* `reply` what it returned: whether it succeeded, and the events it       *)
(* handed back, oldest first.                                              *)
(*                                                                         *)
(* RingBuffer implements this module with an array and three integers.     *)
(***************************************************************************)
EXTENDS Naturals, Sequences

CONSTANTS
  Event,     \* the events that may be queued
  Capacity,  \* how many of them the queue holds
  BatchSize  \* how many of them one batch takes

VARIABLES queue, called, reply

vars == <<queue, called, reply>>

Init ==
  /\ queue = << >>
  /\ called = "New"
  /\ reply = [ok |-> TRUE, events |-> << >>]

\* Accept e when there is room, refuse it otherwise.
Add(e) ==
  /\ called' = "Add"
  /\ \/ /\ Len(queue) < Capacity
        /\ queue' = Append(queue, e)
        /\ reply' = [ok |-> TRUE, events |-> << >>]
     \/ /\ Len(queue) = Capacity
        /\ reply' = [ok |-> FALSE, events |-> << >>]
        /\ UNCHANGED queue

\* Hand back the n oldest events, all of them when there are fewer; an empty
\* queue hands back nothing and says so.
Take(n) ==
  LET m == IF Len(queue) < n THEN Len(queue) ELSE n IN
    /\ queue' = SubSeq(queue, m + 1, Len(queue))
    /\ reply' = [ok |-> queue # << >>, events |-> SubSeq(queue, 1, m)]

Get      == called' = "Get" /\ Take(1)
Drain    == called' = "Drain" /\ Take(BatchSize)
DrainAll == called' = "DrainAll" /\ Take(Capacity)

Next == (\E e \in Event : Add(e)) \/ Get \/ Drain \/ DrainAll

Spec == Init /\ [][Next]_vars
=============================================================================
