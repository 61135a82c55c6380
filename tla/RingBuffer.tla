----------------------------- MODULE RingBuffer -----------------------------
(***************************************************************************)
(* logs/buffer.go: the overflow buffer of the log shipper.                 *)
(*                                                                         *)
(* The callers are the request handlers (Add) and the goroutine of the     *)
(* shipper (Add, Drain, DrainAll).  Every method holds rb.mu from its      *)
(* first to its last statement, so each is one action; the loops of Drain  *)
(* and DrainAll run under the lock and are written in closed form.         *)
(* `called` is the last call and `reply` what it returned.                 *)
(***************************************************************************)
EXTENDS Naturals, Sequences

CONSTANTS
  Event,      \* the access events
  Nil,        \* the nil pointer of an unused slot
  Capacity,   \* config.BufferSize, made positive by NewLogShipper
  BatchSize   \* config.BatchSize, made positive too: what Drain is called with

ASSUME CapacityAssumption == Capacity \in Nat \ {0}
ASSUME BatchSizeAssumption == BatchSize \in Nat \ {0}
ASSUME NilAssumption == Nil \notin Event

VARIABLES
  buffer, head, tail, size,   \* the fields of RingBuffer
  called, reply               \* the last call, and what it returned

vars == <<buffer, head, tail, size, called, reply>>

Slots == 0 .. Capacity - 1

Init ==
  /\ buffer = [s \in Slots |-> Nil]
  /\ head = 0
  /\ tail = 0
  /\ size = 0
  /\ called = "New"
  /\ reply = [ok |-> TRUE, events |-> << >>]

\* The slot k places after slot s: every index of the code is advanced this way.
Slot(s, k) == (s + k) % Capacity

-----------------------------------------------------------------------------
\* Mutation: no check of the capacity.
AddUnchecked(e) ==
  /\ called' = "Add"
  /\ buffer' = [buffer EXCEPT ![tail] = e]
  /\ tail' = Slot(tail, 1)
  /\ size' = size + 1
  /\ reply' = [ok |-> TRUE, events |-> << >>]
  /\ UNCHANGED head

Add(e) ==
  /\ called' = "Add"
  /\ \/ /\ size >= Capacity
        /\ reply' = [ok |-> FALSE, events |-> << >>]
        /\ UNCHANGED <<buffer, head, tail, size>>
     \/ /\ size < Capacity
        /\ buffer' = [buffer EXCEPT ![tail] = e]
        /\ tail' = Slot(tail, 1)
        /\ size' = size + 1
        /\ reply' = [ok |-> TRUE, events |-> << >>]
        /\ UNCHANGED head

\* Mutation: the slots are not set to nil.
RemoveKeeping(n) ==
  /\ reply' = [ok |-> TRUE, events |-> [i \in 1 .. n |-> buffer[Slot(head, i - 1)]]]
  /\ head' = Slot(head, n)
  /\ size' = size - n
  /\ UNCHANGED <<buffer, tail>>

\* The body Get, Drain and DrainAll share: n times, read the slot at head,
\* clear it and advance head.
Remove(n) ==
  /\ reply' = [ok |-> TRUE, events |-> [i \in 1 .. n |-> buffer[Slot(head, i - 1)]]]
  /\ buffer' = [s \in Slots |->
                  IF \E k \in 0 .. n - 1 : s = Slot(head, k) THEN Nil ELSE buffer[s]]
  /\ head' = Slot(head, n)
  /\ size' = size - n
  /\ UNCHANGED tail

\* The early return of the same three methods.
RemoveNothing ==
  /\ size = 0
  /\ reply' = [ok |-> FALSE, events |-> << >>]
  /\ UNCHANGED <<buffer, head, tail, size>>

Get ==
  /\ called' = "Get"
  /\ RemoveNothing \/ (size # 0 /\ Remove(1))

\* Mutation: maxItems is ignored.
DrainUnlimited(maxItems) ==
  /\ called' = "Drain"
  /\ RemoveNothing \/ (size # 0 /\ Remove(size))

Drain(maxItems) ==
  /\ called' = "Drain"
  /\ \/ RemoveNothing
     \/ /\ size # 0
        /\ Remove(IF size > maxItems THEN maxItems ELSE size)

DrainAll ==
  /\ called' = "DrainAll"
  /\ RemoveNothing \/ (size # 0 /\ Remove(size))

Next ==
  \/ \E e \in Event : Add(e)
  \/ Get
  \/ Drain(BatchSize)
  \/ DrainAll

Spec == Init /\ [][Next]_vars

-----------------------------------------------------------------------------
\* The fields keep their types: the size never exceeds the capacity and both
\* indices stay inside the array.
TypeOK ==
  /\ buffer \in [Slots -> Event \cup {Nil}]
  /\ head \in Slots
  /\ tail \in Slots
  /\ size \in 0 .. Capacity
  /\ called \in {"New", "Add", "Get", "Drain", "DrainAll"}
  /\ reply \in [ok : BOOLEAN, events : Seq(Event)]

\* The events are exactly in the `size` slots from head on, wrapping around,
\* and tail is the slot after them: no operation hands back a nil event, none
\* overwrites an event that is still queued, and no removed event stays
\* reachable from the array.
WindowInv ==
  /\ tail = Slot(head, size)
  /\ \A k \in 0 .. Capacity - 1 : (buffer[Slot(head, k)] # Nil) <=> (k < size)

\* The queue the array represents.
Queue == [i \in 1 .. size |-> buffer[Slot(head, i - 1)]]

FIFO == INSTANCE BoundedFIFO WITH queue <- Queue

\* The ring buffer is a bounded first-in first-out queue: every call has the
\* effect and the result of the same call on a plain queue, whatever the
\* position of head and however often the indices have wrapped.
RefinesFIFO == FIFO!Spec
=============================================================================
