-------------------------- MODULE RingBufferProofs --------------------------
(***************************************************************************)
(* For every capacity and every batch size, the array with its wrapping    *)
(* indices keeps its window invariant and implements the bounded queue.    *)
(*                                                                         *)
(* Only WrapOnce expands Slot, and with it %: the other lemmas and the     *)
(* proofs use Slot through them.                                           *)
(***************************************************************************)
EXTENDS RingBuffer, SequenceTheorems, TLAPS

USE CapacityAssumption, BatchSizeAssumption, NilAssumption

-----------------------------------------------------------------------------
(* Arithmetic of the slots.                                                *)

\* Advancing a slot by at most Capacity stays in the array or wraps once.
LEMMA WrapOnce ==
  ASSUME NEW h \in Slots, NEW k \in 0 .. Capacity
  PROVE  /\ Slot(h, k) = IF h + k < Capacity THEN h + k ELSE h + k - Capacity
         /\ Slot(h, k) \in Slots
<1>1. \A a \in 0 .. Capacity - 1 : a % Capacity = a
  OBVIOUS
<1>2. \A a \in Capacity .. 2 * Capacity - 1 : a % Capacity = a - Capacity
  OBVIOUS
<1>3. CASE h + k < Capacity
  BY <1>1, <1>3 DEF Slots, Slot
<1>4. CASE h + k >= Capacity
  <2>1. h + k \in Capacity .. 2 * Capacity - 1
    BY <1>4 DEF Slots
  <2> QED
    BY <1>2, <1>4, <2>1 DEF Slots, Slot
<1> QED
  BY <1>3, <1>4 DEF Slots

\* Every slot of the array is k places after h for some k.
LEMMA SlotReached ==
  ASSUME NEW h \in Slots, NEW s \in Slots
  PROVE  \E k \in 0 .. Capacity - 1 : s = Slot(h, k)
<1>1. CASE s >= h
  <2>1. s - h \in 0 .. Capacity - 1 /\ s - h \in 0 .. Capacity /\ h + (s - h) = s
    BY <1>1 DEF Slots
  <2>2. Slot(h, s - h) = s
    BY <2>1, WrapOnce DEF Slots
  <2> QED
    BY <2>1, <2>2
<1>2. CASE s < h
  <2> DEFINE k == s - h + Capacity
  <2>1. k \in 0 .. Capacity - 1 /\ k \in 0 .. Capacity /\ h + k = s + Capacity
    BY <1>2 DEF Slots
  <2> HIDE DEF k
  <2>2. Slot(h, k) = s
    BY <2>1, WrapOnce DEF Slots
  <2> QED
    BY <2>1, <2>2
<1> QED
  BY <1>1, <1>2 DEF Slots

\* Fewer than Capacity places after h, different counts end in different slots.
LEMMA SlotsDistinct ==
  ASSUME NEW h \in Slots,
         NEW j \in 0 .. Capacity - 1, NEW k \in 0 .. Capacity - 1,
         j # k
  PROVE  Slot(h, j) # Slot(h, k)
<1>1. j \in 0 .. Capacity /\ k \in 0 .. Capacity
  OBVIOUS
<1>2. Slot(h, j) = IF h + j < Capacity THEN h + j ELSE h + j - Capacity
  BY <1>1, WrapOnce
<1>3. Slot(h, k) = IF h + k < Capacity THEN h + k ELSE h + k - Capacity
  BY <1>1, WrapOnce
<1> QED
  BY <1>2, <1>3 DEF Slots

\* Advancing by n and then by k is advancing by n + k.
LEMMA WrapTwice ==
  ASSUME NEW h \in Slots, NEW n \in 0 .. Capacity, NEW k \in 0 .. Capacity,
         n + k <= Capacity
  PROVE  Slot(Slot(h, n), k) = Slot(h, n + k)
<1>1. n + k \in 0 .. Capacity
  OBVIOUS
<1>2. Slot(h, n) \in Slots
  BY WrapOnce
<1>3. Slot(h, n) = IF h + n < Capacity THEN h + n ELSE h + n - Capacity
  BY WrapOnce
<1>4. Slot(h, n + k) =
         IF h + (n + k) < Capacity THEN h + (n + k) ELSE h + (n + k) - Capacity
  BY <1>1, WrapOnce
<1>5. Slot(Slot(h, n), k) =
         IF Slot(h, n) + k < Capacity THEN Slot(h, n) + k ELSE Slot(h, n) + k - Capacity
  BY <1>2, WrapOnce
<1> QED
  BY <1>2, <1>3, <1>4, <1>5 DEF Slots

\* The same when the two advances together pass the end of the array.
LEMMA WrapPast ==
  ASSUME NEW h \in Slots, NEW n \in 0 .. Capacity, NEW k \in 0 .. Capacity,
         n + k >= Capacity
  PROVE  Slot(Slot(h, n), k) = Slot(h, n + k - Capacity)
<1>1. n + k - Capacity \in 0 .. Capacity
  OBVIOUS
<1>2. Slot(h, n) \in Slots
  BY WrapOnce
<1>3. Slot(h, n) = IF h + n < Capacity THEN h + n ELSE h + n - Capacity
  BY WrapOnce
<1>4. Slot(h, n + k - Capacity) =
         IF h + (n + k - Capacity) < Capacity THEN h + (n + k - Capacity)
                                              ELSE h + (n + k - Capacity) - Capacity
  BY <1>1, WrapOnce
<1>5. Slot(Slot(h, n), k) =
         IF Slot(h, n) + k < Capacity THEN Slot(h, n) + k ELSE Slot(h, n) + k - Capacity
  BY <1>2, WrapOnce
<1> QED
  BY <1>2, <1>3, <1>4, <1>5 DEF Slots

-----------------------------------------------------------------------------
(* The window invariant.                                                   *)

Inv == TypeOK /\ WindowInv

LEMMA InitInv == Init => Inv
<1> SUFFICES ASSUME Init PROVE Inv
  OBVIOUS
<1>1. 0 \in Slots
  BY DEF Slots
<1>2. \A k \in 0 .. Capacity - 1 : Slot(0, k) \in Slots
  BY <1>1, WrapOnce
<1>3. Slot(0, 0) = 0
  BY <1>1, WrapOnce
<1>4. TypeOK
  BY <1>1 DEF Init, TypeOK
<1>5. WindowInv
  BY <1>2, <1>3 DEF Init, WindowInv
<1> QED
  BY <1>4, <1>5 DEF Inv

LEMMA AddInv ==
  ASSUME Inv, NEW e \in Event, Add(e)
  PROVE  Inv'
<1>0. called' = "Add"
  BY DEF Add
<1>1. CASE UNCHANGED <<buffer, head, tail, size>> /\ reply' = [ok |-> FALSE, events |-> << >>]
  BY <1>0, <1>1 DEF Inv, TypeOK, WindowInv, Slots, Slot
<1>2. CASE /\ size < Capacity
           /\ buffer' = [buffer EXCEPT ![tail] = e]
           /\ tail' = Slot(tail, 1)
           /\ size' = size + 1
           /\ reply' = [ok |-> TRUE, events |-> << >>]
           /\ UNCHANGED head
  <2>1. size \in 0 .. Capacity - 1 /\ size + 1 \in 0 .. Capacity /\ 1 \in 0 .. Capacity
    BY <1>2 DEF Inv, TypeOK
  <2>2. tail = Slot(head, size) /\ head \in Slots /\ tail \in Slots
    BY DEF Inv, TypeOK, WindowInv
  <2>3. tail' \in Slots
    BY <1>2, <2>1, <2>2, WrapOnce
  <2>4. TypeOK'
    BY <1>0, <1>2, <2>1, <2>3 DEF Inv, TypeOK
  <2>5. tail' = Slot(head', size')
    BY <1>2, <2>1, <2>2, WrapTwice
  <2>6. ASSUME NEW k \in 0 .. Capacity - 1
        PROVE  (buffer'[Slot(head', k)] # Nil) <=> (k < size')
    <3>1. Slot(head, k) \in Slots /\ buffer \in [Slots -> Event \cup {Nil}]
      BY <2>2, WrapOnce DEF Inv, TypeOK
    <3>2. CASE k = size
      <4>1. buffer'[Slot(head', k)] = e
        BY <1>2, <2>2, <3>1, <3>2
      <4>2. k < size'
        BY <1>2, <2>1, <3>2
      <4> QED
        BY <4>1, <4>2
    <3>3. CASE k # size
      <4>1. Slot(head, k) # tail
        BY <2>1, <2>2, <3>3, SlotsDistinct
      <4>2. buffer'[Slot(head', k)] = buffer[Slot(head, k)]
        BY <1>2, <3>1, <4>1
      <4>3. (k < size') <=> (k < size)
        BY <1>2, <2>1, <3>3
      <4> QED
        BY <4>2, <4>3 DEF Inv, WindowInv
    <3> QED
      BY <3>2, <3>3
  <2> QED
    BY <2>4, <2>5, <2>6 DEF Inv, WindowInv
<1> QED
  BY <1>1, <1>2 DEF Add

\* The events a removal hands back are the n oldest of the window.
LEMMA RemoveReply ==
  ASSUME Inv, NEW n \in 0 .. size
  PROVE  [i \in 1 .. n |-> buffer[Slot(head, i - 1)]] \in Seq(Event)
<1>1. ASSUME NEW i \in 1 .. n
      PROVE  buffer[Slot(head, i - 1)] \in Event
  <2>1. i - 1 \in 0 .. Capacity - 1 /\ i - 1 \in 0 .. Capacity /\ i - 1 < size
    BY DEF Inv, TypeOK
  <2>2. Slot(head, i - 1) \in Slots
    BY <2>1, WrapOnce DEF Inv, TypeOK
  <2>3. buffer[Slot(head, i - 1)] # Nil
    BY <2>1 DEF Inv, WindowInv
  <2> QED
    BY <2>2, <2>3 DEF Inv, TypeOK
<1>2. n \in Nat
  BY DEF Inv, TypeOK
<1> QED
  BY <1>1, <1>2

Calls == {"New", "Add", "Get", "Drain", "DrainAll"}

LEMMA RemoveInv ==
  ASSUME Inv, NEW n \in 0 .. size, Remove(n), called' \in Calls
  PROVE  Inv'
<1>1. /\ head \in Slots /\ size \in 0 .. Capacity
      /\ n \in 0 .. Capacity /\ size - n \in 0 .. Capacity
      /\ buffer \in [Slots -> Event \cup {Nil}]
  BY DEF Inv, TypeOK
<1>2. head' = Slot(head, n) /\ head' \in Slots /\ size' = size - n /\ tail' = tail
  BY <1>1, WrapOnce DEF Remove
<1>3. TypeOK'
  <2>1. buffer' \in [Slots -> Event \cup {Nil}]
    BY <1>1 DEF Remove
  <2>2. reply' \in [ok : BOOLEAN, events : Seq(Event)]
    BY RemoveReply DEF Remove
  <2> QED
    BY <1>1, <1>2, <2>1, <2>2 DEF Inv, TypeOK, Calls
<1>4. tail' = Slot(head', size')
  <2>1. n + (size - n) = size /\ n + (size - n) <= Capacity
    BY <1>1
  <2>2. Slot(Slot(head, n), size - n) = Slot(head, n + (size - n))
    BY <1>1, <2>1, WrapTwice
  <2> QED
    BY <1>2, <2>1, <2>2 DEF Inv, WindowInv
<1>5. ASSUME NEW k \in 0 .. Capacity - 1
      PROVE  (buffer'[Slot(head', k)] # Nil) <=> (k < size')
  <2>1. k \in 0 .. Capacity /\ Slot(head', k) \in Slots
    BY <1>2, WrapOnce
  <2>2. buffer'[Slot(head', k)] =
          IF \E j \in 0 .. n - 1 : Slot(head', k) = Slot(head, j)
          THEN Nil ELSE buffer[Slot(head', k)]
    BY <2>1 DEF Remove
  <2>3. CASE n + k < Capacity
    <3>1. Slot(head', k) = Slot(head, n + k) /\ n + k \in 0 .. Capacity - 1
      BY <1>1, <1>2, <2>1, <2>3, WrapTwice
    <3>2. ASSUME NEW j \in 0 .. n - 1, Slot(head', k) = Slot(head, j)
          PROVE  FALSE
      <4>1. j \in 0 .. Capacity - 1 /\ j # n + k
        BY <1>1
      <4> QED
        BY <1>1, <3>1, <3>2, <4>1, SlotsDistinct
    <3>3. buffer'[Slot(head', k)] = buffer[Slot(head, n + k)]
      BY <2>2, <3>1, <3>2
    <3>4. (buffer[Slot(head, n + k)] # Nil) <=> (n + k < size)
      BY <3>1 DEF Inv, WindowInv
    <3> QED
      BY <1>1, <1>2, <3>3, <3>4
  <2>4. CASE n + k >= Capacity
    <3>1. Slot(head', k) = Slot(head, n + k - Capacity) /\ n + k - Capacity \in 0 .. n - 1
      BY <1>1, <1>2, <2>1, <2>4, WrapPast
    <3>2. buffer'[Slot(head', k)] = Nil
      BY <2>2, <3>1
    <3>3. ~(k < size')
      BY <1>1, <1>2, <2>4
    <3> QED
      BY <3>2, <3>3
  <2> QED
    BY <1>1, <2>3, <2>4
<1> QED
  BY <1>3, <1>4, <1>5 DEF Inv, WindowInv

LEMMA RemoveNothingInv ==
  ASSUME Inv, RemoveNothing, called' \in Calls
  PROVE  Inv'
BY DEF RemoveNothing, Calls, Inv, TypeOK, WindowInv, Slots, Slot

\* What Next does, in the terms of the lemmas.
LEMMA NextCases ==
  ASSUME Inv, Next
  PROVE  \/ \E e \in Event : Add(e)
         \/ called' \in {"Get", "Drain", "DrainAll"} /\ RemoveNothing
         \/ called' = "Get" /\ size # 0 /\ Remove(1)
         \/ called' = "Drain" /\ size # 0
              /\ Remove(IF size > BatchSize THEN BatchSize ELSE size)
         \/ called' = "DrainAll" /\ size # 0 /\ Remove(size)
BY DEF Next, Get, Drain, DrainAll

LEMMA StepInv == Inv /\ [Next]_vars => Inv'
<1>1. ASSUME Inv, UNCHANGED vars PROVE Inv'
  BY <1>1 DEF vars, Inv, TypeOK, WindowInv, Slots, Slot
<1>2. ASSUME Inv, Next PROVE Inv'
  <2>1. CASE \E e \in Event : Add(e)
    BY <1>2, <2>1, AddInv
  <2>2. CASE called' \in Calls /\ RemoveNothing
    BY <1>2, <2>2, RemoveNothingInv
  <2>3. CASE called' \in Calls /\ size # 0 /\ \E n \in 1 .. size : Remove(n)
    BY <1>2, <2>3, RemoveInv DEF Inv, TypeOK
  <2>4. /\ size # 0 => 1 \in 1 .. size
        /\ size # 0 => (IF size > BatchSize THEN BatchSize ELSE size) \in 1 .. size
        /\ size # 0 => size \in 1 .. size
    BY <1>2 DEF Inv, TypeOK
  <2> QED
    BY <1>2, <2>1, <2>2, <2>3, <2>4, NextCases DEF Calls
<1> QED
  BY <1>1, <1>2

\* The indices stay inside the array and the size never exceeds the capacity,
\* for every capacity and batch size of NewRingBuffer.
THEOREM TypeCorrect == Spec => []TypeOK
<1>1. Inv => TypeOK
  BY DEF Inv
<1> QED
  BY InitInv, StepInv, <1>1, PTL DEF Spec

\* The queued events are exactly the slots from head to tail: Add never
\* overwrites one, and no removal hands back or leaves behind a stale pointer.
THEOREM WindowCorrect == Spec => []WindowInv
<1>1. Inv => WindowInv
  BY DEF Inv
<1> QED
  BY InitInv, StepInv, <1>1, PTL DEF Spec

-----------------------------------------------------------------------------
(* The refinement.                                                         *)

LEMMA QueueType ==
  ASSUME Inv
  PROVE  Queue \in Seq(Event) /\ Len(Queue) = size
<1>1. Queue \in Seq(Event)
  BY RemoveReply DEF Queue, Inv, TypeOK
<1>2. size \in Nat /\ DOMAIN Queue = 1 .. size
  BY DEF Queue, Inv, TypeOK
<1> QED
  BY <1>1, <1>2

\* An accepted event becomes the last of the queue.
LEMMA AddRefines ==
  ASSUME Inv, NEW e \in Event, Add(e)
  PROVE  FIFO!Add(e)
<1>1. Queue \in Seq(Event) /\ Len(Queue) = size /\ size \in 0 .. Capacity
  BY QueueType DEF Inv, TypeOK
<1>0. called' = "Add"
  BY DEF Add
<1>2. CASE size >= Capacity /\ reply' = [ok |-> FALSE, events |-> << >>]
             /\ UNCHANGED <<buffer, head, tail, size>>
  <2>1. Queue' = Queue
    BY <1>2 DEF Queue
  <2> QED
    BY <1>0, <1>1, <1>2, <2>1 DEF FIFO!Add
<1>3. CASE /\ size < Capacity
           /\ buffer' = [buffer EXCEPT ![tail] = e]
           /\ size' = size + 1
           /\ reply' = [ok |-> TRUE, events |-> << >>]
           /\ UNCHANGED head
  <2>1. tail = Slot(head, size) /\ tail \in Slots /\ head \in Slots
    BY DEF Inv, TypeOK, WindowInv
  <2>2. ASSUME NEW i \in 1 .. size + 1
        PROVE  buffer'[Slot(head', i - 1)] = IF i = size + 1 THEN e ELSE Queue[i]
    <3>1. i - 1 \in 0 .. Capacity - 1 /\ i - 1 \in 0 .. Capacity /\ size \in 0 .. Capacity - 1
      BY <1>1, <1>3
    <3>2. Slot(head, i - 1) \in Slots /\ buffer \in [Slots -> Event \cup {Nil}]
      BY <2>1, <3>1, WrapOnce DEF Inv, TypeOK
    <3>3. CASE i = size + 1
      <4>1. i - 1 = size
        BY <1>1, <3>3
      <4> QED
        BY <1>3, <2>1, <3>2, <3>3, <4>1
    <3>4. CASE i # size + 1
      <4>1. i \in 1 .. size /\ i - 1 # size
        BY <1>1, <3>4
      <4>2. Slot(head, i - 1) # tail
        BY <2>1, <3>1, <4>1, SlotsDistinct
      <4> QED
        BY <1>3, <3>2, <3>4, <4>1, <4>2 DEF Queue
    <3> QED
      BY <3>3, <3>4
  <2>3. Queue' = [i \in 1 .. size + 1 |-> buffer'[Slot(head', i - 1)]]
    BY <1>3 DEF Queue
  <2>4. /\ Append(Queue, e) \in Seq(Event) /\ Len(Append(Queue, e)) = size + 1
        /\ \A i \in 1 .. size + 1 :
             Append(Queue, e)[i] = IF i = size + 1 THEN e ELSE Queue[i]
    BY <1>1, AppendProperties
  <2>5. Queue' = Append(Queue, e)
    <3>1. \A i \in 1 .. size + 1 : Queue'[i] = Append(Queue, e)[i]
      BY <2>2, <2>3, <2>4
    <3>2. Queue' \in Seq(Event) /\ Len(Queue') = size + 1
      <4>1. \A i \in 1 .. size + 1 : Append(Queue, e)[i] \in Event
        BY <2>4, ElementOfSeq
      <4>2. \A i \in 1 .. size + 1 : buffer'[Slot(head', i - 1)] \in Event
        BY <2>2, <2>4, <4>1
      <4> QED
        BY <1>1, <2>3, <4>2
    <3> QED
      BY <2>4, <3>1, <3>2, SeqEqual
  <2> QED
    BY <1>0, <1>1, <1>3, <2>5 DEF FIFO!Add
<1> QED
  BY <1>2, <1>3 DEF Add

\* A removal of the n oldest events leaves the others in their order.
LEMMA RemoveRefines ==
  ASSUME Inv, NEW n \in 1 .. size, Remove(n)
  PROVE  /\ Queue' = SubSeq(Queue, n + 1, Len(Queue))
         /\ reply' = [ok |-> TRUE, events |-> SubSeq(Queue, 1, n)]
<1>1. /\ Queue \in Seq(Event) /\ Len(Queue) = size /\ size \in 0 .. Capacity
      /\ head \in Slots /\ n \in 0 .. Capacity
      /\ buffer \in [Slots -> Event \cup {Nil}]
  BY QueueType DEF Inv, TypeOK
<1>2. ASSUME NEW i \in 1 .. size - n
      PROVE  buffer'[Slot(head', i - 1)] = Queue[i + n]
  <2>1. /\ i - 1 \in 0 .. Capacity /\ n + (i - 1) \in 0 .. Capacity - 1
        /\ n + (i - 1) \in 0 .. Capacity
        /\ i + n \in 1 .. size /\ (i + n) - 1 = n + (i - 1)
    BY <1>1
  <2>2. Slot(head', i - 1) = Slot(head, n + (i - 1))
    BY <1>1, <2>1, WrapTwice DEF Remove
  <2>3. Slot(head, n + (i - 1)) \in Slots
    BY <1>1, <2>1, WrapOnce
  <2>4. ASSUME NEW j \in 0 .. n - 1
        PROVE  Slot(head, n + (i - 1)) # Slot(head, j)
    <3>1. j \in 0 .. Capacity - 1 /\ n + (i - 1) # j
      BY <1>1
    <3> QED
      BY <1>1, <2>1, <3>1, SlotsDistinct
  <2>5. buffer'[Slot(head', i - 1)] = buffer[Slot(head, n + (i - 1))]
    BY <2>2, <2>3, <2>4 DEF Remove
  <2>6. Queue[i + n] = buffer[Slot(head, n + (i - 1))]
    BY <2>1 DEF Queue
  <2> QED
    BY <2>5, <2>6
<1>3. Queue' = [i \in 1 .. size - n |-> buffer'[Slot(head', i - 1)]]
  BY DEF Queue, Remove
<1>4. SubSeq(Queue, n + 1, Len(Queue)) = [i \in 1 .. size - n |-> Queue[i + n]]
  BY <1>1
<1>5. Queue' = SubSeq(Queue, n + 1, Len(Queue))
  BY <1>2, <1>3, <1>4
<1>6. SubSeq(Queue, 1, n) = [i \in 1 .. n |-> buffer[Slot(head, i - 1)]]
  <2>1. SubSeq(Queue, 1, n) = [i \in 1 .. n |-> Queue[i]]
    BY <1>1
  <2>2. \A i \in 1 .. n : i \in 1 .. size
    BY <1>1
  <2> QED
    BY <2>1, <2>2 DEF Queue
<1> QED
  BY <1>5, <1>6 DEF Remove

LEMMA InitRefines ==
  ASSUME Init
  PROVE  FIFO!Init
<1>1. Queue = << >>
  BY DEF Init, Queue
<1> QED
  BY <1>1 DEF Init, FIFO!Init

\* Every call maps to the call of the same name.
LEMMA StepRefines == Inv /\ [Next]_vars => [FIFO!Next]_(FIFO!vars)
<1>1. ASSUME Inv, UNCHANGED vars PROVE UNCHANGED FIFO!vars
  BY <1>1 DEF vars, Queue, FIFO!vars
<1>2. ASSUME Inv, Next PROVE FIFO!Next
  <2>1. Queue \in Seq(Event) /\ Len(Queue) = size /\ size \in 0 .. Capacity
    BY <1>2, QueueType DEF Inv, TypeOK
  <2>2. ASSUME NEW n \in 1 .. size, Remove(n), NEW m \in Nat \ {0},
               n = IF size < m THEN size ELSE m
        PROVE  FIFO!Take(m)
    <3>1. /\ Queue' = SubSeq(Queue, n + 1, Len(Queue))
          /\ reply' = [ok |-> TRUE, events |-> SubSeq(Queue, 1, n)]
      BY <1>2, <2>2, RemoveRefines
    <3>2. Queue # << >>
      BY <2>1
    <3> QED
      BY <2>1, <2>2, <3>1, <3>2 DEF FIFO!Take
  <2>3. CASE \E e \in Event : Add(e)
    BY <1>2, <2>3, AddRefines DEF FIFO!Next
  <2>4. CASE called' \in {"Get", "Drain", "DrainAll"} /\ RemoveNothing
    <3>1. Queue = << >> /\ Queue' = << >>
      BY <2>4 DEF RemoveNothing, Queue
    <3>2. reply' = [ok |-> FALSE, events |-> << >>]
      BY <2>4 DEF RemoveNothing
    <3>3. Len(Queue) = 0 /\ SubSeq(Queue, 1, 0) = << >>
      BY <3>1
    <3>4. ASSUME NEW m \in Nat \ {0}
          PROVE  FIFO!Take(m)
      <4>1. (IF Len(Queue) < m THEN Len(Queue) ELSE m) = 0
        BY <3>3
      <4>2. SubSeq(Queue, 0 + 1, Len(Queue)) = << >>
        BY <3>3
      <4> QED
        BY <3>1, <3>2, <3>3, <4>1, <4>2 DEF FIFO!Take
    <3> QED
      BY <2>4, <3>4 DEF FIFO!Next, FIFO!Get, FIFO!Drain, FIFO!DrainAll
  <2>5. CASE called' = "Get" /\ size # 0 /\ Remove(1)
    <3>1. 1 \in 1 .. size /\ 1 = IF size < 1 THEN size ELSE 1
      BY <2>1, <2>5
    <3> QED
      BY <2>2, <2>5, <3>1 DEF FIFO!Next, FIFO!Get
  <2>6. CASE called' = "Drain" /\ size # 0
               /\ Remove(IF size > BatchSize THEN BatchSize ELSE size)
    <3> DEFINE n == IF size > BatchSize THEN BatchSize ELSE size
    <3>1. n \in 1 .. size /\ n = IF size < BatchSize THEN size ELSE BatchSize
      BY <2>1, <2>6
    <3>2. Remove(n)
      BY <2>6
    <3> HIDE DEF n
    <3> QED
      BY <2>2, <2>6, <3>1, <3>2 DEF FIFO!Next, FIFO!Drain
  <2>7. CASE called' = "DrainAll" /\ size # 0 /\ Remove(size)
    <3>1. size \in 1 .. size /\ size = IF size < Capacity THEN size ELSE Capacity
      BY <2>1, <2>7
    <3> QED
      BY <2>2, <2>7, <3>1 DEF FIFO!Next, FIFO!DrainAll
  <2> QED
    BY <1>2, <2>3, <2>4, <2>5, <2>6, <2>7, NextCases
<1> QED
  BY <1>1, <1>2

\* The ring buffer implements the bounded queue: whatever the capacity, the
\* batch size and the number of times the indices have wrapped, each call has
\* the effect and the result of the same call on a first-in first-out queue.
THEOREM Refinement == Spec => RefinesFIFO
<1>1. Inv /\ [Next]_vars => Inv'
  BY StepInv
<1> QED
  BY InitInv, <1>1, InitRefines, StepRefines, PTL DEF Spec, RefinesFIFO, FIFO!Spec
=============================================================================
