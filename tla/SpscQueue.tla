------------------------------ MODULE SpscQueue ------------------------------
(***************************************************************************)
(* EspNowSpscQueue (radio_queue.h): the lock-free ring between the Wi-Fi   *)
(* task, whose callbacks push received frames and send completions, and    *)
(* the main task, which pops them.  push() and pop() are split where the   *)
(* other task can run between two shared accesses.  The acquire/release    *)
(* pairs of the source make the interleaving of these steps the only       *)
(* behaviours: a slot is written before the index that publishes it.       *)
(*                                                                         *)
(* The indexes are free-running and wrap at IndexModulus (2^32 in the      *)
(* code); the slot is the index modulo the capacity.                       *)
(***************************************************************************)
EXTENDS Integers, Sequences

CONSTANTS
  Values,        \* what can be queued
  Capacity,      \* template parameter: 3 for frames, 4 for completions
  IndexModulus,  \* 2^32: the width of head_ and tail_
  NoValue        \* a slot never written

ASSUME QueueAssumption ==
  /\ Capacity \in Nat \ {0}
  /\ IndexModulus \in Nat /\ IndexModulus > Capacity
  /\ NoValue \notin Values

VARIABLES
  head, tail,  \* head_ and tail_
  entries,     \* entries_
  producer,    \* the Wi-Fi task inside push(): pc, its head, its value
  consumer,    \* the main task inside pop(): pc, its tail, its value
  delivered    \* the value the last successful pop() returned

vars == <<head, tail, entries, producer, consumer, delivered>>

Indexes == 0 .. IndexModulus - 1
Slots == 0 .. Capacity - 1

Slot(i) == i % Capacity

\* index + 1U and head - tail in uint32_t arithmetic.
Successor(i) == IF i + 1 = IndexModulus THEN 0 ELSE i + 1
Distance(h, t) == IF h >= t THEN h - t ELSE h + IndexModulus - t

\* size() as the owner of both indexes would see it.
Size == Distance(head, tail)

Init ==
  /\ head = 0 /\ tail = 0
  /\ entries = [s \in Slots |-> NoValue]
  /\ producer = [pc |-> "idle", value |-> NoValue]
  /\ consumer = [pc |-> "idle", value |-> NoValue]
  /\ delivered = NoValue

\* A push() that finds the queue full and a pop() that finds it empty return
\* false and change nothing: they are stuttering steps.

\* Mutant: one element more than the ring has slots.
PushLoadOneTooMany(v) ==
  /\ producer.pc = "idle"
  /\ ~(Distance(head, tail) > Capacity)
  /\ producer' = [pc |-> "write", value |-> v]
  /\ UNCHANGED <<head, tail, entries, consumer, delivered>>

\* push(): load both indexes and refuse a full queue.
PushLoad(v) ==
  /\ producer.pc = "idle"
  /\ ~(Distance(head, tail) >= Capacity)
  /\ producer' = [pc |-> "write", value |-> v]
  /\ UNCHANGED <<head, tail, entries, consumer, delivered>>

PushWrite ==
  /\ producer.pc = "write"
  /\ entries' = [entries EXCEPT ![Slot(head)] = producer.value]
  /\ producer' = [producer EXCEPT !.pc = "publish"]
  /\ UNCHANGED <<head, tail, consumer, delivered>>

PushPublish ==
  /\ producer.pc = "publish"
  /\ head' = Successor(head)
  /\ producer' = [pc |-> "idle", value |-> NoValue]
  /\ UNCHANGED <<tail, entries, consumer, delivered>>

\* pop(): load both indexes and refuse an empty queue.
PopLoad ==
  /\ consumer.pc = "idle"
  /\ tail # head
  /\ consumer' = [consumer EXCEPT !.pc = "read"]
  /\ UNCHANGED <<head, tail, entries, producer, delivered>>

\* Mutant: the slot behind the oldest one is read.
PopReadNext ==
  /\ consumer.pc = "read"
  /\ consumer' = [pc |-> "release", value |-> entries[Slot(Successor(tail))]]
  /\ UNCHANGED <<head, tail, entries, producer, delivered>>

PopRead ==
  /\ consumer.pc = "read"
  /\ consumer' = [pc |-> "release", value |-> entries[Slot(tail)]]
  /\ UNCHANGED <<head, tail, entries, producer, delivered>>

PopRelease ==
  /\ consumer.pc = "release"
  /\ tail' = Successor(tail)
  /\ delivered' = consumer.value
  /\ consumer' = [pc |-> "idle", value |-> NoValue]
  /\ UNCHANGED <<head, entries, producer>>

Next ==
  \/ \E v \in Values : PushLoad(v)
  \/ PushWrite
  \/ PushPublish
  \/ PopLoad
  \/ PopRead
  \/ PopRelease

Spec == Init /\ [][Next]_vars

-----------------------------------------------------------------------------
(* Properties                                                              *)

\* The indexes stay in their width and the ring holds values.
TypeOK ==
  /\ head \in Indexes /\ tail \in Indexes
  /\ entries \in [Slots -> Values \cup {NoValue}]
  /\ producer \in [pc : {"idle", "write", "publish"},
                   value : Values \cup {NoValue}]
  /\ consumer \in [pc : {"idle", "read", "release"},
                   value : Values \cup {NoValue}]
  /\ delivered \in Values \cup {NoValue}

\* The two tasks never touch the same slot at the same time, so no received
\* frame is torn (push's check of head - tail against pop's late store of
\* tail, radio_queue.h:16-32).
NoSlotRace ==
  ~(producer.pc = "write" /\ consumer.pc = "read" /\ Slot(head) = Slot(tail))

\* The queue as its callers may think of it: the published values, oldest
\* first.
Contents ==
  [k \in 1 .. Size |-> entries[Slot((tail + k - 1) % IndexModulus)]]

Fifo == INSTANCE BoundedFifo WITH queue <- Contents

\* Every push and pop of the two tasks is one push or pop of a bounded FIFO:
\* nothing published is overwritten, lost or reordered, at index wrap included.
ImplementsFifo == Fifo!Spec
=============================================================================
