--------------------------- MODULE SpscQueueProofs ---------------------------
(***************************************************************************)
(* The radio event queue for every capacity, index width and set of        *)
(* values: it never holds more than its slots, and, as long as the slot of *)
(* an index does not jump where the index wraps, the two tasks never touch *)
(* the same slot and every push and pop is one of a bounded FIFO.          *)
(*                                                                         *)
(* The slot is the index modulo the capacity, so it is continuous at the   *)
(* wrap exactly when the capacity divides 2^32: true of the completion     *)
(* queue (4), false of the frame queue (3), for which the queue is proved  *)
(* safe while the window of published values does not straddle the wrap.   *)
(***************************************************************************)
EXTENDS SpscQueue, TLAPS

\* The capacity divides the index modulus.
Aligned == IndexModulus % Capacity = 0

\* What each task may rely on while the other one runs.
RingInv ==
  /\ TypeOK
  /\ Size <= Capacity
  /\ producer.pc # "idle" => Size < Capacity /\ producer.value \in Values
  /\ consumer.pc # "idle" => tail # head

-----------------------------------------------------------------------------
(* Arithmetic                                                              *)

\* Division with remainder.
LEMMA Euclid ==
  ASSUME NEW x \in Nat, NEW c \in Nat \ {0}
  PROVE  /\ x % c \in 0 .. c - 1
         /\ x \div c \in Nat
         /\ x = c * (x \div c) + (x % c)
OBVIOUS

\* The remainder is unique.
LEMMA RemainderUnique ==
  ASSUME NEW c \in Nat \ {0}, NEW q \in Int, NEW p \in Int,
         NEW r \in 0 .. c - 1, NEW s \in 0 .. c - 1,
         c * q + r = c * p + s
  PROVE  r = s
<1>1. c * (q - p) = s - r
  OBVIOUS
<1>2. ASSUME q - p >= 1 PROVE FALSE
  BY <1>1, <1>2
<1>3. ASSUME q - p <= -1 PROVE FALSE
  BY <1>1, <1>3
<1> QED BY <1>1, <1>2, <1>3

\* Two indexes less than a capacity apart have different slots.
LEMMA SlotsDistinct ==
  ASSUME NEW i \in Nat, NEW j \in Nat, i < j, j - i < Capacity
  PROVE  Slot(i) # Slot(j)
<1> USE QueueAssumption
<1> DEFINE qi == i \div Capacity
           qj == j \div Capacity
<1>1. /\ qi \in Nat /\ i = Capacity * qi + Slot(i) /\ Slot(i) \in Nat
      /\ qj \in Nat /\ j = Capacity * qj + Slot(j) /\ Slot(j) \in Nat
  BY Euclid DEF Slot
<1> HIDE DEF qi, qj
<1>2. SUFFICES ASSUME Slot(i) = Slot(j) PROVE FALSE
  OBVIOUS
<1>3. Capacity * (qj - qi) = j - i
  BY <1>1, <1>2
<1>4. ASSUME qj - qi >= 1 PROVE FALSE
  BY <1>1, <1>3, <1>4
<1>5. ASSUME qj - qi <= 0 PROVE FALSE
  BY <1>1, <1>3, <1>5
<1> QED BY <1>1, <1>4, <1>5

\* Every index has a slot of the ring.
LEMMA SlotInRange ==
  ASSUME NEW i \in Nat
  PROVE  Slot(i) \in Slots
BY QueueAssumption, Euclid DEF Slot, Slots

\* Where the capacity divides the modulus, a whole turn of the index does not
\* move the slot.
LEMMA SlotOfTurn ==
  ASSUME Aligned, NEW i \in Nat
  PROVE  Slot(i + IndexModulus) = Slot(i)
<1> USE QueueAssumption
<1> DEFINE q == i \div Capacity
           p == (i + IndexModulus) \div Capacity
           m == IndexModulus \div Capacity
<1>1. /\ q \in Nat /\ i = Capacity * q + Slot(i)
      /\ Slot(i) \in 0 .. Capacity - 1
  BY Euclid DEF Slot
<1>2. /\ p \in Nat
      /\ i + IndexModulus = Capacity * p + Slot(i + IndexModulus)
      /\ Slot(i + IndexModulus) \in 0 .. Capacity - 1
  <2>1. i + IndexModulus \in Nat
    OBVIOUS
  <2> QED BY <2>1, Euclid DEF Slot
<1>3. m \in Nat /\ IndexModulus = Capacity * m
  <2>1. IndexModulus = Capacity * m + (IndexModulus % Capacity) /\ m \in Nat
    BY Euclid
  <2> QED BY <2>1 DEF Aligned
<1> HIDE DEF q, p, m
<1>4. Capacity * (q + m) + Slot(i) = Capacity * p + Slot(i + IndexModulus)
  BY <1>1, <1>2, <1>3
<1> QED
  <2> DEFINE r == Slot(i)
             s == Slot(i + IndexModulus)
  <2>1. r \in 0 .. Capacity - 1 /\ s \in 0 .. Capacity - 1
    BY <1>1, <1>2
  <2>2. Capacity * (q + m) + r = Capacity * p + s
    BY <1>4
  <2>3. q + m \in Int /\ p \in Int
    BY <1>1, <1>2, <1>3
  <2> HIDE DEF r, s
  <2>4. r = s
    BY <2>1, <2>2, <2>3, RemainderUnique
  <2> QED BY <2>4 DEF r, s

\* The index k places after t, in unsigned arithmetic.
LEMMA IndexAfter ==
  ASSUME NEW t \in Indexes, NEW k \in Nat, k < IndexModulus
  PROVE  (t + k) % IndexModulus =
           IF t + k < IndexModulus THEN t + k ELSE t + k - IndexModulus
<1> USE QueueAssumption DEF Indexes
<1> DEFINE q == (t + k) \div IndexModulus
           r == (t + k) % IndexModulus
<1>1. /\ q \in Nat /\ t + k = IndexModulus * q + r
      /\ r \in 0 .. IndexModulus - 1
  <2>1. \A x \in Nat : /\ x % IndexModulus \in 0 .. IndexModulus - 1
                       /\ x \div IndexModulus \in Nat
                       /\ x = IndexModulus * (x \div IndexModulus)
                              + (x % IndexModulus)
    <3>1. IndexModulus \in Nat \ {0}
      OBVIOUS
    <3> QED BY <3>1, Euclid
  <2>2. t + k \in Nat
    OBVIOUS
  <2> QED BY <2>1, <2>2
<1> HIDE DEF q, r
<1>2. CASE t + k < IndexModulus
  <2>1. IndexModulus * q + r = IndexModulus * 0 + (t + k)
    BY <1>1
  <2>2. r = t + k
    BY <1>1, <1>2, <2>1, RemainderUnique
  <2> QED BY <1>2, <2>2 DEF r
<1>3. CASE t + k >= IndexModulus
  <2>1. IndexModulus * q + r = IndexModulus * 1 + (t + k - IndexModulus)
    BY <1>1
  <2>2. r = t + k - IndexModulus
    BY <1>1, <1>3, <2>1, RemainderUnique
  <2> QED BY <1>3, <2>2 DEF r
<1> QED BY <1>2, <1>3

\* head - tail in unsigned arithmetic, and how one step of either moves it.
LEMMA DistanceSteps ==
  ASSUME NEW h \in Indexes, NEW t \in Indexes
  PROVE  /\ Distance(h, t) \in 0 .. IndexModulus - 1
         /\ Distance(h, t) = 0 <=> h = t
         /\ Successor(h) \in Indexes
         /\ Distance(h, t) + 1 < IndexModulus =>
              Distance(Successor(h), t) = Distance(h, t) + 1
         /\ h # t => Distance(h, Successor(t)) = Distance(h, t) - 1
         /\ h = (t + Distance(h, t)) % IndexModulus
<1> USE QueueAssumption DEF Indexes
<1>1. /\ Distance(h, t) \in 0 .. IndexModulus - 1
      /\ Distance(h, t) = 0 <=> h = t
      /\ Successor(h) \in Indexes
      /\ Distance(h, t) + 1 < IndexModulus =>
           Distance(Successor(h), t) = Distance(h, t) + 1
      /\ h # t => Distance(h, Successor(t)) = Distance(h, t) - 1
  BY DEF Distance, Successor
<1>2. h = IF t + Distance(h, t) < IndexModulus THEN t + Distance(h, t)
          ELSE t + Distance(h, t) - IndexModulus
  BY DEF Distance
<1>3. h = (t + Distance(h, t)) % IndexModulus
  <2>1. Distance(h, t) \in Nat /\ Distance(h, t) < IndexModulus
    BY <1>1
  <2> QED BY <1>2, <2>1, IndexAfter
<1> QED BY <1>1, <1>3

\* In an aligned ring the slots after t run round without a jump.
LEMMA SlotAfter ==
  ASSUME Aligned, NEW t \in Indexes, NEW k \in Nat, k < IndexModulus
  PROVE  Slot((t + k) % IndexModulus) = Slot(t + k)
<1> USE QueueAssumption DEF Indexes
<1>1. CASE t + k < IndexModulus
  BY <1>1, IndexAfter
<1>2. CASE t + k >= IndexModulus
  <2>1. PICK i \in Nat : i = t + k - IndexModulus
    BY <1>2
  <2>2. (t + k) % IndexModulus = i /\ t + k = i + IndexModulus
    BY <1>2, <2>1, IndexAfter
  <2> QED BY <2>2, SlotOfTurn
<1> QED BY <1>1, <1>2

\* Two different places of the window behind t have different slots.
LEMMA WindowSlotsDistinct ==
  ASSUME Aligned, NEW t \in Indexes,
         NEW j \in Nat, NEW k \in Nat, j < k, k < Capacity
  PROVE  Slot((t + j) % IndexModulus) # Slot((t + k) % IndexModulus)
<1> USE QueueAssumption DEF Indexes
<1>1. /\ Slot((t + j) % IndexModulus) = Slot(t + j)
      /\ Slot((t + k) % IndexModulus) = Slot(t + k)
  BY SlotAfter
<1>2. t + j \in Nat /\ t + k \in Nat /\ t + j < t + k
      /\ (t + k) - (t + j) < Capacity
  OBVIOUS
<1> QED BY <1>1, <1>2, SlotsDistinct

-----------------------------------------------------------------------------
(* The ring, whatever its capacity                                         *)

\* The empty ring satisfies the invariant.
LEMMA RingInit == Init => RingInv
BY QueueAssumption
   DEF Init, RingInv, TypeOK, Size, Distance, Indexes, Slots

\* The check against Capacity outlives everything the consumer does before
\* the store of head, and the check against head what the producer does.
LEMMA RingStep == RingInv /\ [Next]_vars => RingInv'
<1> SUFFICES ASSUME RingInv, [Next]_vars PROVE RingInv'
  OBVIOUS
<1> USE QueueAssumption DEF RingInv
<1>0. /\ head \in Indexes /\ tail \in Indexes
      /\ Size \in 0 .. IndexModulus - 1 /\ (Size = 0 <=> head = tail)
  BY DistanceSteps DEF TypeOK, Size
<1>1. ASSUME NEW v \in Values, PushLoad(v) PROVE RingInv'
  BY <1>0, <1>1 DEF PushLoad, TypeOK, Size, Distance
<1>2. CASE PushWrite
  <2>1. Slot(head) \in Slots
    BY <1>0, SlotInRange DEF Indexes
  <2>2. TypeOK'
    BY <1>2, <2>1 DEF PushWrite, TypeOK
  <2> QED BY <1>2, <2>2 DEF PushWrite, TypeOK, Size, Distance
<1>3. CASE PushPublish
  <2>1. Size < Capacity
    BY <1>3 DEF PushPublish
  <2>2. head' \in Indexes /\ Size' = Size + 1
    BY <1>0, <1>3, <2>1, DistanceSteps DEF PushPublish, Size
  <2>3. TypeOK'
    BY <1>3, <2>2 DEF PushPublish, TypeOK
  <2>4. Size' # 0 /\ Size' <= Capacity
    BY <1>0, <2>1, <2>2
  <2>5. tail' # head'
    BY <2>3, <2>4, DistanceSteps DEF TypeOK, Size
  <2> QED BY <1>3, <2>3, <2>4, <2>5 DEF PushPublish
<1>4. CASE PopLoad
  BY <1>4 DEF PopLoad, TypeOK, Size, Distance
<1>5. CASE PopRead
  <2>1. Slot(tail) \in Slots
    BY <1>0, SlotInRange DEF Indexes
  <2> QED BY <1>5, <2>1 DEF PopRead, TypeOK, Size, Distance
<1>6. CASE PopRelease
  <2>1. tail # head
    BY <1>6 DEF PopRelease
  <2>2. tail' \in Indexes /\ Size' = Size - 1
    BY <1>0, <1>6, <2>1, DistanceSteps DEF PopRelease, Size
  <2> QED BY <1>0, <1>6, <2>2 DEF PopRelease, TypeOK
<1>7. CASE UNCHANGED vars
  BY <1>7 DEF vars, TypeOK, Size, Distance
<1> QED BY <1>1, <1>2, <1>3, <1>4, <1>5, <1>6, <1>7 DEF Next

\* No interleaving of the two tasks makes the queue hold more values than it
\* has slots, nor take one from an empty queue.
THEOREM QueueBounded == Spec => []RingInv
<1>1. Init => RingInv
  BY RingInit
<1>2. RingInv /\ [Next]_vars => RingInv'
  BY RingStep
<1> QED BY <1>1, <1>2, PTL DEF Spec

\* A capacity that does not divide the index modulus (the frame queue's 3) makes
\* the slots jump where the index wraps; as long as the published values lie on
\* one side of the wrap, no write lands on one of them (radio_queue.h:19-20).
NoOverwriteInTurn ==
  tail <= head /\ producer.pc = "write" =>
    \A i \in tail .. head - 1 : Slot(i) # Slot(head)

\* Whatever the capacity, nothing published is overwritten while the published
\* window lies on one side of the wrap.
THEOREM QueueKeepsPublished == Spec => []NoOverwriteInTurn
<1>1. RingInv => NoOverwriteInTurn
  <2> SUFFICES ASSUME RingInv, tail <= head, producer.pc = "write",
                      NEW i \in tail .. head - 1
               PROVE  Slot(i) # Slot(head)
    BY DEF NoOverwriteInTurn
  <2>1. /\ i \in Nat /\ head \in Nat /\ i < head /\ head - i < Capacity
    BY QueueAssumption DEF RingInv, TypeOK, Size, Distance, Indexes
  <2> QED BY <2>1, SlotsDistinct
<1> QED BY <1>1, QueueBounded, PTL

\* With an aligned capacity they never do: a frame is neither torn nor read
\* while it is written.
THEOREM QueueNoSlotRace ==
  ASSUME Aligned
  PROVE  Spec => []NoSlotRace
<1>1. RingInv => NoSlotRace
  <2> SUFFICES ASSUME RingInv, producer.pc = "write", consumer.pc = "read"
               PROVE  Slot(head) # Slot(tail)
    BY DEF NoSlotRace
  <2>1. /\ tail \in Indexes /\ head \in Indexes
        /\ Size \in Nat /\ 0 < Size /\ Size < Capacity
        /\ head = (tail + Size) % IndexModulus
        /\ tail = (tail + 0) % IndexModulus
    <3>1. /\ tail \in Indexes /\ head \in Indexes /\ tail # head
          /\ Size < Capacity
      BY DEF RingInv, TypeOK
    <3>2. Size \in 0 .. IndexModulus - 1 /\ Size # 0
          /\ head = (tail + Size) % IndexModulus
      BY <3>1, DistanceSteps DEF Size
    <3>3. tail = (tail + 0) % IndexModulus
      <4>1. Distance(tail, tail) = 0
        BY <3>1, DistanceSteps
      <4> QED BY <3>1, <4>1, DistanceSteps
    <3> QED BY <3>1, <3>2, <3>3, QueueAssumption
  <2> QED BY <2>1, WindowSlotsDistinct
<1> QED BY <1>1, QueueBounded, PTL

-----------------------------------------------------------------------------
(* The refinement of BoundedFifo                                           *)

\* What the producer wrote is still in its slot when it publishes it, and
\* what the consumer copied is still the oldest value when it releases it.
FifoInv ==
  /\ RingInv
  /\ producer.pc = "publish" => entries[Slot(head)] = producer.value
  /\ consumer.pc = "release" => consumer.value = entries[Slot(tail)]

\* A write goes to a slot outside the published window.
LEMMA WriteOutsideWindow ==
  ASSUME Aligned, RingInv, Size < Capacity, NEW k \in 1 .. Size
  PROVE  Slot((tail + k - 1) % IndexModulus) # Slot(head)
<1>1. /\ tail \in Indexes /\ Size \in Nat
      /\ head = (tail + Size) % IndexModulus
  BY DistanceSteps DEF RingInv, TypeOK, Size
<1>2. PICK j \in Nat : j = k - 1
  BY <1>1
<1>3. j < Size /\ tail + k - 1 = tail + j
  BY <1>1, <1>2, QueueAssumption DEF Indexes
<1> QED BY <1>1, <1>3, WindowSlotsDistinct

\* The oldest published value is in the slot of tail.
LEMMA TailSlot ==
  ASSUME RingInv
  PROVE  (tail + 1 - 1) % IndexModulus = tail
<1>1. tail \in Indexes
  BY DEF RingInv, TypeOK
<1>2. Distance(tail, tail) = 0 /\ tail = (tail + Distance(tail, tail)) % IndexModulus
  BY <1>1, DistanceSteps
<1>3. tail + 1 - 1 = tail + 0
  BY <1>1, QueueAssumption DEF Indexes
<1> QED BY <1>2, <1>3

\* The contents are a sequence as long as the queue.
ContentsShape ==
  /\ Size \in Nat
  /\ Contents \in Seq(Values \cup {NoValue})
  /\ Len(Contents) = Size
  /\ \A k \in 1 .. Size :
       Contents[k] = entries[Slot((tail + k - 1) % IndexModulus)]

LEMMA ContentsSeq == RingInv => ContentsShape
<1> DEFINE V == Values \cup {NoValue}
<1> SUFFICES ASSUME RingInv PROVE ContentsShape
  OBVIOUS
<1>1. Size \in Nat /\ tail \in Indexes
  BY DistanceSteps, QueueAssumption DEF RingInv, TypeOK, Size
<1>2. ASSUME NEW k \in 1 .. Size
      PROVE  entries[Slot((tail + k - 1) % IndexModulus)] \in V
  <2>1. (tail + k - 1) \in Nat
    BY <1>1, <1>2, QueueAssumption DEF Indexes
  <2>2. (tail + k - 1) % IndexModulus \in Nat
    BY <2>1, QueueAssumption
  <2> QED BY <2>2, SlotInRange DEF RingInv, TypeOK
<1>3. Contents \in [1 .. Size -> V]
  BY <1>2 DEF Contents
<1>4. Contents \in Seq(V) /\ Len(Contents) = Size
  BY <1>1, <1>3
<1> QED BY <1>1, <1>4 DEF Contents, ContentsShape

\* The invariant of the values is kept by every step.
LEMMA FifoInvStep ==
  ASSUME Aligned, FifoInv, [Next]_vars
  PROVE  FifoInv'
<1>0. RingInv'
  BY RingStep DEF FifoInv
<1> USE DEF FifoInv
<1>1. ASSUME NEW v \in Values, PushLoad(v) PROVE FifoInv'
  BY <1>0, <1>1 DEF PushLoad
<1>2. CASE PushWrite
  <2>1. entries \in [Slots -> Values \cup {NoValue}] /\ Slot(head) \in Slots
        /\ producer \in [pc : {"idle", "write", "publish"},
                         value : Values \cup {NoValue}]
    <3>1. head \in Nat
      BY QueueAssumption DEF RingInv, TypeOK, Indexes
    <3> QED BY <3>1, SlotInRange DEF RingInv, TypeOK
  <2>2. entries'[Slot(head)] = producer.value
        /\ producer'.value = producer.value
    BY <1>2, <2>1 DEF PushWrite
  <2>3. ASSUME consumer.pc = "release"
        PROVE  entries'[Slot(tail)] = entries[Slot(tail)]
    <3>1. Size < Capacity /\ tail # head /\ tail \in Indexes /\ head \in Indexes
      BY <1>2, <2>3 DEF PushWrite, RingInv, TypeOK
    <3>2. 1 \in 1 .. Size
      BY <3>1, DistanceSteps, QueueAssumption DEF Size
    <3>3. Slot(tail) # Slot(head)
      BY <3>1, <3>2, TailSlot, WriteOutsideWindow
    <3>4. Slot(tail) \in Slots
      BY <3>1, SlotInRange, QueueAssumption DEF Indexes
    <3> QED BY <1>2, <2>1, <3>3, <3>4 DEF PushWrite
  <2> QED BY <1>0, <1>2, <2>2, <2>3 DEF PushWrite
<1>3. CASE PushPublish
  BY <1>0, <1>3 DEF PushPublish
<1>4. CASE PopLoad
  <2>1. consumer'.pc = "read"
    BY <1>4 DEF PopLoad, RingInv, TypeOK
  <2> QED BY <1>0, <1>4, <2>1 DEF PopLoad
<1>5. CASE PopRead
  BY <1>0, <1>5 DEF PopRead
<1>6. CASE PopRelease
  BY <1>0, <1>6 DEF PopRelease
<1>7. CASE UNCHANGED vars
  BY <1>0, <1>7 DEF vars
<1> QED BY <1>1, <1>2, <1>3, <1>4, <1>5, <1>6, <1>7 DEF Next

\* A store of head appends the written value to the contents.
LEMMA PublishAppends ==
  ASSUME Aligned, FifoInv, FifoInv', PushPublish
  PROVE  /\ producer.value \in Values /\ Len(Contents) < Capacity
         /\ Contents' = Append(Contents, producer.value)
         /\ delivered' = delivered
<1>0. /\ head \in Indexes /\ tail \in Indexes /\ Size < Capacity
      /\ producer.value \in Values /\ entries[Slot(head)] = producer.value
      /\ tail' = tail /\ entries' = entries /\ delivered' = delivered
      /\ head' = Successor(head)
  BY DEF PushPublish, FifoInv, RingInv, TypeOK
<1>1. ContentsShape /\ ContentsShape'
  <2>1. (RingInv => ContentsShape)'
    BY ContentsSeq, PTL
  <2> QED BY <2>1, ContentsSeq DEF FifoInv
<1>2. Size' = Size + 1 /\ Size \in Nat
  BY <1>0, <1>1, DistanceSteps, QueueAssumption DEF Size, ContentsShape
<1>3. Contents'[Size + 1] = producer.value
  <2>1. head = (tail + Size) % IndexModulus
    BY <1>0, DistanceSteps DEF Size
  <2>2. tail + (Size + 1) - 1 = tail + Size
    BY <1>0, <1>2, QueueAssumption DEF Indexes
  <2>3. Contents'[Size + 1]
          = entries[Slot((tail + (Size + 1) - 1) % IndexModulus)]
    BY <1>0, <1>1, <1>2 DEF ContentsShape
  <2> QED BY <1>0, <2>1, <2>2, <2>3
<1>4. ASSUME NEW k \in 1 .. Size PROVE Contents'[k] = Contents[k]
  BY <1>0, <1>1, <1>2, <1>4 DEF ContentsShape
<1>5. Contents' = Append(Contents, producer.value)
  BY <1>0, <1>1, <1>2, <1>3, <1>4 DEF ContentsShape
<1> QED BY <1>0, <1>1, <1>5 DEF ContentsShape

\* A store of tail removes the oldest value and hands over a copy of it.
LEMMA ReleaseRemoves ==
  ASSUME FifoInv, FifoInv', PopRelease
  PROVE  /\ Contents # <<>> /\ Contents' = Tail(Contents)
         /\ delivered' = Head(Contents)
<1>0. /\ head \in Indexes /\ tail \in Indexes /\ tail # head
      /\ head' = head /\ entries' = entries /\ tail' = Successor(tail)
      /\ delivered' = entries[Slot(tail)]
  BY DEF PopRelease, FifoInv, RingInv, TypeOK
<1>1. ContentsShape /\ ContentsShape'
  <2>1. (RingInv => ContentsShape)'
    BY ContentsSeq, PTL
  <2> QED BY <2>1, ContentsSeq DEF FifoInv
<1>2. Size' = Size - 1 /\ Size \in Nat /\ Size > 0 /\ tail' \in Indexes
      /\ Size < IndexModulus
  BY <1>0, <1>1, DistanceSteps, QueueAssumption DEF Size, ContentsShape
<1>3. Contents[1] = entries[Slot(tail)]
  BY <1>1, <1>2, TailSlot DEF ContentsShape, FifoInv
<1>4. ASSUME NEW k \in 1 .. Size - 1 PROVE Contents'[k] = Contents[k + 1]
  <2>1. /\ Contents'[k] = entries[Slot((tail' + k - 1) % IndexModulus)]
        /\ Contents[k + 1]
             = entries[Slot((tail + (k + 1) - 1) % IndexModulus)]
    BY <1>0, <1>1, <1>2, <1>4 DEF ContentsShape
  <2>2. (tail' + k - 1) % IndexModulus = (tail + (k + 1) - 1) % IndexModulus
    <3>1. PICK j \in Nat : j = k - 1 /\ j + 1 < IndexModulus
      BY <1>2, <1>4, QueueAssumption
    <3>2. tail' + k - 1 = tail' + j /\ tail + (k + 1) - 1 = tail + (j + 1)
      BY <1>0, <1>2, <3>1, QueueAssumption DEF Indexes
    <3>3. (tail' + j) % IndexModulus = (tail + (j + 1)) % IndexModulus
      <4>1. (tail' + j) % IndexModulus =
              IF tail' + j < IndexModulus THEN tail' + j
              ELSE tail' + j - IndexModulus
        BY <1>2, <3>1, IndexAfter, QueueAssumption
      <4>2. (tail + (j + 1)) % IndexModulus =
              IF tail + (j + 1) < IndexModulus THEN tail + (j + 1)
              ELSE tail + (j + 1) - IndexModulus
        <5>1. j + 1 \in Nat
          BY <3>1
        <5> QED BY <1>0, <3>1, <5>1, IndexAfter
      <4> QED
        BY <1>0, <3>1, <4>1, <4>2, QueueAssumption DEF Successor, Indexes
    <3> QED BY <3>2, <3>3
  <2> QED BY <2>1, <2>2
<1>5. Contents # <<>> /\ Head(Contents) = Contents[1]
  BY <1>1, <1>2 DEF ContentsShape
<1>6. Contents' = Tail(Contents)
  BY <1>1, <1>2, <1>4, <1>5 DEF ContentsShape
<1> QED BY <1>0, <1>3, <1>5, <1>6

\* A write leaves what is published alone.
LEMMA WriteIsInvisible ==
  ASSUME Aligned, FifoInv, PushWrite
  PROVE  Contents' = Contents
<1>1. /\ Size' = Size /\ tail' = tail /\ Size < Capacity /\ RingInv
      /\ entries' = [entries EXCEPT ![Slot(head)] = producer.value]
  BY DEF PushWrite, FifoInv, RingInv, Size
<1>2. ASSUME NEW k \in 1 .. Size
      PROVE  entries'[Slot((tail + k - 1) % IndexModulus)]
               = entries[Slot((tail + k - 1) % IndexModulus)]
  <2>1. Slot((tail + k - 1) % IndexModulus) # Slot(head)
    BY <1>1, <1>2, WriteOutsideWindow
  <2>2. entries \in [Slots -> Values \cup {NoValue}]
    BY <1>1 DEF RingInv, TypeOK
  <2>3. Slot((tail + k - 1) % IndexModulus) \in Slots
    <3>1. tail + k - 1 \in Nat
      BY <1>1, <1>2, QueueAssumption DEF RingInv, TypeOK, Indexes, Size, Distance
    <3>2. (tail + k - 1) % IndexModulus \in Nat
      BY <3>1, QueueAssumption
    <3> QED BY <3>2, SlotInRange
  <2> QED BY <1>1, <2>1, <2>2, <2>3
<1> QED BY <1>1, <1>2 DEF Contents

\* Every push and pop of the two tasks is one push or pop of a bounded FIFO.
THEOREM QueueImplementsFifo ==
  ASSUME Aligned
  PROVE  Spec => ImplementsFifo
<1>1. Init => FifoInv
  BY RingInit DEF Init, FifoInv
<1>2. FifoInv /\ [Next]_vars => FifoInv'
  BY FifoInvStep
<1>3. Init => Fifo!Init
  <2> SUFFICES ASSUME Init PROVE Contents = <<>> /\ delivered = NoValue
    BY DEF Fifo!Init
  <2>1. ContentsShape /\ Size = 0
    BY RingInit, ContentsSeq DEF Init, Size, Distance
  <2> QED BY <2>1 DEF ContentsShape, Init
<1>4. FifoInv /\ FifoInv' /\ [Next]_vars => [Fifo!Next]_<<Contents, delivered>>
  <2> SUFFICES ASSUME FifoInv, FifoInv', [Next]_vars
               PROVE  [Fifo!Next]_<<Contents, delivered>>
    OBVIOUS
  <2>1. ASSUME NEW v \in Values, PushLoad(v)
        PROVE  UNCHANGED <<Contents, delivered>>
    BY <2>1 DEF PushLoad, Contents, Size
  <2>2. CASE PushWrite
    BY <2>2, WriteIsInvisible DEF PushWrite
  <2>3. CASE PushPublish
    BY <2>3, PublishAppends DEF Fifo!Next, Fifo!Push
  <2>4. CASE PopLoad
    BY <2>4 DEF PopLoad, Contents, Size
  <2>5. CASE PopRead
    BY <2>5 DEF PopRead, Contents, Size
  <2>6. CASE PopRelease
    BY <2>6, ReleaseRemoves DEF Fifo!Next, Fifo!Pop
  <2>7. CASE UNCHANGED vars
    BY <2>7 DEF vars, Contents, Size
  <2> QED BY <2>1, <2>2, <2>3, <2>4, <2>5, <2>6, <2>7 DEF Next
<1> QED
  BY <1>1, <1>2, <1>3, <1>4, PTL DEF Spec, ImplementsFifo, Fifo!Spec
=============================================================================
