------------------------- MODULE ReliableLinkProofs -------------------------
(***************************************************************************)
(* The link implements the abstract delivery, for every number of messages *)
(* and fragments, every retry policy, every size of the queues and of the  *)
(* duplicate cache, and any number of reboots of either node.              *)
(*                                                                         *)
(* The duplicate cache is shared by all peers, so the theorem has a        *)
(* hypothesis: while one message is under way, third nodes send fewer      *)
(* messages than the cache has entries.  Without it the cache forgets a    *)
(* message that is still being retried.                                    *)
(*                                                                         *)
(* The inductive invariant follows a message from the sender (Sending)     *)
(* through the receive queue (Arriving, InOrder) into the cache, which     *)
(* remembers it as long as a copy may still arrive (Remembering), and back *)
(* through the ACKs to the sender (Vouching).                              *)
(***************************************************************************)
EXTENDS ReliableLink, SequenceTheorems, TLAPS

\* While A works on one message, third nodes send fewer messages than the cache
\* has entries.
QuietNeighbours == \A w \in Deliveries : OtherMessages[w] < CacheCapacity

Nodes == {"a", "other"}
Keys == [source : Nat, tx : Nat, sequence : Nat]
Messages ==
  [kind : {"COMMAND", "RESULT"}, source : Nat, tx : Nat, sequence : Nat,
   count : Nat, ackRequired : BOOLEAN, body : Nat]
Frames == [message : Messages, index : Nat, intact : BOOLEAN, valid : BOOLEAN]
Acks ==
  [peer : Nodes \cup {"none"}, key : Keys, status : {"ACCEPTED", "DUPLICATE"}]

Outcomes == {"none", "acknowledged", "failed", "abandoned"}

SenderTx == Nat \cup {NoTransaction}
SenderRecords ==
  [state : S!SenderStates, delivery : S!DeliveryStates,
   tx : SenderTx, sequence : Nat, kind : {"COMMAND", "RESULT"},
   peer : {"b", "none"}, count : Nat, index : Nat, inFlight : BOOLEAN,
   attempts : Nat, age : Nat]

Buffers ==
  [message : Messages \cup {NoMessage}, received : SUBSET Nat,
   damaged : SUBSET Nat]
RuntimeRecords ==
  [buffer : Buffers, assembling : BOOLEAN, activePeer : Nodes \cup {"none"},
   messageReady : BOOLEAN, messagePeer : Nodes \cup {"none"},
   deliveryAck : {NoAck}, applicationAck : Acks \cup {NoAck},
   duplicates : Seq(Keys)]

\* Sender and delivery are idle together, and nothing of an idle sender is in
\* flight.
SenderSound(s) ==
  /\ s \in SenderRecords
  /\ s.state = "IDLE" <=> s.delivery = "IDLE"
  /\ s.inFlight => s.state # "IDLE"

\* Either of the two state machines has seen the ACK.
Acked(s) == "ACKNOWLEDGED" \in {s.state, s.delivery}

\* The delivery key of the message the sender works on, and the message and
\* the peer of a queued frame.
SenderKey == [source |-> boot, tx |-> sender.tx, sequence |-> sender.sequence]
MessageAt(i) == frames[i][2].message
FromA(i) == frames[i][1] = "a"

\* The message of A that was started last when a frame was sent.
Window(i) == IF FromA(i) THEN MessageAt(i).body ELSE MessageAt(i).sequence

Typed ==
  /\ SenderSound(sender) /\ runtime \in RuntimeRecords
  /\ frames \in Seq(Nodes \X Frames) /\ acks \in Seq(Acks)
  /\ boot \in Nat /\ reboots \in Nat /\ boot + reboots <= MaxReboots + 1
  /\ offered \in {0} \cup Deliveries /\ earlier \in Nat /\ earlier <= offered
  /\ 1 .. offered \subseteq Deliveries
  /\ others \in Nat /\ others <= OtherMessages[offered]
  /\ taken \in [Deliveries -> Nat] /\ outcome \in [Deliveries -> Outcomes]

\* The sender carries the message offered last, the only one without outcome.
Sending ==
  /\ sender.state # "IDLE" => sender.tx = offered - earlier /\ offered > earlier
  /\ \A d \in Deliveries :
       outcome[d] = "none" <=>
         d > offered \/ (d = offered /\ sender.state # "IDLE")

\* A frame in the receive queue of B.
ArrivingAt(i) ==
  LET m == MessageAt(i) IN
  /\ FromA(i) =>
       /\ m.source <= boot /\ m.body \in 1 .. offered
       /\ m.source = boot => m.body = earlier + m.tx
       /\ m.body = offered /\ sender.state # "IDLE" => R!KeyOf(m) = SenderKey
  /\ ~FromA(i) =>
       /\ m.source = MaxReboots + 2 /\ m.sequence \in 0 .. offered
       /\ m.tx \in 1 .. OtherMessages[m.sequence]
       /\ m.sequence = offered => others < m.tx

Arriving == \A i \in DOMAIN frames : ArrivingAt(i)

\* The queue keeps the order the frames were sent in.
Before(i, j) ==
  /\ Window(i) <= Window(j)
  /\ FromA(i) /\ FromA(j) /\ Window(i) = Window(j) =>
       R!KeyOf(MessageAt(i)) = R!KeyOf(MessageAt(j))
  /\ ~FromA(i) /\ ~FromA(j) /\ Window(i) = Window(j) =>
       MessageAt(j).tx < MessageAt(i).tx

InOrder == \A i, j \in DOMAIN frames : i < j => Before(i, j)

\* The key of message d is in the cache, deep enough to survive what third
\* nodes sent and still may send while A works on d.
Remembered(key, d) ==
  \E k \in DOMAIN runtime.duplicates :
    /\ runtime.duplicates[k] = key
    /\ d = offered =>
         Len(runtime.duplicates) - k + others <= OtherMessages[d]
    /\ \A j \in DOMAIN frames : ~FromA(j) /\ Window(j) = d =>
         Len(runtime.duplicates) - k + MessageAt(j).tx <= OtherMessages[d]

\* Nothing older than a message that was taken arrives any more, and a taken
\* message of which a copy may still arrive is in the cache.
Remembering ==
  /\ \A d \in Deliveries : taken[d] # 0 =>
       d <= offered /\ \A i \in DOMAIN frames : d <= Window(i)
  /\ \A i \in DOMAIN frames : FromA(i) /\ taken[Window(i)] # 0 =>
       Remembered(R!KeyOf(MessageAt(i)), Window(i))
  /\ sender.state # "IDLE" /\ taken[offered] # 0 =>
       Remembered(SenderKey, offered)

\* A key B has seen: if it is of this life of A, its message was taken.
Vouched(key) ==
  /\ key.source <= boot \/ key.source = MaxReboots + 2
  /\ key.source = boot => earlier + key.tx \in everTaken

Vouching ==
  /\ \A i \in DOMAIN runtime.duplicates : Vouched(runtime.duplicates[i])
  /\ runtime.applicationAck # NoAck => Vouched(runtime.applicationAck.key)
  /\ \A i \in DOMAIN acks : Vouched(acks[i].key)
  /\ Acked(sender) => offered \in everTaken

LinkInv ==
  Typed /\ Sending /\ Arriving /\ InOrder /\ Remembering /\ Vouching

-----------------------------------------------------------------------------
(* The sender                                                              *)

\* r is the sender s a little later, with the same message and no new ACK.
Carries(s, r) ==
  /\ SenderSound(r) /\ r.tx = s.tx /\ r.sequence = s.sequence
  /\ r.state = "IDLE" <=> s.state = "IDLE"
  /\ Acked(r) => Acked(s)

\* A sender carries its own message on; steps of that kind compose.
LEMMA CarriesItself ==
  ASSUME NEW s, SenderSound(s)
  PROVE  Carries(s, s)
BY DEF Carries

\* Two steps that keep the message keep it together.
LEMMA CarriesOn ==
  ASSUME NEW s, NEW q, NEW r, Carries(s, q), Carries(q, r)
  PROVE  Carries(s, r)
BY DEF Carries

\* The record start() leaves is a sender record.
LEMMA StartedRecord ==
  ASSUME NEW tx, tx \in SenderTx, NEW count, count \in Nat,
         NEW n, n \in Nat, NEW r,
         r = [state |-> "READY", delivery |-> "READY_TO_SEND", tx |-> tx,
              sequence |-> n, kind |-> "COMMAND", peer |-> "b",
              count |-> count, index |-> 0, inFlight |-> FALSE,
              attempts |-> 0, age |-> 0]
  PROVE  r \in SenderRecords
BY DEF SenderRecords, S!SenderStates, S!DeliveryStates

\* start() gives the sender another message, and no ACK of the last one counts.
LEMMA SenderStarts ==
  ASSUME NEW s, SenderSound(s), NEW tx, tx \in SenderTx,
         NEW count, count \in Nat, NEW r,
         r = S!Start(s, "b", "COMMAND", tx, count)
  PROVE  SenderSound(r) /\ r.tx = tx /\ r.state # "IDLE" /\ ~Acked(r)
<1>1. PICK n : n = S!NextSequence(s.sequence)
  OBVIOUS
<1>2. n \in Nat
  BY <1>1 DEF SenderSound, SenderRecords, S!NextSequence
<1>3. r = [s EXCEPT !.state = "READY", !.delivery = "READY_TO_SEND", !.tx = tx,
                    !.sequence = n, !.kind = "COMMAND", !.peer = "b",
                    !.count = count, !.index = 0, !.inFlight = FALSE,
                    !.attempts = 0, !.age = 0]
  BY <1>1 DEF S!Start
<1>4. r = [state |-> "READY", delivery |-> "READY_TO_SEND", tx |-> tx,
           sequence |-> n, kind |-> "COMMAND", peer |-> "b",
           count |-> count, index |-> 0, inFlight |-> FALSE,
           attempts |-> 0, age |-> 0]
  BY <1>3 DEF SenderSound, SenderRecords
<1>5. r \in SenderRecords
  BY <1>2, <1>4, StartedRecord
<1>6. r.state = "READY" /\ r.delivery = "READY_TO_SEND" /\ r.tx = tx
  BY <1>4
<1>7. r.inFlight = FALSE
  BY <1>4
<1> QED
  BY <1>5, <1>6, <1>7 DEF SenderSound, Acked

\* configure() and reset() leave an idle sender.
LEMMA SenderResets ==
  ASSUME NEW s, s = S!InitialSender \/ \E q : SenderSound(q) /\ s = S!Reset(q)
  PROVE  SenderSound(s) /\ s.state = "IDLE" /\ ~Acked(s)
<1>1. CASE s = S!InitialSender
  BY <1>1 DEF SenderSound, SenderRecords, SenderTx, Acked, S!InitialSender,
              S!SenderStates, S!DeliveryStates
<1>2. ASSUME NEW q, SenderSound(q), s = S!Reset(q)
      PROVE  SenderSound(s) /\ s.state = "IDLE" /\ ~Acked(s)
  BY <1>2 DEF SenderSound, SenderRecords, SenderTx, Acked, S!InitialSender,
              S!Reset, S!SenderStates, S!DeliveryStates
<1> QED BY <1>1, <1>2

\* A tick of the clock keeps the message.
LEMMA SenderElapses ==
  ASSUME NEW s, SenderSound(s)
  PROVE  Carries(s, S!Elapse(s))
BY DEF Carries, SenderSound, SenderRecords, Acked, S!Elapse

\* The end of an ACK window, with a retry or without, keeps the message.
LEMMA SenderExpires ==
  ASSUME NEW s, SenderSound(s)
  PROVE  Carries(s, S!ExpireWindow(s))
BY DEF Carries, SenderSound, SenderRecords, Acked, S!ExpireWindow,
       S!DeliveryStates

\* Copying the delivery's terminal state into the sender keeps the message.
LEMMA SenderMirrors ==
  ASSUME NEW s, SenderSound(s)
  PROVE  Carries(s, S!Mirror(s))
BY DEF Carries, SenderSound, SenderRecords, Acked, S!Mirror, S!SenderStates,
       S!DeliveryStates

\* So does loop(), which does both.
LEMMA SenderLoops ==
  ASSUME NEW s, SenderSound(s)
  PROVE  Carries(s, S!Loop(s))
<1>1. PICK e : e = S!ExpireWindow(s)
  OBVIOUS
<1>2. Carries(s, e)
  BY <1>1, SenderExpires
<1>3. Carries(e, S!Mirror(e))
  BY <1>2, SenderMirrors DEF Carries
<1> QED
  BY <1>1, <1>2, <1>3, CarriesOn DEF S!Loop

\* take_frame() has a message to take a fragment of.
LEMMA SenderTakesFrame ==
  ASSUME NEW s, SenderSound(s), S!CanTakeFrame(s)
  PROVE  Carries(s, S!TakeFrame(s)) /\ s.state # "IDLE"
BY DEF Carries, SenderSound, SenderRecords, Acked, S!TakeFrame, S!CanTakeFrame,
       S!SenderStates

\* mark_sent() opens an ACK window for the same message.
LEMMA SenderMarks ==
  ASSUME NEW s, SenderSound(s), s.state # "IDLE"
  PROVE  Carries(s, S!MarkSent(s))
<1>1. PICK n, r : n = s.attempts + 1 /\ r = S!MarkSent(s)
  OBVIOUS
<1>2. s \in SenderRecords /\ n \in Nat
  BY <1>1 DEF SenderSound, SenderRecords
<1>3. r = [s EXCEPT !.delivery = "WAITING_FOR_ACK", !.state = "WAITING_FOR_ACK",
                    !.attempts = n, !.age = 0]
  BY <1>1 DEF S!MarkSent
<1>4. r \in SenderRecords
  BY <1>2, <1>3 DEF SenderRecords, S!SenderStates, S!DeliveryStates
<1>5. /\ r.state = "WAITING_FOR_ACK" /\ r.delivery = "WAITING_FOR_ACK"
      /\ r.tx = s.tx /\ r.sequence = s.sequence
  BY <1>2, <1>3 DEF SenderRecords
<1> QED
  BY <1>1, <1>4, <1>5 DEF Carries, SenderSound, Acked

\* complete_frame() keeps the message, whatever the radio reports.
LEMMA SenderCompletesFrame ==
  ASSUME NEW s, SenderSound(s), NEW ok \in BOOLEAN
  PROVE  Carries(s, S!CompleteFrame(s, ok))
<1>1. CASE ~s.inFlight
  BY <1>1, CarriesItself DEF S!CompleteFrame
<1>2. CASE s.inFlight
  <2>0. s \in SenderRecords /\ s.state # "IDLE" /\ s.index + 1 \in Nat
    BY <1>2 DEF SenderSound, SenderRecords
  <2>1. PICK done : done = [s EXCEPT !.inFlight = FALSE]
    OBVIOUS
  <2>2. PICK next : next = [done EXCEPT !.index = s.index + 1]
    OBVIOUS
  <2>3. PICK ready : ready = [next EXCEPT !.state = "READY"]
    OBVIOUS
  <2>4. Carries(s, done)
    BY <2>0, <2>1 DEF Carries, SenderSound, SenderRecords, Acked
  <2>5. Carries(s, next)
    BY <2>0, <2>1, <2>2 DEF Carries, SenderSound, SenderRecords, Acked
  <2>6. Carries(s, ready)
    BY <2>0, <2>3, <2>5
       DEF Carries, SenderSound, SenderRecords, Acked, S!SenderStates
  <2>7. Carries(s, S!MarkSent(done))
    BY <2>0, <2>4, SenderMarks, CarriesOn DEF Carries
  <2>8. Carries(s, S!MarkSent(next))
    BY <2>0, <2>5, SenderMarks, CarriesOn DEF Carries
  <2>9. S!CompleteFrame(s, ok) \in
          {done, next, ready, S!MarkSent(done), S!MarkSent(next)}
    BY <1>2, <2>1, <2>2, <2>3 DEF S!CompleteFrame
  <2> QED BY <2>4, <2>5, <2>6, <2>7, <2>8, <2>9
<1> QED BY <1>1, <1>2

\* An ACK counts only if it names the message the sender works on.
LEMMA SenderAcceptsAck ==
  ASSUME NEW s, SenderSound(s), NEW tx, NEW sequence, NEW status, NEW r,
         r = S!AcceptAck(s, tx, sequence, status)
  PROVE  \/ Carries(s, r)
         \/ /\ SenderSound(r) /\ r.tx = s.tx /\ r.sequence = s.sequence
            /\ r.state # "IDLE" /\ s.state # "IDLE" /\ tx = s.tx
BY CarriesItself
   DEF SenderSound, SenderRecords, S!AcceptAck, S!AckMatches, S!SenderStates,
       S!DeliveryStates

-----------------------------------------------------------------------------
(* The runtime                                                             *)

\* The delivery key of a message.
LEMMA KeyTyped ==
  ASSUME NEW m \in Messages
  PROVE  R!KeyOf(m) \in Keys
BY DEF Messages, Keys, R!KeyOf

\* The reassembler after a reset.
LEMMA EmptyBufferTyped == R!EmptyBuffer \in Buffers
BY DEF R!EmptyBuffer, Buffers

\* Observing a key appends it and forgets at most the oldest one.
LEMMA ObserveTyped ==
  ASSUME NEW s \in Seq(Keys), NEW key \in Keys, NEW t, t = R!Observe(s, key)
  PROVE  t \in Seq(Keys)
<1>0. CacheCapacity \in Nat \ {0}
  BY LinkAssumption
<1>1. CASE Len(s) < CacheCapacity
  BY <1>1 DEF R!Observe
<1>2. CASE ~(Len(s) < CacheCapacity)
  <2>1. s # <<>>
    BY <1>0, <1>2
  <2> QED BY <1>2, <2>1 DEF R!Observe
<1> QED BY <1>1, <1>2

\* The key is the newest entry; an older one keeps its place in a cache that has
\* room, and moves towards the front by one in a full one.
LEMMA ObserveShape ==
  ASSUME NEW s \in Seq(Keys), NEW key \in Keys, NEW t \in Seq(Keys),
         t = R!Observe(s, key)
  PROVE  /\ \/ Len(t) = Len(s) + 1 /\ \A k \in 1 .. Len(s) : t[k] = s[k]
            \/ /\ Len(t) = Len(s) /\ Len(s) >= CacheCapacity
               /\ \A k \in 2 .. Len(s) : t[k - 1] = s[k]
         /\ t[Len(t)] = key /\ Len(t) >= 1
<1>0. CacheCapacity \in Nat \ {0}
  BY LinkAssumption
<1>1. CASE Len(s) < CacheCapacity
  BY <1>1 DEF R!Observe
<1>2. CASE ~(Len(s) < CacheCapacity)
  <2>1. s # <<>> /\ Len(s) \in Nat
    BY <1>0, <1>2
  <2>2. /\ Tail(s) \in Seq(Keys) /\ Len(Tail(s)) = Len(s) - 1
        /\ \A k \in 1 .. Len(s) - 1 : Tail(s)[k] = s[k + 1]
    BY <2>1
  <2>3. t = Append(Tail(s), key)
    BY <1>2 DEF R!Observe
  <2>4. /\ Len(t) = Len(s) /\ t[Len(s)] = key
        /\ \A k \in 1 .. Len(s) - 1 : t[k] = s[k + 1]
    BY <2>1, <2>2, <2>3
  <2>5. \A k \in 2 .. Len(s) : t[k - 1] = s[k]
    BY <2>1, <2>4
  <2> QED BY <1>0, <1>2, <2>1, <2>4, <2>5
<1> QED BY <1>1, <1>2

\* accept() recognises a repetition, or does nothing for the application.
Skips(r, u, key) ==
  /\ u.messageReady => r.messageReady
  /\ u.duplicates = r.duplicates
  /\ \/ u.applicationAck = r.applicationAck
     \/ u.applicationAck.key = key /\ R!Contains(r.duplicates, key)

\* accept() completes the first copy of a message.
Holds(r, u, key) ==
  /\ u.messageReady /\ ~r.messageReady /\ ~R!Contains(r.duplicates, key)
  /\ u.duplicates = R!Observe(r.duplicates, key)
  /\ u.applicationAck.key = key

\* Releasing or dropping the buffer concerns the reassembler only.
LEMMA DropTyped ==
  ASSUME NEW r \in RuntimeRecords, NEW q,
         q \in {R!Release(r), R!DropAssembly(r)}
  PROVE  /\ q \in RuntimeRecords /\ q.messageReady = r.messageReady
         /\ q.duplicates = r.duplicates /\ q.applicationAck = r.applicationAck
BY EmptyBufferTyped DEF R!Release, R!DropAssembly, RuntimeRecords

\* So does a frame of another peer than the one being assembled.
LEMMA SwitchTyped ==
  ASSUME NEW r \in RuntimeRecords, NEW peer \in Nodes, NEW q,
         q = R!SwitchPeer(r, peer)
  PROVE  /\ q \in RuntimeRecords /\ q.messageReady = r.messageReady
         /\ q.duplicates = r.duplicates /\ q.applicationAck = r.applicationAck
BY DropTyped DEF R!SwitchPeer

\* A stored fragment: the buffer now holds the frame's message.
LEMMA AssembleTyped ==
  ASSUME NEW r \in RuntimeRecords, NEW peer \in Nodes, NEW f \in Frames, NEW t,
         t = R!Assemble(r, peer, f)
  PROVE  /\ t \in RuntimeRecords /\ t.messageReady = r.messageReady
         /\ t.duplicates = r.duplicates /\ t.applicationAck = r.applicationAck
         /\ t.buffer.message = f.message
<1>1. PICK q : q = IF R!Mismatch(r.buffer, f) THEN R!DropAssembly(r) ELSE r
  OBVIOUS
<1>2. /\ q \in RuntimeRecords /\ q.messageReady = r.messageReady
      /\ q.duplicates = r.duplicates /\ q.applicationAck = r.applicationAck
  BY <1>1, DropTyped
<1>3. PICK c : c = R!StoreFragment(q.buffer, f)
  OBVIOUS
<1>4. c \in Buffers /\ c.message = f.message
  <2>1. q.buffer \in Buffers
    BY <1>2 DEF RuntimeRecords
  <2> QED BY <1>3, <2>1 DEF R!StoreFragment, Buffers, Frames
<1>5. PICK p : p = IF q.assembling THEN q.activePeer ELSE peer
  OBVIOUS
<1>6. p \in Nodes \cup {"none"}
  BY <1>2, <1>5 DEF RuntimeRecords
<1>7. t = [q EXCEPT !.buffer = c, !.activePeer = p]
  BY <1>1, <1>3, <1>5 DEF R!Assemble
<1>8. /\ t \in RuntimeRecords /\ t.buffer = c
      /\ t.duplicates = q.duplicates /\ t.applicationAck = q.applicationAck
  BY <1>2, <1>4, <1>6, <1>7 DEF RuntimeRecords
<1>9. t.messageReady = q.messageReady
  BY <1>2, <1>7 DEF RuntimeRecords
<1> QED BY <1>2, <1>4, <1>8, <1>9

\* What a stored fragment leads to.
LEMMA FinishOutcome ==
  ASSUME NEW t \in RuntimeRecords, NEW m \in Messages,
         t.buffer.message = m, t.messageReady = FALSE, NEW u, u = R!Finish(t)
  PROVE  /\ u \in RuntimeRecords
         /\ Skips(t, u, R!KeyOf(m)) \/ Holds(t, u, R!KeyOf(m))
<1>1. CASE ~R!Complete(t.buffer)
  <2>1. u = [t EXCEPT !.assembling = TRUE]
    BY <1>1 DEF R!Finish
  <2>2. /\ u \in RuntimeRecords /\ u.duplicates = t.duplicates
        /\ u.applicationAck = t.applicationAck
    BY <2>1 DEF RuntimeRecords
  <2>3. u.messageReady = FALSE
    BY <2>1 DEF RuntimeRecords
  <2> QED BY <2>2, <2>3 DEF Skips
<1>2. CASE R!Complete(t.buffer)
  <2>0. PICK q : q = [t EXCEPT !.assembling = FALSE]
    OBVIOUS
  <2>1. /\ q \in RuntimeRecords /\ q.buffer = t.buffer
        /\ q.activePeer = t.activePeer /\ q.duplicates = t.duplicates
        /\ q.applicationAck = t.applicationAck
    BY <2>0 DEF RuntimeRecords
  <2>2. q.messageReady = FALSE
    BY <2>0 DEF RuntimeRecords
  <2>3. u = IF q.buffer.damaged # {} THEN R!Release(q)
            ELSE R!AcceptApplicationMessage(q)
    <3>1. m.kind # "ACK"
      BY DEF Messages
    <3> QED BY <1>2, <2>0, <2>1, <3>1 DEF R!Finish
  <2>4. PICK e : e = R!Release(q)
    OBVIOUS
  <2>5. /\ e \in RuntimeRecords /\ e.messageReady = FALSE
        /\ e.duplicates = t.duplicates /\ e.applicationAck = t.applicationAck
    BY <2>1, <2>2, <2>4, DropTyped
  <2>6. CASE u = e
    BY <2>5, <2>6 DEF Skips
  <2>7. CASE u # e /\ R!Contains(t.duplicates, R!KeyOf(m))
    <3>1. PICK a : a = [peer |-> t.activePeer, key |-> R!KeyOf(m),
                        status |-> "DUPLICATE"]
      OBVIOUS
    <3>2. a \in Acks /\ a.key = R!KeyOf(m)
      BY <3>1, KeyTyped DEF Acks, RuntimeRecords
    <3>3. u = [e EXCEPT !.applicationAck = a]
      BY <2>1, <2>3, <2>4, <2>7, <3>1 DEF R!AcceptApplicationMessage
    <3>4. u \in RuntimeRecords /\ u.applicationAck = a
          /\ u.duplicates = e.duplicates
      BY <2>5, <3>2, <3>3 DEF RuntimeRecords
    <3>5. u.messageReady = FALSE
      BY <2>5, <3>3 DEF RuntimeRecords
    <3> QED BY <2>5, <2>7, <3>2, <3>4, <3>5 DEF Skips
  <2>8. CASE u # e /\ ~R!Contains(t.duplicates, R!KeyOf(m))
    <3>1. PICK a : a = [peer |-> t.activePeer, key |-> R!KeyOf(m),
                        status |-> "ACCEPTED"]
      OBVIOUS
    <3>2. a \in Acks /\ a.key = R!KeyOf(m)
      BY <3>1, KeyTyped DEF Acks, RuntimeRecords
    <3>3. PICK d : d = R!Observe(t.duplicates, R!KeyOf(m))
      OBVIOUS
    <3>4. d \in Seq(Keys)
      BY <3>3, ObserveTyped, KeyTyped DEF RuntimeRecords
    <3>5. u = [q EXCEPT !.messageReady = TRUE, !.messagePeer = q.activePeer,
                        !.duplicates = d, !.applicationAck = a]
      BY <2>1, <2>3, <2>4, <2>8, <3>1, <3>3 DEF R!AcceptApplicationMessage
    <3>6. u \in RuntimeRecords /\ u.applicationAck = a /\ u.duplicates = d
      BY <2>1, <3>2, <3>4, <3>5, ZenonT(60) DEF RuntimeRecords
    <3>7. u.messageReady = TRUE
      BY <2>1, <3>5 DEF RuntimeRecords
    <3> QED BY <2>8, <3>2, <3>3, <3>6, <3>7 DEF Holds
  <2> QED BY <2>6, <2>7, <2>8
<1> QED BY <1>1, <1>2

\* accept(): one frame of one peer.
LEMMA AcceptOutcome ==
  ASSUME NEW r \in RuntimeRecords, NEW peer \in Nodes, NEW f \in Frames,
         NEW u, u = R!Accept(r, peer, f)
  PROVE  /\ u \in RuntimeRecords
         /\ Skips(r, u, R!KeyOf(f.message)) \/ Holds(r, u, R!KeyOf(f.message))
<1>1. CASE R!Holding(r)
  BY <1>1 DEF R!Accept, Skips
<1>2. CASE ~R!Holding(r)
  <2>1. PICK q : q = R!SwitchPeer(r, peer)
    OBVIOUS
  <2>2. /\ q \in RuntimeRecords /\ q.messageReady = r.messageReady
        /\ q.duplicates = r.duplicates /\ q.applicationAck = r.applicationAck
    BY <2>1, SwitchTyped
  <2>3. CASE ~f.valid
    BY <1>2, <2>1, <2>2, <2>3 DEF R!Accept, Skips
  <2>4. CASE f.valid
    <3>1. PICK t : t = R!Assemble(q, peer, f)
      OBVIOUS
    <3>2. /\ t \in RuntimeRecords /\ t.messageReady = q.messageReady
          /\ t.duplicates = q.duplicates
          /\ t.applicationAck = q.applicationAck
          /\ t.buffer.message = f.message
      BY <2>2, <3>1, AssembleTyped
    <3>3. t.messageReady = FALSE /\ f.message \in Messages
      BY <1>2, <2>2, <3>2 DEF R!Holding, RuntimeRecords, Frames
    <3>4. u = R!Finish(t)
      BY <1>2, <2>1, <2>4, <3>1 DEF R!Accept
    <3>5. /\ u \in RuntimeRecords
          /\ \/ Skips(t, u, R!KeyOf(f.message))
             \/ Holds(t, u, R!KeyOf(f.message))
      BY <3>2, <3>3, <3>4, FinishOutcome
    <3> QED BY <2>2, <3>2, <3>5 DEF Skips, Holds
  <2> QED BY <2>3, <2>4
<1> QED BY <1>1, <1>2

-----------------------------------------------------------------------------
(* The queue of B                                                          *)

\* A frame in the queue.
LEMMA QueueFields ==
  ASSUME frames \in Seq(Nodes \X Frames), NEW i \in DOMAIN frames
  PROVE  /\ frames[i][1] \in Nodes /\ frames[i][2] \in Frames
         /\ MessageAt(i) \in Messages /\ R!KeyOf(MessageAt(i)) \in Keys
         /\ Window(i) \in Nat /\ MessageAt(i).tx \in Nat
<1>1. frames[i] \in Nodes \X Frames
  OBVIOUS
<1>2. frames[i][1] \in Nodes /\ frames[i][2] \in Frames
  BY <1>1
<1>3. MessageAt(i) \in Messages
  BY <1>2 DEF MessageAt, Frames
<1>4. Window(i) \in Nat /\ MessageAt(i).tx \in Nat
  BY <1>3 DEF Messages, Window
<1> QED BY <1>2, <1>3, <1>4, KeyTyped

\* A full queue drops the frame, another one appends it.
LEMMA EnqueueShape ==
  ASSUME NEW T, NEW q \in Seq(T), NEW item \in T, NEW r,
         r \in {q, Received(q, item)}
  PROVE  /\ r \in Seq(T)
         /\ \/ r = q
            \/ /\ Len(r) = Len(q) + 1 /\ DOMAIN r = 1 .. Len(q) + 1
               /\ DOMAIN q = 1 .. Len(q) /\ Len(q) \in Nat
               /\ \A i \in 1 .. Len(q) : r[i] = q[i]
               /\ r[Len(q) + 1] = item
BY DEF Received

\* Taking the head moves every other item forward by one.
LEMMA DequeueShape ==
  ASSUME NEW T, NEW q \in Seq(T), q # <<>>, NEW r, r = Tail(q)
  PROVE  /\ r \in Seq(T) /\ Head(q) = q[1] /\ 1 \in DOMAIN q
         /\ \A i \in DOMAIN r : i + 1 \in DOMAIN q /\ r[i] = q[i + 1] /\ i >= 1
OBVIOUS

\* Forgetting frames, or queueing other ones than those of third nodes of this
\* window, does not push a key out of the cache.
LEMMA RememberedOn ==
  ASSUME NEW key, NEW d, Remembered(key, d),
         runtime'.duplicates = runtime.duplicates,
         d = offered' => d = offered /\ others' <= others,
         others \in Nat, others' \in Nat,
         runtime.duplicates \in Seq(Keys), OtherMessages[d] \in Nat,
         \A j \in DOMAIN frames' : ~FromA(j)' /\ Window(j)' = d =>
           \E i \in DOMAIN frames :
             ~FromA(i) /\ Window(i) = d /\ MessageAt(i).tx = MessageAt(j)'.tx
  PROVE  Remembered(key, d)'
<1>1. PICK k \in DOMAIN runtime.duplicates :
        /\ runtime.duplicates[k] = key
        /\ d = offered =>
             Len(runtime.duplicates) - k + others <= OtherMessages[d]
        /\ \A j \in DOMAIN frames : ~FromA(j) /\ Window(j) = d =>
             Len(runtime.duplicates) - k + MessageAt(j).tx <= OtherMessages[d]
  BY DEF Remembered
<1>2. k \in Nat /\ Len(runtime.duplicates) \in Nat
  OBVIOUS
<1>3. d = offered' =>
        Len(runtime.duplicates) - k + others' <= OtherMessages[d]
  BY <1>1, <1>2
<1>4. \A j \in DOMAIN frames' : ~FromA(j)' /\ Window(j)' = d =>
        Len(runtime.duplicates) - k + MessageAt(j)'.tx <= OtherMessages[d]
  BY <1>1
<1> QED BY <1>1, <1>3, <1>4 DEF Remembered

-----------------------------------------------------------------------------
(* Node A                                                                  *)

\* A step of A that keeps the message the sender works on, if any: nothing
\* reaches B, and the sender learns of an ACK only if it is vouched for.
LEMMA SenderStep ==
  ASSUME LinkInv, UNCHANGED <<outcome, lives, runtime, frames, others, takes>>,
         acks' \in Seq(Acks), \A i \in DOMAIN acks' : Vouched(acks'[i].key),
         SenderSound(sender'), sender'.tx = sender.tx,
         sender'.sequence = sender.sequence,
         sender'.state = "IDLE" <=> sender.state = "IDLE",
         Acked(sender') => offered \in everTaken
  PROVE  LinkInv'
<1> USE DEF lives, takes
<1>1. Typed'
  BY DEF LinkInv, Typed
<1>2. Sending'
  BY DEF LinkInv, Sending
<1>3. SenderKey' = SenderKey
  BY DEF SenderKey
<1>4. Arriving' /\ InOrder'
  BY <1>3 DEF LinkInv, Arriving, ArrivingAt, InOrder, Before, MessageAt, FromA,
              Window
<1>5. Remembering'
  BY <1>3 DEF LinkInv, Remembering, Remembered, MessageAt, FromA, Window
<1>6. Vouching'
  BY DEF LinkInv, Vouching, Vouched
<1> QED BY <1>1, <1>2, <1>4, <1>5, <1>6 DEF LinkInv

\* A step of A that keeps the message and receives no ACK.
LEMMA CarryStep ==
  ASSUME LinkInv, UNCHANGED <<outcome, lives, runtime, frames, others, takes>>,
         UNCHANGED acks, Carries(sender, sender')
  PROVE  LinkInv'
<1>1. /\ acks \in Seq(Acks) /\ \A i \in DOMAIN acks : Vouched(acks[i].key)
      /\ Acked(sender) => offered \in everTaken
  BY DEF LinkInv, Typed, Vouching
<1> QED BY <1>1, SenderStep DEF Carries

\* The application starts the next message: a new window opens, for which
\* nothing is in the queue, nothing taken and nothing acknowledged.
LEMMA StartInv ==
  ASSUME LinkInv, StartMessage
  PROVE  LinkInv'
<1>0. /\ offered' = offered + 1 /\ others' = OtherMessages[offered + 1]
      /\ UNCHANGED <<acks, outcome, boot, earlier, reboots, runtime, frames>>
      /\ UNCHANGED <<taken, everTaken>>
      /\ sender.state = "IDLE" /\ offered + 1 \in Deliveries
  BY DEF StartMessage, takes, S!CanStart
<1>1. /\ Typed /\ Sending /\ Arriving /\ InOrder /\ Remembering /\ Vouching
      /\ offered \in Nat /\ earlier \in Nat /\ earlier <= offered
      /\ OtherMessages[offered + 1] \in Nat
  BY <1>0, LinkAssumption DEF LinkInv, Typed
<1>2. /\ SenderSound(sender') /\ sender'.tx = offered + 1 - earlier
      /\ sender'.state # "IDLE" /\ ~Acked(sender')
  <2>1. Fragments \in Nat /\ offered + 1 - earlier \in SenderTx
    BY <1>1, LinkAssumption DEF SenderTx
  <2>2. SenderSound(sender)
    BY <1>1 DEF Typed
  <2>3. sender' = S!Start(sender, "b", "COMMAND", offered + 1 - earlier,
                          Fragments)
    BY DEF StartMessage
  <2> QED BY <2>1, <2>2, <2>3, SenderStarts
<1>3. Typed'
  <2>1. 1 .. offered + 1 \subseteq Deliveries
    BY <1>0, <1>1 DEF Typed
  <2> QED BY <1>0, <1>1, <1>2, <2>1 DEF Typed
<1>4. Sending'
  <2>1. \A d \in Deliveries : d \in Nat
    BY LinkAssumption
  <2> QED BY <1>0, <1>1, <1>2, <2>1 DEF Sending
<1>5. \A i \in DOMAIN frames : Window(i) <= offered /\ Window(i) \in Nat
  BY <1>1, QueueFields DEF Typed, Arriving, ArrivingAt, Window
<1>6. Arriving' /\ InOrder'
  <2>1. ASSUME NEW i \in DOMAIN frames
        PROVE  ArrivingAt(i)'
    <3>1. MessageAt(i)' = MessageAt(i) /\ FromA(i)' = FromA(i)
      BY <1>0 DEF MessageAt, FromA
    <3>2. ArrivingAt(i) /\ Window(i) <= offered /\ Window(i) \in Nat
      BY <1>1, <1>5 DEF Arriving
    <3> QED BY <1>0, <1>1, <3>1, <3>2 DEF ArrivingAt, Window
  <2> QED
    BY <1>0, <1>1, <2>1 DEF Arriving, InOrder, Before, MessageAt, FromA, Window
<1>7. Remembering'
  <2>1. \A d \in Deliveries : d \in Nat /\ OtherMessages[d] \in Nat
    BY LinkAssumption
  <2>2. taken[offered + 1] = 0
    BY <1>0, <1>1, <2>1 DEF Typed, Remembering
  <2>3. ASSUME NEW i \in DOMAIN frames, FromA(i), taken[Window(i)] # 0
        PROVE  Remembered(R!KeyOf(MessageAt(i)), Window(i))'
    <3>1. PICK key, d : key = R!KeyOf(MessageAt(i)) /\ d = Window(i)
      OBVIOUS
    <3>2. d # offered + 1 /\ Remembered(key, d)
      BY <1>1, <1>5, <2>3, <3>1 DEF Remembering
    <3>3. Remembered(key, d)'
      BY <1>0, <3>2 DEF Remembered, MessageAt, FromA, Window
    <3>4. R!KeyOf(MessageAt(i))' = key /\ Window(i)' = d
      BY <1>0, <3>1 DEF MessageAt, FromA, Window, R!KeyOf
    <3> QED BY <3>3, <3>4 DEF Remembered
  <2>4. \A i \in DOMAIN frames : FromA(i)' = FromA(i) /\ Window(i)' = Window(i)
    BY <1>0 DEF MessageAt, FromA, Window
  <2> QED BY <1>0, <1>1, <2>1, <2>2, <2>3, <2>4 DEF Remembering
<1>8. Vouching'
  BY <1>0, <1>1, <1>2 DEF Vouching, Vouched
<1> QED BY <1>3, <1>4, <1>6, <1>7, <1>8 DEF LinkInv

\* A frame of the current message goes on the air and may join the queue.
LEMMA SendInv ==
  ASSUME LinkInv, UNCHANGED <<acks, outcome, lives, runtime, others, takes>>,
         Carries(sender, sender'), sender.state # "IDLE",
         frames' \in {frames, Received(frames, <<"a", EncodedFrame(sender)>>)}
  PROVE  LinkInv'
<1>0. UNCHANGED <<boot, offered, earlier, reboots, taken, everTaken>>
  BY DEF lives, takes
<1>1. /\ Typed /\ Sending /\ Arriving /\ InOrder /\ Remembering /\ Vouching
      /\ offered \in Nat /\ earlier \in Nat /\ earlier < offered /\ boot \in Nat
      /\ sender.tx = offered - earlier /\ offered \in Deliveries
      /\ sender \in SenderRecords
  BY LinkAssumption DEF LinkInv, Typed, Sending, SenderSound
<1>2. CASE frames' = frames
  BY <1>0, <1>2, CarryStep
<1>3. CASE frames' # frames
  <2>1. PICK f : f = EncodedFrame(sender)
    OBVIOUS
  <2>2. /\ f \in Frames /\ f.message.body = offered /\ f.message.source = boot
        /\ f.message.tx = sender.tx /\ R!KeyOf(f.message) = SenderKey
        /\ f.message.body = earlier + f.message.tx
    <3>1. PICK m : m = [kind |-> sender.kind, source |-> boot, tx |-> sender.tx,
                        sequence |-> sender.sequence, count |-> sender.count,
                        ackRequired |-> TRUE, body |-> Carried]
      OBVIOUS
    <3>2. Carried = offered /\ sender.tx \in Nat
      BY <1>1 DEF Carried
    <3>3. /\ m \in Messages /\ m.body = offered /\ m.source = boot
          /\ m.tx = sender.tx /\ m.sequence = sender.sequence
      BY <1>1, <3>1, <3>2 DEF Messages, SenderRecords
    <3>4. f = [message |-> m, index |-> sender.index, intact |-> TRUE,
               valid |-> TRUE]
      BY <2>1, <3>1 DEF EncodedFrame
    <3>5. f \in Frames /\ f.message = m
      BY <1>1, <3>3, <3>4 DEF Frames, SenderRecords
    <3> QED BY <1>1, <3>3, <3>5 DEF R!KeyOf, SenderKey
  <2>3. PICK n : n = Len(frames) + 1
    OBVIOUS
  <2>4. /\ frames' \in Seq(Nodes \X Frames) /\ DOMAIN frames' = 1 .. n
        /\ DOMAIN frames = 1 .. n - 1 /\ n \in Nat /\ n >= 1
        /\ \A i \in 1 .. n - 1 : frames'[i] = frames[i]
        /\ frames'[n] = <<"a", f>>
    <3>1. <<"a", f>> \in Nodes \X Frames
      BY <2>2 DEF Nodes
    <3>2. PICK item, r : item = <<"a", f>> /\ r = frames'
      OBVIOUS
    <3>3. frames \in Seq(Nodes \X Frames)
      BY <1>1 DEF Typed
    <3>4. r \in {frames, Received(frames, item)}
      BY <2>1, <3>2
    <3>5. /\ r \in Seq(Nodes \X Frames) /\ DOMAIN r = 1 .. Len(frames) + 1
          /\ DOMAIN frames = 1 .. Len(frames) /\ Len(frames) \in Nat
          /\ \A i \in 1 .. Len(frames) : r[i] = frames[i]
          /\ r[Len(frames) + 1] = item
      BY <1>3, <3>1, <3>2, <3>3, <3>4, EnqueueShape
    <3> QED BY <2>3, <3>2, <3>5
  <2>5. /\ \A i \in 1 .. n - 1 : /\ MessageAt(i)' = MessageAt(i)
                                 /\ FromA(i)' = FromA(i)
                                 /\ Window(i)' = Window(i)
        /\ MessageAt(n)' = f.message /\ FromA(n)' /\ Window(n)' = offered
    BY <2>2, <2>4 DEF MessageAt, FromA, Window
  <2>6. \A i \in DOMAIN frames : Window(i) \in Nat /\ Window(i) <= offered
    BY <1>1, QueueFields DEF Typed, Arriving, ArrivingAt, Window
  <2>7. /\ SenderKey' = SenderKey
        /\ sender'.state = "IDLE" <=> sender.state = "IDLE"
    BY <1>0 DEF SenderKey, Carries
  <2>8. Typed'
    BY <1>0, <1>1, <2>4 DEF Typed, Carries
  <2>9. Sending'
    BY <1>0, <1>1, <2>7 DEF Sending, Carries
  <2>10. Arriving'
    <3>1. ASSUME NEW i \in 1 .. n - 1
          PROVE  ArrivingAt(i)'
      BY <1>0, <1>1, <2>4, <2>5, <2>7 DEF Arriving, ArrivingAt
    <3>2. ArrivingAt(n)'
      BY <1>0, <1>1, <2>2, <2>5, <2>7 DEF ArrivingAt
    <3> QED BY <2>4, <3>1, <3>2 DEF Arriving
  <2>11. InOrder'
    <3> SUFFICES ASSUME NEW i \in 1 .. n, NEW j \in 1 .. n, i < j
                 PROVE  Before(i, j)'
      BY <2>4 DEF InOrder
    <3>1. CASE j < n
      <4>0. /\ i \in 1 .. n - 1 /\ j \in 1 .. n - 1
            /\ i \in DOMAIN frames /\ j \in DOMAIN frames
        BY <2>4, <3>1
      <4>1. Before(i, j) /\ i \in 1 .. n - 1 /\ j \in 1 .. n - 1
        BY <1>1, <4>0 DEF InOrder
      <4>2. /\ MessageAt(i)' = MessageAt(i) /\ MessageAt(j)' = MessageAt(j)
            /\ FromA(i)' = FromA(i) /\ FromA(j)' = FromA(j)
            /\ Window(i)' = Window(i) /\ Window(j)' = Window(j)
        BY <2>5, <4>0
      <4> QED BY <4>1, <4>2 DEF Before
    <3>2. CASE j = n
      <4>0. i \in 1 .. n - 1 /\ i \in DOMAIN frames
        BY <2>4, <3>2
      <4>1. i \in 1 .. n - 1 /\ ArrivingAt(i)
        BY <1>1, <4>0 DEF Arriving
      <4>2. FromA(i) /\ Window(i) = offered => R!KeyOf(MessageAt(i)) = SenderKey
        BY <4>1 DEF ArrivingAt, Window
      <4>3. Window(i) \in Nat /\ Window(i) <= offered
        BY <2>4, <2>6, <4>1
      <4> QED BY <2>2, <2>5, <3>2, <4>1, <4>2, <4>3 DEF Before
    <3> QED BY <2>4, <3>1, <3>2
  <2>12. Remembering'
    <3>1. ASSUME NEW key, NEW d, Remembered(key, d)
          PROVE  Remembered(key, d)'
      BY <1>0, <2>4, <2>5, <3>1, SMTT(30) DEF Remembered
    <3>2. ASSUME NEW i \in 1 .. n, FromA(i)', taken[Window(i)'] # 0
          PROVE  Remembered(R!KeyOf(MessageAt(i)), Window(i))'
      <4>1. PICK key, d : key = R!KeyOf(MessageAt(i)') /\ d = Window(i)'
        OBVIOUS
      <4>2. Remembered(key, d)
        <5>1. CASE i < n
          <6>1. i \in DOMAIN frames /\ key = R!KeyOf(MessageAt(i))
                /\ d = Window(i) /\ FromA(i)
            BY <2>4, <2>5, <3>2, <4>1, <5>1
          <6> QED BY <1>1, <3>2, <4>1, <6>1 DEF Remembering
        <5>2. CASE i = n
          BY <1>1, <2>2, <2>5, <3>2, <4>1, <5>2 DEF Remembering
        <5> QED BY <2>4, <5>1, <5>2
      <4>3. Remembered(key, d)'
        BY <3>1, <4>2
      <4> QED BY <4>1, <4>3
    <3>3. taken[offered] # 0 => Remembered(SenderKey, offered)'
      <4>1. PICK key, d : key = SenderKey /\ d = offered
        OBVIOUS
      <4>2. taken[offered] # 0 => Remembered(key, d)'
        BY <1>1, <3>1, <4>1 DEF Remembering
      <4> QED BY <1>0, <2>7, <4>1, <4>2
    <3>4. \A d \in Deliveries : taken[d] # 0 =>
            d <= offered /\ \A i \in 1 .. n : d <= Window(i)'
      BY <1>1, <2>4, <2>5, SMTT(30) DEF Remembering
    <3> QED BY <1>0, <1>1, <2>4, <3>2, <3>3, <3>4 DEF Remembering
  <2>13. Vouching'
    BY <1>0, <1>1 DEF Vouching, Vouched, Carries
  <2> QED BY <2>8, <2>9, <2>10, <2>11, <2>12, <2>13 DEF LinkInv
<1> QED BY <1>2, <1>3

-----------------------------------------------------------------------------
(* Node B                                                                  *)

\* The head of the queue is taken off.
LEMMA ShiftFacts ==
  ASSUME LinkInv, frames # <<>>, frames' = Tail(frames)
  PROVE  /\ frames' \in Seq(Nodes \X Frames) /\ 1 \in DOMAIN frames
         /\ Head(frames) = frames[1]
         /\ \A i \in DOMAIN frames' :
              /\ i + 1 \in DOMAIN frames /\ i \in Nat /\ 1 < i + 1
              /\ MessageAt(i)' = MessageAt(i + 1)
              /\ FromA(i)' = FromA(i + 1) /\ Window(i)' = Window(i + 1)
<1>1. PICK q, r : q = frames /\ r = Tail(frames)
  OBVIOUS
<1>2. q \in Seq(Nodes \X Frames) /\ q # <<>> /\ r = Tail(q)
  BY <1>1 DEF LinkInv, Typed
<1>3. /\ r \in Seq(Nodes \X Frames) /\ Head(q) = q[1] /\ 1 \in DOMAIN q
      /\ \A i \in DOMAIN r : i + 1 \in DOMAIN q /\ r[i] = q[i + 1] /\ i >= 1
  BY <1>2, DequeueShape
<1>4. \A i \in DOMAIN r : i \in Nat
  BY <1>3
<1> QED BY <1>1, <1>3, <1>4 DEF MessageAt, FromA, Window

\* Arriving and InOrder hold of the rest of the queue, whatever the runtime does.
LEMMA ShiftOrder ==
  ASSUME LinkInv, frames # <<>>, frames' = Tail(frames),
         UNCHANGED <<sender, boot, offered, earlier, others>>
  PROVE  Arriving' /\ InOrder'
<1>1. Arriving /\ InOrder /\ SenderKey' = SenderKey
  BY DEF LinkInv, SenderKey
<1>2. ASSUME NEW i \in DOMAIN frames'
      PROVE  ArrivingAt(i)'
  <2>1. /\ ArrivingAt(i + 1) /\ MessageAt(i)' = MessageAt(i + 1)
        /\ FromA(i)' = FromA(i + 1)
    BY <1>1, ShiftFacts DEF Arriving
  <2> QED BY <1>1, <2>1 DEF ArrivingAt
<1>3. ASSUME NEW i \in DOMAIN frames', NEW j \in DOMAIN frames', i < j
      PROVE  Before(i, j)'
  <2>1. /\ i + 1 \in DOMAIN frames /\ j + 1 \in DOMAIN frames
        /\ i \in Nat /\ j \in Nat
        /\ MessageAt(i)' = MessageAt(i + 1) /\ MessageAt(j)' = MessageAt(j + 1)
        /\ FromA(i)' = FromA(i + 1) /\ FromA(j)' = FromA(j + 1)
        /\ Window(i)' = Window(i + 1) /\ Window(j)' = Window(j + 1)
    BY ShiftFacts
  <2>2. i + 1 < j + 1
    BY <1>3, <2>1
  <2>3. Before(i + 1, j + 1)
    BY <1>1, <2>1, <2>2 DEF InOrder
  <2> QED BY <2>1, <2>3 DEF Before
<1> QED BY <1>2, <1>3 DEF Arriving, InOrder

\* The frame at the head is not older than any message taken so far, and not
\* newer than any frame behind it or the message A works on.
LEMMA HeadWindow ==
  ASSUME LinkInv, frames # <<>>, frames' = Tail(frames)
  PROVE  /\ Window(1) \in Nat /\ Window(1) <= offered
         /\ \A d \in Deliveries : taken[d] # 0 => d <= Window(1)
         /\ \A i \in DOMAIN frames' :
              Window(1) <= Window(i)' /\ Window(i)' \in Nat
<1>0. /\ frames \in Seq(Nodes \X Frames) /\ Arriving /\ InOrder /\ Remembering
      /\ offered \in Nat
  BY LinkAssumption DEF LinkInv, Typed
<1>1. 1 \in DOMAIN frames
  BY ShiftFacts
<1>2. Window(1) \in Nat /\ Window(1) <= offered
  BY <1>0, <1>1, QueueFields DEF Arriving, ArrivingAt, Window
<1>3. \A d \in Deliveries : taken[d] # 0 => d <= Window(1)
  BY <1>0, <1>1 DEF Remembering
<1>4. ASSUME NEW i \in DOMAIN frames'
      PROVE  Window(1) <= Window(i)' /\ Window(i)' \in Nat
  <2>1. i + 1 \in DOMAIN frames /\ 1 < i + 1 /\ Window(i)' = Window(i + 1)
    BY ShiftFacts
  <2>2. Before(1, i + 1) /\ Window(i + 1) \in Nat
    BY <1>0, <1>1, <2>1, QueueFields DEF InOrder
  <2> QED BY <2>1, <2>2 DEF Before
<1> QED BY <1>2, <1>3, <1>4

\* A frame of which nothing new comes.
LEMMA SkipInv ==
  ASSUME LinkInv, frames # <<>>, frames' = Tail(frames),
         UNCHANGED <<sender, acks, outcome, lives, others, takes>>,
         runtime' \in RuntimeRecords,
         Skips(runtime, runtime', R!KeyOf(MessageAt(1)))
  PROVE  LinkInv'
<1>0. UNCHANGED <<boot, offered, earlier, reboots, taken, everTaken>>
  BY DEF lives, takes
<1>1. /\ Typed /\ Sending /\ Remembering /\ Vouching
      /\ runtime.duplicates \in Seq(Keys) /\ others \in Nat
      /\ runtime'.duplicates = runtime.duplicates
  BY DEF LinkInv, Typed, RuntimeRecords, Skips
<1>2. Typed' /\ Sending'
  BY <1>0, <1>1, ShiftFacts DEF Typed, Sending
<1>3. Arriving' /\ InOrder'
  BY <1>0, ShiftOrder
<1>4. Remembering'
  <2>1. \A d \in {0} \cup Deliveries : OtherMessages[d] \in Nat
    BY LinkAssumption
  <2>2. ASSUME NEW key, NEW d \in Deliveries, Remembered(key, d)
        PROVE  Remembered(key, d)'
    <3>1. \A j \in DOMAIN frames' : ~FromA(j)' /\ Window(j)' = d =>
            \E i \in DOMAIN frames :
              ~FromA(i) /\ Window(i) = d /\ MessageAt(i).tx = MessageAt(j)'.tx
      <4>1. ASSUME NEW j \in DOMAIN frames', ~FromA(j)', Window(j)' = d
            PROVE  /\ j + 1 \in DOMAIN frames /\ ~FromA(j + 1)
                   /\ Window(j + 1) = d /\ MessageAt(j + 1).tx = MessageAt(j)'.tx
        BY <4>1, ShiftFacts
      <4> QED BY <4>1
    <3>2. d = offered' => d = offered /\ others' <= others
      BY <1>0, <1>1
    <3>3. others' \in Nat /\ OtherMessages[d] \in Nat
      BY <1>1, <2>1
    <3> QED BY <1>1, <2>2, <3>1, <3>2, <3>3, RememberedOn
  <2>3. ASSUME NEW i \in DOMAIN frames', FromA(i)', taken[Window(i)'] # 0
        PROVE  Remembered(R!KeyOf(MessageAt(i)), Window(i))'
    <3>1. PICK key, d : key = R!KeyOf(MessageAt(i)') /\ d = Window(i)'
      OBVIOUS
    <3>2. /\ i + 1 \in DOMAIN frames /\ FromA(i + 1) /\ d = Window(i + 1)
          /\ key = R!KeyOf(MessageAt(i + 1))
      BY <2>3, <3>1, ShiftFacts
    <3>3. Remembered(key, d)
      BY <1>1, <2>3, <3>1, <3>2 DEF Remembering
    <3>4. d \in Deliveries
      BY <3>2, <1>1 DEF LinkInv, Typed, Arriving, ArrivingAt, Window
    <3>5. Remembered(key, d)'
      BY <2>2, <3>3, <3>4
    <3> QED BY <3>1, <3>5
  <2>4. sender.state # "IDLE" /\ taken[offered] # 0 =>
          Remembered(SenderKey, offered)'
    <3>1. PICK key, d : key = SenderKey /\ d = offered
      OBVIOUS
    <3>2. sender.state # "IDLE" => d \in Deliveries
      BY <1>1, <3>1 DEF Typed, Sending
    <3>3. sender.state # "IDLE" /\ taken[offered] # 0 => Remembered(key, d)'
      BY <1>1, <2>2, <3>1, <3>2 DEF Remembering
    <3>4. SenderKey' = key /\ offered' = d
      BY <1>0, <3>1 DEF SenderKey
    <3> QED BY <3>3, <3>4
  <2>5. \A d \in Deliveries : taken[d] # 0 =>
          d <= offered /\ \A i \in DOMAIN frames' : d <= Window(i)'
    BY <1>1, ShiftFacts DEF Remembering
  <2> QED BY <1>0, <2>3, <2>4, <2>5 DEF Remembering
<1>5. Vouching'
  <2>1. runtime'.applicationAck # NoAck => Vouched(runtime'.applicationAck.key)
    BY <1>1 DEF Skips, R!Contains, Vouching
  <2> QED BY <1>0, <1>1, <2>1 DEF Vouching, Vouched
<1> QED BY <1>2, <1>3, <1>4, <1>5 DEF LinkInv

\* The cache with one more key: the others, if not forgotten, move with it.
LEMMA CacheGrows ==
  ASSUME LinkInv, runtime' \in RuntimeRecords, NEW key, key \in Keys,
         Holds(runtime, runtime', key)
  PROVE  /\ runtime.duplicates \in Seq(Keys) /\ runtime'.duplicates \in Seq(Keys)
         /\ \/ /\ Len(runtime'.duplicates) = Len(runtime.duplicates) + 1
               /\ \A k \in 1 .. Len(runtime.duplicates) :
                    runtime'.duplicates[k] = runtime.duplicates[k]
            \/ /\ Len(runtime'.duplicates) = Len(runtime.duplicates)
               /\ Len(runtime.duplicates) >= CacheCapacity
               /\ \A k \in 2 .. Len(runtime.duplicates) :
                    runtime'.duplicates[k - 1] = runtime.duplicates[k]
         /\ runtime'.duplicates[Len(runtime'.duplicates)] = key
         /\ Len(runtime'.duplicates) >= 1
         /\ \A k \in DOMAIN runtime'.duplicates :
              \/ runtime'.duplicates[k] = key
              \/ \E i \in DOMAIN runtime.duplicates :
                   runtime'.duplicates[k] = runtime.duplicates[i]
<1>1. PICK s, t : s = runtime.duplicates /\ t = runtime'.duplicates
  OBVIOUS
<1>2. s \in Seq(Keys) /\ t \in Seq(Keys) /\ t = R!Observe(s, key)
  BY <1>1 DEF LinkInv, Typed, RuntimeRecords, Holds
<1>3. /\ \/ Len(t) = Len(s) + 1 /\ \A k \in 1 .. Len(s) : t[k] = s[k]
         \/ /\ Len(t) = Len(s) /\ Len(s) >= CacheCapacity
            /\ \A k \in 2 .. Len(s) : t[k - 1] = s[k]
      /\ t[Len(t)] = key /\ Len(t) >= 1
  BY <1>2, ObserveShape
<1>4. /\ DOMAIN s = 1 .. Len(s) /\ DOMAIN t = 1 .. Len(t)
      /\ Len(s) \in Nat /\ Len(t) \in Nat
  BY <1>2, <1>3
<1>5. ASSUME NEW k \in DOMAIN t
      PROVE  t[k] = key \/ \E i \in DOMAIN s : t[k] = s[i]
  <2>0. k \in Nat /\ k >= 1 /\ k <= Len(t)
    BY <1>4
  <2>1. CASE k = Len(t)
    BY <1>3, <2>1
  <2>2. CASE k # Len(t) /\ Len(t) = Len(s) + 1
             /\ \A j \in 1 .. Len(s) : t[j] = s[j]
    <3>0. k # Len(t) /\ Len(t) = Len(s) + 1
      BY <2>2
    <3>1. k \in 1 .. Len(s)
      BY <1>4, <2>0, <3>0
    <3> QED BY <1>4, <2>2, <3>1
  <2>3. CASE k # Len(t) /\ Len(t) = Len(s)
             /\ \A j \in 2 .. Len(s) : t[j - 1] = s[j]
    <3>0. k # Len(t) /\ Len(t) = Len(s)
      BY <2>3
    <3>1. k + 1 \in 2 .. Len(s) /\ (k + 1) - 1 = k /\ k + 1 \in DOMAIN s
      BY <1>4, <2>0, <3>0
    <3>2. t[(k + 1) - 1] = s[k + 1]
      BY <2>3, <3>1
    <3> QED BY <3>1, <3>2
  <2> QED BY <1>3, <2>1, <2>2, <2>3
<1> QED BY <1>1, <1>2, <1>3, <1>5

\* What the runtime saw, and what it answers, stays vouched for.
LEMMA HoldVouching ==
  ASSUME LinkInv, UNCHANGED <<sender, acks, boot, offered, earlier>>,
         everTaken \subseteq everTaken', runtime' \in RuntimeRecords,
         NEW key, key \in Keys, Holds(runtime, runtime', key), Vouched(key)'
  PROVE  Vouching'
<1>1. Vouching
  BY DEF LinkInv
<1>2. \A x : Vouched(x) => Vouched(x)'
  BY DEF Vouched
<1>3. \A i \in DOMAIN runtime'.duplicates : Vouched(runtime.duplicates[i])'
  <2>1. ASSUME NEW i \in DOMAIN runtime'.duplicates
        PROVE  Vouched(runtime.duplicates[i])'
    <3>1. PICK x : x = runtime'.duplicates[i]
      OBVIOUS
    <3>2. \/ x = key
          \/ \E j \in DOMAIN runtime.duplicates : x = runtime.duplicates[j]
      BY <3>1, CacheGrows
    <3>3. Vouched(x) \/ x = key
      BY <1>1, <3>2 DEF Vouching
    <3>4. Vouched(x)'
      BY <1>2, <3>3
    <3> QED BY <3>1, <3>4 DEF Vouched
  <2> QED BY <2>1
<1>4. Vouched(runtime.applicationAck.key)'
  BY DEF Holds, Vouched
<1>5. \A i \in DOMAIN acks : Vouched(acks[i].key)'
  BY <1>1 DEF Vouching, Vouched
<1>6. Acked(sender') => offered' \in everTaken'
  BY <1>1 DEF Vouching
<1> QED BY <1>3, <1>4, <1>5, <1>6 DEF Vouching, Vouched

\* The first copy of a message of A since B booted.
LEMMA TakeInv ==
  ASSUME LinkInv, frames # <<>>, frames' = Tail(frames), FromA(1),
         UNCHANGED <<sender, acks, outcome, lives, others>>,
         runtime' \in RuntimeRecords,
         Holds(runtime, runtime', R!KeyOf(MessageAt(1))),
         taken' = [taken EXCEPT ![MessageAt(1).body] = @ + 1],
         everTaken' = everTaken \cup {MessageAt(1).body}
  PROVE  /\ LinkInv' /\ taken[MessageAt(1).body] = 0
         /\ MessageAt(1).body \in 1 .. offered
<1>0. UNCHANGED <<boot, offered, earlier, reboots>>
  BY DEF lives
<1>1. PICK d, key : d = Window(1) /\ key = R!KeyOf(MessageAt(1))
  OBVIOUS
<1>2. /\ Typed /\ Sending /\ Arriving /\ InOrder /\ Remembering /\ Vouching
      /\ frames \in Seq(Nodes \X Frames) /\ 1 \in DOMAIN frames
      /\ ArrivingAt(1) /\ MessageAt(1).body = d /\ taken \in [Deliveries -> Nat]
      /\ offered \in Nat
  BY <1>1, ShiftFacts, LinkAssumption DEF LinkInv, Typed, Arriving, Window
<1>3. /\ d \in 1 .. offered /\ d \in Deliveries /\ d \in Nat
  BY <1>2 DEF ArrivingAt, Typed
<1>4. taken[d] = 0
  <2>1. ASSUME taken[d] # 0
        PROVE  FALSE
    <3>1. Remembered(key, d)
      BY <1>1, <1>2, <2>1 DEF Remembering
    <3> QED BY <1>1, <3>1 DEF Remembered, Holds, R!Contains
  <2> QED BY <2>1
<1>5. /\ taken' = [taken EXCEPT ![d] = 1] /\ everTaken' = everTaken \cup {d}
      /\ taken' \in [Deliveries -> Nat]
      /\ \A e \in Deliveries : taken'[e] # 0 => e = d \/ taken[e] # 0
  <2>1. taken' = [taken EXCEPT ![d] = taken[d] + 1]
    BY <1>2
  <2>2. taken[d] + 1 = 1
    BY <1>4
  <2>3. taken' = [taken EXCEPT ![d] = 1]
    BY <2>1, <2>2
  <2>4. everTaken' = everTaken \cup {d}
    BY <1>2
  <2>5. taken' \in [Deliveries -> Nat]
    BY <1>2, <1>3, <2>3
  <2>6. ASSUME NEW e \in Deliveries, taken'[e] # 0, e # d
        PROVE  taken[e] # 0
    BY <1>2, <2>3, <2>6
  <2> QED BY <2>3, <2>4, <2>5, <2>6
<1>6. Typed' /\ Sending'
  BY <1>0, <1>2, <1>5, ShiftFacts DEF Typed, Sending
<1>7. Arriving' /\ InOrder'
  BY <1>0, ShiftOrder
<1>8. key \in Keys
  BY <1>1, <1>2, QueueFields
<1>9. Remembered(key, d)'
  <2>1. PICK n : n = Len(runtime'.duplicates)
    OBVIOUS
  <2>2. /\ n \in DOMAIN runtime'.duplicates /\ runtime'.duplicates[n] = key
        /\ n \in Nat
    BY <1>1, <1>8, <2>1, CacheGrows
  <2>3. d = offered' => n - n + others' <= OtherMessages[d]
    BY <1>0, <1>2, <2>2, LinkAssumption DEF Typed
  <2>4. ASSUME NEW j \in DOMAIN frames', ~FromA(j)', Window(j)' = d
        PROVE  n - n + MessageAt(j)'.tx <= OtherMessages[d]
    <3>1. /\ j + 1 \in DOMAIN frames /\ ~FromA(j + 1) /\ Window(j + 1) = d
          /\ MessageAt(j)' = MessageAt(j + 1)
      BY <2>4, ShiftFacts
    <3>2. MessageAt(j + 1).tx \in 1 .. OtherMessages[d]
      BY <1>2, <3>1 DEF Arriving, ArrivingAt, Window
    <3> QED BY <2>2, <3>1, <3>2
  <2> QED BY <2>1, <2>2, <2>3, <2>4 DEF Remembered
<1>10. Remembering'
  <2>1. ASSUME NEW e \in Deliveries, taken'[e] # 0
        PROVE  e <= offered' /\ \A i \in DOMAIN frames' : e <= Window(i)'
    <3>1. e <= d /\ e \in Nat
      BY <1>1, <1>3, <1>5, <2>1, HeadWindow, LinkAssumption
    <3> QED BY <1>0, <1>1, <1>2, <1>3, <3>1, HeadWindow
  <2>2. ASSUME NEW i \in DOMAIN frames', FromA(i)', taken'[Window(i)'] # 0
        PROVE  Remembered(R!KeyOf(MessageAt(i)), Window(i))'
    <3>1. /\ i + 1 \in DOMAIN frames /\ FromA(i + 1) /\ 1 < i + 1
          /\ Window(i)' = Window(i + 1) /\ MessageAt(i)' = MessageAt(i + 1)
      BY <2>2, ShiftFacts
    <3>2. Window(i + 1) \in Deliveries
      BY <1>2, <3>1 DEF Typed, Arriving, ArrivingAt, Window
    <3>3. Window(i + 1) <= d /\ d <= Window(i + 1) /\ Window(i + 1) \in Nat
      BY <1>1, <1>3, <1>5, <2>2, <3>1, <3>2, HeadWindow
    <3>4. Window(i + 1) = d
      BY <1>3, <3>3
    <3>5. R!KeyOf(MessageAt(i + 1)) = key
      BY <1>1, <1>2, <3>1, <3>4 DEF InOrder, Before
    <3> QED BY <1>9, <3>1, <3>4, <3>5
  <2>3. sender'.state # "IDLE" /\ taken'[offered'] # 0 =>
          Remembered(SenderKey, offered)'
    <3> SUFFICES ASSUME sender.state # "IDLE", taken'[offered] # 0
                 PROVE  Remembered(SenderKey, offered)'
      BY <1>0
    <3>1. offered \in Deliveries
      BY <1>2, <1>3 DEF Typed
    <3>2. offered <= d
      BY <1>1, <1>3, <1>5, <3>1, HeadWindow
    <3>3. d = offered
      BY <1>2, <1>3, <3>2
    <3>4. SenderKey' = key /\ offered' = d
      BY <1>0, <1>1, <1>2, <3>3 DEF ArrivingAt, SenderKey
    <3> QED BY <1>9, <3>4
  <2> QED BY <2>1, <2>2, <2>3 DEF Remembering
<1>11. Vouching'
  <2>1. Vouched(key)'
    <3>1. /\ key.source = MessageAt(1).source /\ key.tx = MessageAt(1).tx
          /\ boot' = boot /\ earlier' = earlier
      BY <1>0, <1>1 DEF R!KeyOf
    <3> QED BY <1>2, <1>5, <3>1 DEF Vouched, ArrivingAt
  <2> QED BY <1>0, <1>1, <1>5, <1>8, <2>1, HoldVouching
<1> QED BY <1>2, <1>3, <1>4, <1>6, <1>7, <1>10, <1>11 DEF LinkInv

\* A message of a third node pushes what the cache holds of this window one
\* entry towards its end, and uses up one of the window's messages.
LEMMA RememberedDeeper ==
  ASSUME LinkInv, QuietNeighbours, frames # <<>>, frames' = Tail(frames),
         ~FromA(1), UNCHANGED <<sender, boot, offered, earlier, others>>,
         runtime' \in RuntimeRecords,
         Holds(runtime, runtime', R!KeyOf(MessageAt(1))),
         NEW key, NEW w, w = Window(1), w \in Deliveries, Remembered(key, w)
  PROVE  Remembered(key, w)'
<1>1. PICK q, p, n : /\ q = runtime.duplicates /\ p = runtime'.duplicates
                     /\ n = Len(runtime.duplicates)
  OBVIOUS
<1>2. PICK k \in DOMAIN q :
        /\ q[k] = key
        /\ w = offered => n - k + others <= OtherMessages[w]
        /\ \A j \in DOMAIN frames : ~FromA(j) /\ Window(j) = w =>
             n - k + MessageAt(j).tx <= OtherMessages[w]
  BY <1>1 DEF Remembered
<1>3. /\ Typed /\ Arriving /\ InOrder /\ frames \in Seq(Nodes \X Frames)
      /\ 1 \in DOMAIN frames /\ others \in Nat
  BY ShiftFacts DEF LinkInv, Typed
<1>4. PICK x : x = MessageAt(1).tx
  OBVIOUS
<1>5. /\ x \in 1 .. OtherMessages[w] /\ (w = offered => others < x)
      /\ OtherMessages[w] \in Nat /\ OtherMessages[w] < CacheCapacity
      /\ CacheCapacity \in Nat
  BY <1>3, <1>4, LinkAssumption DEF QuietNeighbours, Arriving, ArrivingAt, Window
<1>6. n - k + x <= OtherMessages[w]
  BY <1>2, <1>3, <1>4
<1>7. R!KeyOf(MessageAt(1)) \in Keys
  BY <1>3, QueueFields
<1>8. /\ q \in Seq(Keys) /\ p \in Seq(Keys)
      /\ \/ Len(p) = n + 1 /\ \A i \in 1 .. n : p[i] = q[i]
         \/ /\ Len(p) = n /\ n >= CacheCapacity
            /\ \A i \in 2 .. n : p[i - 1] = q[i]
  BY <1>1, <1>7, CacheGrows
<1>9. n \in Nat /\ k \in 1 .. n /\ DOMAIN p = 1 .. Len(p) /\ x \in Nat /\ x >= 1
  <2>1. n = Len(q) /\ k \in DOMAIN q
    BY <1>1
  <2>2. n \in Nat /\ k \in 1 .. n /\ DOMAIN p = 1 .. Len(p)
    BY <1>8, <2>1
  <2> QED BY <1>5, <2>2
<1>10. PICK l : l = IF Len(p) = n + 1 THEN k ELSE k - 1
  OBVIOUS
<1>11. l \in DOMAIN p /\ p[l] = key /\ Len(p) - l = n - k + 1 /\ l \in Nat
  <2>1. CASE Len(p) = n + 1 /\ \A i \in 1 .. n : p[i] = q[i]
    BY <1>2, <1>9, <1>10, <2>1
  <2>2. CASE Len(p) = n /\ n >= CacheCapacity /\ \A i \in 2 .. n : p[i - 1] = q[i]
    <3>1. k # 1
      BY <1>5, <1>6, <1>9, <2>2
    <3>2. k \in 2 .. n /\ l = k - 1 /\ l \in 1 .. n
      BY <1>9, <1>10, <2>2, <3>1
    <3> QED BY <1>2, <1>9, <2>2, <3>2
  <2> QED BY <1>8, <2>1, <2>2
<1>12. w = offered' => Len(p) - l + others' <= OtherMessages[w]
  <2> SUFFICES ASSUME w = offered
               PROVE  Len(p) - l + others <= OtherMessages[w]
    OBVIOUS
  <2>1. others < x
    BY <1>5
  <2>2. OtherMessages[w] \in Nat
    BY <1>5
  <2>3. n - k + 1 + others <= OtherMessages[w]
    BY <1>3, <1>6, <1>9, <2>1, <2>2
  <2> QED BY <1>11, <2>3
<1>13. ASSUME NEW j \in DOMAIN frames', ~FromA(j)', Window(j)' = w
       PROVE  Len(p) - l + MessageAt(j)'.tx <= OtherMessages[w]
  <2>1. /\ j + 1 \in DOMAIN frames /\ 1 < j + 1 /\ ~FromA(j + 1)
        /\ Window(j + 1) = w /\ MessageAt(j)' = MessageAt(j + 1)
    BY <1>13, ShiftFacts
  <2>2. MessageAt(j + 1).tx < x /\ MessageAt(j + 1).tx \in Nat
    BY <1>3, <1>4, <2>1, QueueFields DEF InOrder, Before
  <2> QED BY <1>5, <1>6, <1>9, <1>11, <2>1, <2>2, SMTT(30)
<1> QED BY <1>1, <1>11, <1>12, <1>13 DEF Remembered

\* A message of a third node enters the cache.
LEMMA HoldOtherInv ==
  ASSUME LinkInv, QuietNeighbours, frames # <<>>, frames' = Tail(frames),
         ~FromA(1), UNCHANGED <<sender, acks, outcome, lives, others, takes>>,
         runtime' \in RuntimeRecords,
         Holds(runtime, runtime', R!KeyOf(MessageAt(1)))
  PROVE  LinkInv'
<1>0. UNCHANGED <<boot, offered, earlier, reboots, taken, everTaken>>
  BY DEF lives, takes
<1>1. PICK w, new : w = Window(1) /\ new = R!KeyOf(MessageAt(1))
  OBVIOUS
<1>2. /\ Typed /\ Sending /\ Arriving /\ InOrder /\ Remembering /\ Vouching
      /\ frames \in Seq(Nodes \X Frames) /\ 1 \in DOMAIN frames
      /\ ArrivingAt(1) /\ boot \in Nat /\ reboots \in Nat
      /\ boot + reboots <= MaxReboots + 1 /\ MaxReboots \in Nat
      /\ taken \in [Deliveries -> Nat] /\ offered \in Nat
      /\ \A d \in Deliveries : d \in Nat
  BY ShiftFacts, LinkAssumption DEF LinkInv, Typed, Arriving
<1>3. new \in Keys
  BY <1>1, <1>2, QueueFields
<1>4. Typed' /\ Sending'
  BY <1>0, <1>2, ShiftFacts DEF Typed, Sending
<1>5. Arriving' /\ InOrder'
  BY <1>0, ShiftOrder
<1>6. ASSUME NEW key, w \in Deliveries, Remembered(key, w)
      PROVE  Remembered(key, w)'
  BY <1>0, <1>1, <1>6, RememberedDeeper
<1>7. Remembering'
  <2>1. ASSUME NEW d \in Deliveries, taken[d] # 0
        PROVE  d <= offered /\ \A i \in DOMAIN frames' : d <= Window(i)'
    BY <1>2, <2>1, ShiftFacts DEF Remembering
  <2>2. ASSUME NEW i \in DOMAIN frames', FromA(i)', taken[Window(i)'] # 0
        PROVE  Remembered(R!KeyOf(MessageAt(i)), Window(i))'
    <3>1. PICK key : key = R!KeyOf(MessageAt(i)')
      OBVIOUS
    <3>2. /\ i + 1 \in DOMAIN frames /\ FromA(i + 1) /\ 1 < i + 1
          /\ Window(i)' = Window(i + 1) /\ MessageAt(i)' = MessageAt(i + 1)
      BY <2>2, ShiftFacts
    <3>3. Window(i + 1) \in Deliveries
      BY <1>2, <3>2 DEF Typed, Arriving, ArrivingAt, Window
    <3>4. Window(i + 1) <= w /\ w <= Window(i + 1) /\ w \in Nat
      BY <1>1, <2>2, <3>2, <3>3, HeadWindow
    <3>5. Window(i + 1) = w
      BY <1>2, <3>3, <3>4
    <3>6. Remembered(key, w)
      BY <1>2, <2>2, <3>1, <3>2, <3>5 DEF Remembering
    <3>7. Remembered(key, w)' /\ Window(i)' = w
      BY <1>6, <3>2, <3>3, <3>5, <3>6
    <3> QED BY <3>1, <3>7
  <2>3. ASSUME sender.state # "IDLE", taken[offered] # 0
        PROVE  Remembered(SenderKey, offered)'
    <3>1. PICK key : key = SenderKey
      OBVIOUS
    <3>2. offered \in Deliveries
      BY <1>2, <2>3, LinkAssumption DEF Typed, Sending
    <3>3. offered <= w /\ w <= offered /\ w \in Nat
      BY <1>1, <2>3, <3>2, HeadWindow
    <3>4. offered = w /\ offered' = w /\ SenderKey' = key
      BY <1>0, <1>2, <3>1, <3>3 DEF SenderKey
    <3>5. Remembered(key, w)
      BY <1>2, <2>3, <3>1, <3>4 DEF Remembering
    <3>6. Remembered(key, w)'
      BY <1>6, <3>2, <3>4, <3>5
    <3> QED BY <3>4, <3>6
  <2> QED BY <1>0, <2>1, <2>2, <2>3 DEF Remembering
<1>8. Vouching'
  <2>1. Vouched(new)'
    <3>1. new.source = MaxReboots + 2
      BY <1>1, <1>2 DEF ArrivingAt, R!KeyOf
    <3>2. boot' # MaxReboots + 2
      BY <1>0, <1>2
    <3> QED BY <3>1, <3>2 DEF Vouched
  <2> QED BY <1>0, <1>1, <1>3, <2>1, HoldVouching
<1> QED BY <1>4, <1>5, <1>7, <1>8 DEF LinkInv

\* A frame leaves the queue of B, and a message is taken for the first time
\* since B booted, or none is.
LEMMA ReceiveInv ==
  ASSUME LinkInv, QuietNeighbours, ReceiveAtB
  PROVE  /\ LinkInv' /\ UNCHANGED <<offered, outcome>>
         /\ \/ UNCHANGED takes
            \/ \E d \in 1 .. offered :
                 /\ taken[d] = 0 /\ taken' = [taken EXCEPT ![d] = @ + 1]
                 /\ everTaken' = everTaken \cup {d}
<1>1. /\ frames # <<>> /\ frames' = Tail(frames)
      /\ AcceptFrame(Head(frames)[1], Head(frames)[2])
      /\ UNCHANGED <<sender, acks, outcome, lives, others, offered>>
  BY DEF ReceiveAtB, aVars, lives
<1>2. PICK peer, f, r, u : /\ peer = Head(frames)[1] /\ f = Head(frames)[2]
                           /\ r = runtime /\ u = runtime'
  OBVIOUS
<1>3. /\ peer \in Nodes /\ f \in Frames /\ f.message = MessageAt(1)
      /\ peer = "a" <=> FromA(1)
  BY <1>1, <1>2, ShiftFacts, QueueFields
     DEF LinkInv, Typed, MessageAt, FromA
<1>4. u = R!Accept(r, peer, f)
  BY <1>1, <1>2 DEF AcceptFrame
<1>5. r \in RuntimeRecords
  BY <1>2 DEF LinkInv, Typed
<1>6. /\ u \in RuntimeRecords
      /\ \/ Skips(r, u, R!KeyOf(f.message))
         \/ Holds(r, u, R!KeyOf(f.message))
  BY <1>3, <1>4, <1>5, AcceptOutcome
<1>7. IF u.messageReady /\ ~r.messageReady /\ peer = "a"
        THEN /\ taken' = [taken EXCEPT ![f.message.body] = @ + 1]
             /\ everTaken' = everTaken \cup {f.message.body}
        ELSE UNCHANGED takes
  BY <1>1, <1>2 DEF AcceptFrame
<1>8. CASE Skips(r, u, R!KeyOf(f.message))
  <2>1. UNCHANGED takes
    BY <1>7, <1>8 DEF Skips
  <2>2. LinkInv'
    BY <1>1, <1>2, <1>3, <1>6, <1>8, <2>1, SkipInv
  <2> QED BY <1>1, <2>1, <2>2
<1>9. CASE Holds(r, u, R!KeyOf(f.message)) /\ peer = "a"
  <2>1. /\ taken' = [taken EXCEPT ![MessageAt(1).body] = @ + 1]
        /\ everTaken' = everTaken \cup {MessageAt(1).body}
    BY <1>3, <1>7, <1>9 DEF Holds
  <2>2. /\ LinkInv' /\ taken[MessageAt(1).body] = 0
        /\ MessageAt(1).body \in 1 .. offered
    BY <1>1, <1>2, <1>3, <1>6, <1>9, <2>1, TakeInv
  <2> QED BY <1>1, <2>1, <2>2
<1>10. CASE Holds(r, u, R!KeyOf(f.message)) /\ peer # "a"
  <2>1. UNCHANGED takes
    BY <1>7, <1>10
  <2>2. LinkInv'
    BY <1>1, <1>2, <1>3, <1>6, <1>10, <2>1, HoldOtherInv
  <2> QED BY <1>1, <2>1, <2>2
<1> QED BY <1>6, <1>8, <1>9, <1>10

\* A step that changes neither the queue of B nor the cache, and adds no
\* unvouched answer.
LEMMA RuntimeStep ==
  ASSUME LinkInv, UNCHANGED <<sender, outcome, lives, frames, others, takes>>,
         runtime' \in RuntimeRecords,
         runtime'.duplicates = runtime.duplicates,
         runtime'.applicationAck \in {runtime.applicationAck, NoAck},
         acks' \in Seq(Acks),
         \A i \in DOMAIN acks' : Vouched(acks'[i].key)
  PROVE  LinkInv'
<1>0. UNCHANGED <<boot, offered, earlier, reboots, taken, everTaken>>
  BY DEF lives, takes
<1>1. Typed /\ Sending /\ Arriving /\ InOrder /\ Remembering /\ Vouching
  BY DEF LinkInv
<1>2. Typed' /\ Sending'
  BY <1>0, <1>1 DEF Typed, Sending
<1>3. SenderKey' = SenderKey
  BY <1>0 DEF SenderKey
<1>4. Arriving' /\ InOrder'
  BY <1>0, <1>1, <1>3 DEF Arriving, ArrivingAt, InOrder, Before, MessageAt,
                          FromA, Window
<1>5. Remembering'
  BY <1>0, <1>1, <1>3 DEF Remembering, Remembered, MessageAt, FromA, Window
<1>6. Vouching'
  BY <1>0, <1>1 DEF Vouching, Vouched
<1> QED BY <1>2, <1>4, <1>5, <1>6 DEF LinkInv

\* The consumer takes the message the runtime holds.
LEMMA ConsumeInv ==
  ASSUME LinkInv, ConsumeAtB
  PROVE  LinkInv'
<1>1. /\ UNCHANGED <<sender, acks, outcome, lives, frames, others, takes>>
      /\ runtime \in RuntimeRecords
      /\ runtime' = R!TakeApplicationMessage(runtime)
      /\ acks \in Seq(Acks) /\ \A i \in DOMAIN acks : Vouched(acks[i].key)
  BY DEF ConsumeAtB, aVars, LinkInv, Typed, Vouching
<1>2. PICK r, u : r = runtime /\ u = runtime'
  OBVIOUS
<1>3. /\ u \in RuntimeRecords /\ u.duplicates = r.duplicates
      /\ u.applicationAck = r.applicationAck
  BY <1>1, <1>2, EmptyBufferTyped
     DEF R!TakeApplicationMessage, R!Release, RuntimeRecords
<1> QED BY <1>1, <1>2, <1>3, RuntimeStep

\* B answers: the ACK of a message it has seen may join the queue of A.
LEMMA AckInv ==
  ASSUME LinkInv, AckAtB
  PROVE  LinkInv'
<1>1. /\ UNCHANGED <<sender, outcome, lives, frames, others, takes>>
      /\ runtime \in RuntimeRecords /\ runtime.applicationAck # NoAck
      /\ runtime' = R!TakeApplicationAck(runtime)
      /\ acks \in Seq(Acks) /\ \A i \in DOMAIN acks : Vouched(acks[i].key)
      /\ Vouched(runtime.applicationAck.key)
  BY DEF AckAtB, LinkInv, Typed, Vouching
<1>2. PICK r, u, a, q : /\ r = runtime /\ u = runtime'
                        /\ a = runtime.applicationAck /\ q = acks'
  OBVIOUS
<1>3. /\ u \in RuntimeRecords /\ u.duplicates = r.duplicates
      /\ u.applicationAck = NoAck /\ a \in Acks
  BY <1>1, <1>2 DEF R!TakeApplicationAck, RuntimeRecords
<1>4. q \in {acks, Received(acks, a)}
  BY <1>2 DEF AckAtB
<1>5. /\ q \in Seq(Acks)
      /\ \/ q = acks
         \/ /\ Len(q) = Len(acks) + 1 /\ DOMAIN q = 1 .. Len(acks) + 1
            /\ DOMAIN acks = 1 .. Len(acks) /\ Len(acks) \in Nat
            /\ \A i \in 1 .. Len(acks) : q[i] = acks[i]
            /\ q[Len(acks) + 1] = a
  BY <1>1, <1>3, <1>4, EnqueueShape
<1>6. ASSUME NEW i \in DOMAIN q
      PROVE  Vouched(q[i].key)
  <2>1. q[i] = a \/ \E j \in DOMAIN acks : q[i] = acks[j]
    <3>1. CASE q = acks
      BY <1>6, <3>1
    <3>2. CASE q # acks
      <4>1. i = Len(acks) + 1 \/ i \in 1 .. Len(acks)
        BY <1>5, <1>6, <3>2
      <4> QED BY <1>5, <3>2, <4>1
    <3> QED BY <3>1, <3>2
  <2> QED BY <1>1, <1>2, <2>1
<1> QED BY <1>1, <1>2, <1>3, <1>5, <1>6, RuntimeStep

\* A message of a third node may join the queue: one less may follow in this
\* window.
LEMMA OtherInv ==
  ASSUME LinkInv, OtherTraffic
  PROVE  LinkInv'
<1>0. /\ UNCHANGED <<sender, acks, outcome, boot, offered, earlier, reboots>>
      /\ UNCHANGED <<runtime, taken, everTaken>>
      /\ others > 0 /\ others' = others - 1
  BY DEF OtherTraffic, aVars, lives, takes
<1>1. /\ Typed /\ Sending /\ Arriving /\ InOrder /\ Remembering /\ Vouching
      /\ offered \in Nat /\ others \in Nat /\ others' \in Nat
      /\ others <= OtherMessages[offered] /\ OtherMessages[offered] \in Nat
      /\ frames \in Seq(Nodes \X Frames) /\ MaxReboots \in Nat
      /\ runtime.duplicates \in Seq(Keys)
  BY <1>0, LinkAssumption DEF LinkInv, Typed, RuntimeRecords
<1>2. PICK m : m = [kind |-> "RESULT", source |-> MaxReboots + 2, tx |-> others,
                    sequence |-> offered, count |-> 1, ackRequired |-> TRUE,
                    body |-> others]
  OBVIOUS
<1>3. /\ m \in Messages /\ m.source = MaxReboots + 2 /\ m.tx = others
      /\ m.sequence = offered
  BY <1>1, <1>2 DEF Messages
<1>4. PICK item, r :
        /\ r = frames'
        /\ item = <<"other", [message |-> m, index |-> 0, intact |-> TRUE,
                              valid |-> TRUE]>>
  OBVIOUS
<1>5. /\ item \in Nodes \X Frames /\ item[1] = "other" /\ item[2].message = m
  BY <1>3, <1>4 DEF Nodes, Frames
<1>6. r = Received(frames, item)
  BY <1>2, <1>4 DEF OtherTraffic
<1>7. PICK n : n = Len(frames) + 1
  OBVIOUS
<1>8. /\ r \in Seq(Nodes \X Frames) /\ DOMAIN frames = 1 .. n - 1 /\ n \in Nat
      /\ \/ r = frames
         \/ /\ DOMAIN r = 1 .. n /\ r[n] = item
            /\ \A i \in 1 .. n - 1 : r[i] = frames[i]
  <2>1. r \in {frames, Received(frames, item)}
    BY <1>6
  <2>2. /\ r \in Seq(Nodes \X Frames)
        /\ \/ r = frames
           \/ /\ DOMAIN r = 1 .. Len(frames) + 1
              /\ r[Len(frames) + 1] = item
              /\ \A i \in 1 .. Len(frames) : r[i] = frames[i]
    BY <1>1, <1>5, <2>1, EnqueueShape
  <2>3. DOMAIN frames = 1 .. Len(frames) /\ Len(frames) \in Nat
    BY <1>1
  <2>4. n - 1 = Len(frames) /\ n \in Nat
    BY <1>7, <2>3
  <2> QED BY <1>7, <2>2, <2>3, <2>4
<1>9. \A i \in DOMAIN frames :
        /\ i \in DOMAIN r /\ MessageAt(i)' = MessageAt(i)
        /\ FromA(i)' = FromA(i) /\ Window(i)' = Window(i)
  BY <1>4, <1>8 DEF MessageAt, FromA, Window
<1>10. ASSUME NEW i \in DOMAIN r, i \notin DOMAIN frames
       PROVE  i = n /\ ~FromA(i)' /\ MessageAt(i)' = m /\ Window(i)' = offered
  BY <1>3, <1>4, <1>5, <1>8, <1>10 DEF MessageAt, FromA, Window
<1>11. SenderKey' = SenderKey
  BY <1>0 DEF SenderKey
<1>12. Typed' /\ Sending'
  <2>1. Typed'
    BY <1>0, <1>1, <1>4, <1>8 DEF Typed
  <2>2. Sending'
    BY <1>0, <1>1 DEF Sending
  <2> QED BY <2>1, <2>2
<1>13. ASSUME NEW i \in DOMAIN frames
       PROVE  /\ ArrivingAt(i) /\ Window(i) \in Nat /\ Window(i) <= offered
              /\ MessageAt(i).tx \in Nat
              /\ ~FromA(i) /\ Window(i) = offered => others < MessageAt(i).tx
  BY <1>1, QueueFields DEF Arriving, ArrivingAt, Window
<1>14. Arriving'
  <2>1. ASSUME NEW i \in DOMAIN r
        PROVE  ArrivingAt(i)'
    <3>1. CASE i \in DOMAIN frames
      <4>1. /\ ArrivingAt(i) /\ MessageAt(i).tx \in Nat
            /\ MessageAt(i)' = MessageAt(i) /\ FromA(i)' = FromA(i)
        BY <1>9, <1>13, <3>1
      <4> QED BY <1>0, <1>1, <1>11, <4>1 DEF ArrivingAt
    <3>2. CASE i \notin DOMAIN frames
      <4>1. ~FromA(i)' /\ MessageAt(i)' = m
        BY <1>10, <3>2
      <4> QED BY <1>0, <1>1, <1>3, <4>1 DEF ArrivingAt
    <3> QED BY <3>1, <3>2
  <2> QED BY <1>4, <2>1 DEF Arriving
<1>15. InOrder'
  <2>1. ASSUME NEW i \in DOMAIN r, NEW j \in DOMAIN r, i < j
        PROVE  Before(i, j)'
    <3>0. i \in DOMAIN frames
      BY <1>8, <2>1
    <3>1. CASE j \in DOMAIN frames
      <4>1. Before(i, j)
        BY <1>1, <2>1, <3>0, <3>1 DEF InOrder
      <4> QED BY <1>9, <3>0, <3>1, <4>1 DEF Before
    <3>2. CASE j \notin DOMAIN frames
      BY <1>3, <1>9, <1>10, <1>13, <3>0, <3>2 DEF Before
    <3> QED BY <3>1, <3>2
  <2> QED BY <1>4, <2>1 DEF InOrder
<1>16. Remembering'
  <2>1. ASSUME NEW key, NEW d, Remembered(key, d), d \in Nat
        PROVE  Remembered(key, d)'
    <3>1. PICK k \in DOMAIN runtime.duplicates :
            /\ runtime.duplicates[k] = key
            /\ d = offered =>
                 Len(runtime.duplicates) - k + others <= OtherMessages[d]
            /\ \A j \in DOMAIN frames : ~FromA(j) /\ Window(j) = d =>
                 Len(runtime.duplicates) - k + MessageAt(j).tx
                   <= OtherMessages[d]
      BY <2>1 DEF Remembered
    <3>2. k \in Nat /\ Len(runtime.duplicates) \in Nat
      BY <1>1
    <3>3. d = offered =>
            Len(runtime.duplicates) - k + others' <= OtherMessages[d]
      BY <1>0, <1>1, <3>1, <3>2
    <3>4. ASSUME NEW j \in DOMAIN r, ~FromA(j)', Window(j)' = d
          PROVE  Len(runtime.duplicates) - k + MessageAt(j)'.tx
                   <= OtherMessages[d]
      <4>1. CASE j \in DOMAIN frames
        BY <1>9, <3>1, <3>4, <4>1
      <4>2. CASE j \notin DOMAIN frames
        BY <1>3, <1>10, <3>1, <3>4, <4>2
      <4> QED BY <4>1, <4>2
    <3> QED BY <1>0, <1>4, <3>1, <3>3, <3>4 DEF Remembered
  <2>2. ASSUME NEW i \in DOMAIN r, FromA(i)', taken[Window(i)'] # 0
        PROVE  Remembered(R!KeyOf(MessageAt(i)), Window(i))'
    <3>1. PICK key, d : key = R!KeyOf(MessageAt(i)') /\ d = Window(i)'
      OBVIOUS
    <3>2. /\ i \in DOMAIN frames /\ key = R!KeyOf(MessageAt(i)) /\ d = Window(i)
          /\ FromA(i)
      BY <1>9, <1>10, <2>2, <3>1
    <3>3. Remembered(key, d) /\ d \in Nat
      BY <1>1, <1>13, <2>2, <3>1, <3>2 DEF Remembering
    <3>4. Remembered(key, d)'
      BY <2>1, <3>3
    <3> QED BY <3>1, <3>4
  <2>3. ASSUME sender.state # "IDLE", taken[offered] # 0
        PROVE  Remembered(SenderKey, offered)'
    <3>1. PICK key : key = SenderKey
      OBVIOUS
    <3>2. Remembered(key, offered)
      BY <1>1, <2>3, <3>1 DEF Remembering
    <3>3. PICK d : d = offered
      OBVIOUS
    <3>4. Remembered(key, d)'
      BY <1>1, <2>1, <3>2, <3>3
    <3> QED BY <1>0, <1>11, <3>1, <3>3, <3>4
  <2>4. ASSUME NEW d \in Deliveries, taken[d] # 0
        PROVE  d <= offered /\ \A i \in DOMAIN r : d <= Window(i)'
    BY <1>1, <1>9, <1>10, <2>4 DEF Remembering
  <2> QED BY <1>0, <1>4, <2>2, <2>3, <2>4 DEF Remembering
<1>17. Vouching'
  BY <1>0, <1>1 DEF Vouching, Vouched
<1> QED BY <1>12, <1>14, <1>15, <1>16, <1>17 DEF LinkInv

-----------------------------------------------------------------------------
(* Reboots                                                                 *)

\* A forgets its message; the new boot identifier is older than no frame and
\* no ACK on its way.
LEMMA RebootAInv ==
  ASSUME LinkInv, RebootA
  PROVE  LinkInv'
<1>0. /\ UNCHANGED <<offered, runtime, frames, others, taken, everTaken>>
      /\ sender' = S!InitialSender /\ acks' = <<>> /\ boot' = boot + 1
      /\ earlier' = offered /\ reboots > 0 /\ reboots' = reboots - 1
      /\ outcome' = [d \in Deliveries |->
           IF d <= offered /\ outcome[d] = "none" THEN "abandoned"
                                                  ELSE outcome[d]]
  BY DEF RebootA, bVars, takes
<1>1. /\ Typed /\ Sending /\ Arriving /\ InOrder /\ Remembering /\ Vouching
      /\ offered \in Nat /\ boot \in Nat /\ reboots \in Nat
      /\ boot + reboots <= MaxReboots + 1 /\ MaxReboots \in Nat
      /\ runtime \in RuntimeRecords /\ frames \in Seq(Nodes \X Frames)
      /\ \A d \in Deliveries : d \in Nat
  BY LinkAssumption DEF LinkInv, Typed
<1>2. SenderSound(sender') /\ sender'.state = "IDLE" /\ ~Acked(sender')
  <2>1. PICK s : s = sender'
    OBVIOUS
  <2> QED BY <1>0, <2>1, SenderResets
<1>3. Typed'
  <2>1. acks' \in Seq(Acks)
    BY <1>0
  <2>2. outcome' \in [Deliveries -> Outcomes]
    BY <1>0, <1>1 DEF Typed, Outcomes
  <2> QED BY <1>0, <1>1, <1>2, <2>1, <2>2 DEF Typed
<1>4. Sending'
  <2>1. ASSUME NEW d \in Deliveries
        PROVE  outcome'[d] = "none" <=> d > offered
    BY <1>0, <1>1, <2>1 DEF Sending
  <2> QED BY <1>0, <1>2, <2>1 DEF Sending
<1>5. Arriving'
  <2>1. ASSUME NEW i \in DOMAIN frames
        PROVE  ArrivingAt(i)'
    <3>1. ArrivingAt(i) /\ MessageAt(i) \in Messages
      BY <1>1, QueueFields DEF Arriving
    <3>2. MessageAt(i)' = MessageAt(i) /\ FromA(i)' = FromA(i)
      BY <1>0 DEF MessageAt, FromA
    <3>3. MessageAt(i).source \in Nat
      BY <3>1 DEF Messages
    <3> QED BY <1>0, <1>1, <1>2, <3>1, <3>2, <3>3 DEF ArrivingAt
  <2> QED BY <1>0, <2>1 DEF Arriving
<1>6. InOrder'
  BY <1>0, <1>1 DEF InOrder, Before, MessageAt, FromA, Window
<1>7. Remembering'
  BY <1>0, <1>1, <1>2 DEF Remembering, Remembered, MessageAt, FromA, Window
<1>8. Vouching'
  <2>1. ASSUME NEW key \in Keys, Vouched(key)
        PROVE  Vouched(key)'
    <3>1. key.source \in Nat
      BY DEF Keys
    <3> QED BY <1>0, <1>1, <2>1, <3>1 DEF Vouched
  <2>2. \A i \in DOMAIN runtime.duplicates : runtime.duplicates[i] \in Keys
    BY <1>1 DEF RuntimeRecords
  <2>3. runtime.applicationAck # NoAck => runtime.applicationAck.key \in Keys
    BY <1>1 DEF RuntimeRecords, Acks
  <2>4. \A i \in DOMAIN runtime.duplicates : Vouched(runtime.duplicates[i])'
    <3>1. ASSUME NEW i \in DOMAIN runtime.duplicates
          PROVE  Vouched(runtime.duplicates[i])'
      <4>1. PICK key : key = runtime.duplicates[i]
        OBVIOUS
      <4>2. Vouched(key)'
        BY <1>1, <2>1, <2>2, <4>1 DEF Vouching
      <4> QED BY <1>0, <4>1, <4>2
    <3> QED BY <3>1
  <2>5. runtime.applicationAck # NoAck => Vouched(runtime.applicationAck.key)'
    <3>1. PICK key : key = runtime.applicationAck.key
      OBVIOUS
    <3>2. runtime.applicationAck # NoAck => Vouched(key)'
      BY <1>1, <2>1, <2>3, <3>1 DEF Vouching
    <3> QED BY <1>0, <3>1, <3>2
  <2>6. DOMAIN acks' = {}
    BY <1>0
  <2> QED BY <1>0, <1>2, <2>4, <2>5, <2>6 DEF Vouching
<1> QED BY <1>3, <1>4, <1>5, <1>6, <1>7, <1>8 DEF LinkInv

\* The runtime after setup().
LEMMA InitialRuntimeTyped ==
  /\ R!InitialRuntime \in RuntimeRecords
  /\ R!InitialRuntime.duplicates = <<>>
  /\ R!InitialRuntime.applicationAck = NoAck
<1>1. PICK b : b = R!EmptyBuffer
  OBVIOUS
<1>2. b \in Buffers
  BY <1>1, EmptyBufferTyped
<1>3. <<>> \in Seq(Keys)
  OBVIOUS
<1> QED BY <1>1, <1>2, <1>3 DEF R!InitialRuntime, RuntimeRecords

\* B forgets what it has taken together with all that could arrive.
LEMMA RebootBInv ==
  ASSUME LinkInv, RebootB
  PROVE  LinkInv'
<1>0. /\ UNCHANGED <<sender, acks, outcome, boot, offered, earlier, others>>
      /\ everTaken' = everTaken /\ runtime' = R!InitialRuntime
      /\ frames' = <<>> /\ taken' = [d \in Deliveries |-> 0]
      /\ reboots > 0 /\ reboots' = reboots - 1
  BY DEF RebootB
<1>1. /\ Typed /\ Sending /\ Vouching /\ boot \in Nat /\ reboots \in Nat
      /\ boot + reboots <= MaxReboots + 1 /\ MaxReboots \in Nat
  BY LinkAssumption DEF LinkInv, Typed
<1>2. /\ runtime' \in RuntimeRecords /\ runtime'.duplicates = <<>>
      /\ runtime'.applicationAck = NoAck
  BY <1>0, InitialRuntimeTyped
<1>3. DOMAIN frames' = {} /\ frames' \in Seq(Nodes \X Frames)
  BY <1>0
<1>4. taken' \in [Deliveries -> Nat]
  BY <1>0
<1>5. Typed'
  BY <1>0, <1>1, <1>2, <1>3, <1>4 DEF Typed
<1>6. Sending' /\ Arriving' /\ InOrder'
  BY <1>0, <1>1, <1>3 DEF Sending, Arriving, InOrder
<1>7. Remembering'
  <2>1. offered \in {0} \cup Deliveries
    BY <1>1 DEF Typed
  <2>2. sender.state # "IDLE" => offered \in Deliveries
    BY <1>1, <2>1, LinkAssumption DEF Typed, Sending
  <2> QED BY <1>0, <1>3, <2>2 DEF Remembering
<1>8. Vouching'
  BY <1>0, <1>1, <1>2 DEF Vouching, Vouched
<1> QED BY <1>5, <1>6, <1>7, <1>8 DEF LinkInv

-----------------------------------------------------------------------------
(* The loop of node A                                                      *)

\* The end of a transmission concerns the sender only.
LEMMA CompletionInv ==
  ASSUME LinkInv, ProcessSendCompletion
  PROVE  LinkInv'
<1>1. UNCHANGED <<acks, outcome, lives, runtime, frames, others, takes>>
  BY DEF ProcessSendCompletion, bVars
<1>2. SenderSound(sender)
  BY DEF LinkInv, Typed
<1>3. PICK s, r : s = sender /\ r = sender'
  OBVIOUS
<1>4. r = s \/ \E ok \in BOOLEAN : r = S!CompleteFrame(s, ok)
  BY <1>3 DEF ProcessSendCompletion
<1>5. Carries(s, r)
  BY <1>2, <1>3, <1>4, CarriesItself, SenderCompletesFrame
<1> QED BY <1>1, <1>3, <1>5, CarryStep

\* The ACK of this life of A for the message the sender works on is vouched for
\* as that message.
LEMMA ReceiveAckInv ==
  ASSUME LinkInv, ProcessReceivedFrame
  PROVE  LinkInv'
<1>1. UNCHANGED <<outcome, lives, runtime, frames, others, takes>>
  BY DEF ProcessReceivedFrame, bVars
<1>2. /\ SenderSound(sender) /\ acks \in Seq(Acks) /\ Sending
      /\ \A i \in DOMAIN acks : Vouched(acks[i].key)
      /\ Acked(sender) => offered \in everTaken
      /\ offered \in {0} \cup Deliveries /\ earlier \in Nat
  BY DEF LinkInv, Typed, Vouching
<1>0. offered \in Nat
  BY <1>2, LinkAssumption
<1>3. CASE acks = <<>>
  BY <1>1, <1>2, <1>3, CarriesItself, CarryStep DEF ProcessReceivedFrame
<1>4. CASE acks # <<>>
  <2>1. PICK q, a, s, r : /\ q = acks' /\ a = Head(acks)
                          /\ s = sender /\ r = sender'
    OBVIOUS
  <2>2. q = Tail(acks) /\ r = AcceptAck(a.key, a.status)
    BY <1>4, <2>1 DEF ProcessReceivedFrame
  <2>3. /\ q \in Seq(Acks) /\ a = acks[1] /\ 1 \in DOMAIN acks
        /\ \A i \in DOMAIN q : i + 1 \in DOMAIN acks /\ q[i] = acks[i + 1]
    BY <1>2, <1>4, <2>1, <2>2, DequeueShape
  <2>4. Vouched(a.key) /\ \A i \in DOMAIN q : Vouched(q[i].key)
    BY <1>2, <2>3
  <2>5. \/ r = s
        \/ a.key.source = boot
           /\ r = S!AcceptAck(s, a.key.tx, a.key.sequence, a.status)
    BY <2>1, <2>2 DEF AcceptAck
  <2>6. \/ Carries(s, r)
        \/ /\ SenderSound(r) /\ r.tx = s.tx /\ r.sequence = s.sequence
           /\ r.state # "IDLE" /\ s.state # "IDLE" /\ a.key.tx = s.tx
           /\ a.key.source = boot
    <3>1. CASE r = s
      BY <1>2, <2>1, <3>1, CarriesItself
    <3>2. CASE /\ a.key.source = boot
               /\ r = S!AcceptAck(s, a.key.tx, a.key.sequence, a.status)
      BY <1>2, <2>1, <3>2, SenderAcceptsAck
    <3> QED BY <2>5, <3>1, <3>2
  <2>7. CASE Carries(s, r)
    BY <1>1, <1>2, <2>1, <2>3, <2>4, <2>7, SenderStep DEF Carries
  <2>8. CASE /\ SenderSound(r) /\ r.tx = s.tx /\ r.sequence = s.sequence
             /\ r.state # "IDLE" /\ s.state # "IDLE" /\ a.key.tx = s.tx
             /\ a.key.source = boot
    <3>1. earlier + a.key.tx \in everTaken /\ s.tx = offered - earlier
      BY <1>2, <2>1, <2>4, <2>8 DEF Vouched, Sending
    <3>2. offered \in everTaken
      <4>1. earlier + a.key.tx = offered
        BY <1>2, <1>0, <2>8, <3>1
      <4> QED BY <3>1, <4>1
    <3> QED BY <1>1, <2>1, <2>3, <2>4, <2>8, <3>2, SenderStep
  <2> QED BY <2>6, <2>7, <2>8
<1> QED BY <1>3, <1>4

\* sender_.loop() keeps the message.
LEMMA LoopInv ==
  ASSUME LinkInv, SenderLoop
  PROVE  LinkInv'
<1>1. UNCHANGED <<acks, outcome, lives, runtime, frames, others, takes>>
  BY DEF SenderLoop, bVars
<1>2. PICK s, r : s = sender /\ r = sender'
  OBVIOUS
<1>3. SenderSound(s) /\ r = S!Loop(s)
  BY <1>2 DEF LinkInv, Typed, SenderLoop
<1> QED BY <1>1, <1>2, <1>3, SenderLoops, CarryStep

\* The message under way gets its outcome and the sender is idle again.
LEMMA OwnedInv ==
  ASSUME LinkInv, OwnedCompletion
  PROVE  /\ LinkInv'
         /\ \/ UNCHANGED outcome
            \/ /\ offered \in Deliveries /\ outcome[offered] = "none"
               /\ \/ /\ outcome' = [outcome EXCEPT ![offered] = "acknowledged"]
                     /\ offered \in everTaken
                  \/ outcome' = [outcome EXCEPT ![offered] = "failed"]
<1>0. UNCHANGED <<acks, lives, runtime, frames, others, takes>>
  BY DEF OwnedCompletion, bVars
<1>1. /\ Typed /\ Sending /\ Arriving /\ InOrder /\ Remembering /\ Vouching
      /\ SenderSound(sender) /\ offered \in Nat /\ earlier \in Nat
      /\ \A d \in Deliveries : d \in Nat
  BY LinkAssumption DEF LinkInv, Typed
<1>2. CASE ~S!Terminal(sender)
  BY <1>0, <1>1, <1>2, CarriesItself, CarryStep DEF OwnedCompletion
<1>3. CASE S!Terminal(sender)
  <2>0. UNCHANGED <<boot, offered, earlier, reboots, taken, everTaken>>
    BY <1>0 DEF lives, takes
  <2>1. sender.state # "IDLE" /\ Carried = offered /\ offered \in Deliveries
    <3>1. sender.state # "IDLE"
      BY <1>3 DEF S!Terminal
    <3>2. sender.tx = offered - earlier /\ offered > earlier
      BY <1>1, <3>1 DEF Sending
    <3> QED BY <1>1, <3>1, <3>2 DEF Carried, Typed
  <2>2. PICK what : what = IF sender.state = "ACKNOWLEDGED" THEN "acknowledged"
                                                            ELSE "failed"
    OBVIOUS
  <2>3. outcome' = [outcome EXCEPT ![offered] = what]
    BY <1>3, <2>1, <2>2 DEF OwnedCompletion
  <2>4. what = "acknowledged" => offered \in everTaken
    BY <1>1, <2>2 DEF Vouching, Acked
  <2>5. outcome[offered] = "none"
    BY <1>1, <2>1 DEF Sending
  <2>6. SenderSound(sender') /\ sender'.state = "IDLE" /\ ~Acked(sender')
    <3>1. PICK s, q : s = sender' /\ q = sender
      OBVIOUS
    <3>2. s = S!Reset(q) /\ SenderSound(q)
      BY <1>1, <1>3, <3>1 DEF OwnedCompletion
    <3> QED BY <3>1, <3>2, SenderResets
  <2>7. Typed'
    <3>1. outcome' \in [Deliveries -> Outcomes]
      BY <1>1, <2>2, <2>3 DEF Typed, Outcomes
    <3> QED BY <1>0, <1>1, <2>0, <2>6, <3>1 DEF Typed
  <2>8. Sending'
    <3>1. ASSUME NEW d \in Deliveries
          PROVE  outcome'[d] = "none" <=> d > offered
      <4>1. DOMAIN outcome = Deliveries /\ what # "none"
        BY <1>1, <2>2 DEF Typed
      <4>2. CASE d = offered
        BY <1>1, <2>1, <2>3, <4>1, <4>2
      <4>3. CASE d # offered
        BY <1>1, <2>3, <4>1, <4>3 DEF Sending
      <4> QED BY <4>2, <4>3
    <3> QED BY <2>0, <2>6, <3>1 DEF Sending
  <2>9. Arriving' /\ InOrder'
    BY <1>0, <1>1, <2>0, <2>6 DEF Arriving, ArrivingAt, InOrder, Before,
                                  MessageAt, FromA, Window
  <2>10. Remembering'
    BY <1>0, <1>1, <2>0, <2>6 DEF Remembering, Remembered, MessageAt, FromA,
                                  Window
  <2>11. Vouching'
    BY <1>0, <1>1, <2>0, <2>6 DEF Vouching, Vouched
  <2> QED BY <2>1, <2>2, <2>3, <2>4, <2>5, <2>7, <2>8, <2>9, <2>10, <2>11
             DEF LinkInv
<1> QED BY <1>2, <1>3

\* A fragment is refused by the radio, or goes on the air and may arrive.
LEMMA DispatchInv ==
  ASSUME LinkInv, DispatchSenderFrame
  PROVE  LinkInv'
<1>1. UNCHANGED <<acks, outcome, lives, runtime, others, takes>>
  BY DEF DispatchSenderFrame
<1>2. PICK s, r : s = sender /\ r = sender'
  OBVIOUS
<1>3. SenderSound(s)
  BY <1>2 DEF LinkInv, Typed
<1>4. CASE UNCHANGED <<sender, frames>>
  BY <1>1, <1>2, <1>3, <1>4, CarriesItself, CarryStep
<1>5. CASE ~UNCHANGED <<sender, frames>>
  <2>1. /\ S!CanTakeFrame(s)
        /\ \/ /\ r = S!CompleteFrame(S!TakeFrame(s), FALSE)
              /\ frames' = frames
           \/ /\ r = S!TakeFrame(s)
              /\ frames' \in
                   {frames, Received(frames, <<"a", EncodedFrame(sender)>>)}
    BY <1>2, <1>5 DEF DispatchSenderFrame
  <2>2. PICK t : t = S!TakeFrame(s)
    OBVIOUS
  <2>3. Carries(s, t) /\ s.state # "IDLE"
    BY <1>3, <2>1, <2>2, SenderTakesFrame
  <2>4. SenderSound(t)
    BY <2>3 DEF Carries
  <2>5. Carries(s, r)
    <3>1. CASE r = t
      BY <2>3, <3>1
    <3>2. CASE r = S!CompleteFrame(t, FALSE)
      BY <2>3, <2>4, <3>2, SenderCompletesFrame, CarriesOn
    <3> QED BY <2>1, <2>2, <3>1, <3>2
  <2> QED BY <1>1, <1>2, <2>1, <2>3, <2>5, SendInv
<1> QED BY <1>4, <1>5

\* Time passes for the sender.
LEMMA TickInv ==
  ASSUME LinkInv, Tick
  PROVE  LinkInv'
<1>1. UNCHANGED <<acks, outcome, lives, runtime, frames, others, takes>>
  BY DEF Tick, bVars
<1>2. PICK s, r : s = sender /\ r = sender'
  OBVIOUS
<1>3. SenderSound(s) /\ r = S!Elapse(s)
  BY <1>2 DEF LinkInv, Typed, Tick
<1> QED BY <1>1, <1>2, <1>3, SenderElapses, CarryStep

\* Steps that only concern the radio.
LEMMA IdleStep ==
  ASSUME LinkInv, UNCHANGED <<sender, acks, outcome, lives, runtime, frames,
                              others, takes>>
  PROVE  LinkInv'
<1>1. SenderSound(sender)
  BY DEF LinkInv, Typed
<1> QED BY <1>1, CarriesItself, CarryStep

-----------------------------------------------------------------------------
(* The invariant and the refinement                                        *)

\* Nothing is under way at first.
LEMMA LinkInitInv == Init => LinkInv
<1> SUFFICES ASSUME Init
             PROVE  LinkInv
  OBVIOUS
<1>1. /\ sender = S!InitialSender /\ acks = <<>> /\ boot = 1 /\ offered = 0
      /\ earlier = 0 /\ outcome = [d \in Deliveries |-> "none"]
      /\ runtime = R!InitialRuntime /\ frames = <<>>
      /\ others = OtherMessages[0] /\ taken = [d \in Deliveries |-> 0]
      /\ everTaken = {} /\ reboots = MaxReboots
  BY DEF Init
<1>2. SenderSound(sender) /\ sender.state = "IDLE" /\ ~Acked(sender)
  BY <1>1, SenderResets
<1>3. /\ runtime \in RuntimeRecords /\ runtime.duplicates = <<>>
      /\ runtime.applicationAck = NoAck
  BY <1>1, InitialRuntimeTyped
<1>4. /\ MaxReboots \in Nat /\ OtherMessages[0] \in Nat
      /\ \A d \in Deliveries : d \in Nat /\ d > 0
  BY LinkAssumption
<1>5. /\ DOMAIN frames = {} /\ frames \in Seq(Nodes \X Frames)
      /\ DOMAIN acks = {} /\ acks \in Seq(Acks)
      /\ DOMAIN runtime.duplicates = {}
  BY <1>1, <1>3
<1>6. Typed
  <2>1. outcome \in [Deliveries -> Outcomes] /\ taken \in [Deliveries -> Nat]
    BY <1>1 DEF Outcomes
  <2>2. 1 .. offered \subseteq Deliveries /\ offered = 0
    BY <1>1
  <2> QED BY <1>1, <1>2, <1>3, <1>4, <1>5, <2>1, <2>2 DEF Typed
<1>7. Sending
  BY <1>1, <1>2, <1>4 DEF Sending
<1>8. Arriving /\ InOrder
  BY <1>5 DEF Arriving, InOrder
<1>9. Remembering
  BY <1>1, <1>2, <1>5 DEF Remembering
<1>10. Vouching
  BY <1>2, <1>3, <1>5 DEF Vouching
<1> QED BY <1>6, <1>7, <1>8, <1>9, <1>10 DEF LinkInv

\* Every step preserves the invariant.
LEMMA LinkStepInv ==
  ASSUME QuietNeighbours, LinkInv, [Next]_vars
  PROVE  LinkInv'
<1>1. CASE StartMessage
  BY <1>1, StartInv
<1>2. CASE LoopA
  BY <1>2, CompletionInv, ReceiveAckInv, LoopInv, OwnedInv, DispatchInv
     DEF LoopA
<1>3. CASE Tick
  BY <1>3, TickInv
<1>4. CASE SendCallback
  BY <1>4, IdleStep DEF SendCallback, bVars
<1>5. CASE ReceiveAtB
  BY <1>5, ReceiveInv
<1>6. CASE ConsumeAtB
  BY <1>6, ConsumeInv
<1>7. CASE AckAtB
  BY <1>7, AckInv
<1>8. CASE AckCompleted
  BY <1>8, IdleStep DEF AckCompleted, aVars
<1>9. CASE OtherTraffic
  BY <1>9, OtherInv
<1>10. CASE RebootA
  BY <1>10, RebootAInv
<1>11. CASE RebootB
  BY <1>11, RebootBInv
<1>12. CASE UNCHANGED vars
  BY <1>12, IdleStep DEF vars, aVars, bVars
<1> QED BY <1>1, <1>2, <1>3, <1>4, <1>5, <1>6, <1>7, <1>8, <1>9, <1>10, <1>11,
           <1>12 DEF Next

\* The cache remembers what may still arrive, and every ACK on its way is
\* vouched for, as long as third nodes are quieter than the cache is deep.
THEOREM LinkInvariance ==
  ASSUME QuietNeighbours
  PROVE  Spec => []LinkInv
<1>1. Init => LinkInv
  BY LinkInitInv
<1>2. LinkInv /\ [Next]_vars => LinkInv'
  BY LinkStepInv
<1> QED BY <1>1, <1>2, PTL DEF Spec

\* Nothing was offered, taken or reported at first.
LEMMA LinkInitImplements == Init => Delivery!Init
<1> SUFFICES ASSUME Init
             PROVE  Delivery!Init
  OBVIOUS
<1>1. offered = 0 /\ 1 .. offered = {}
  BY DEF Init
<1> QED BY <1>1 DEF Init, Delivery!Init

\* The application's start of a message is Offer.
LEMMA StartImplements ==
  ASSUME LinkInv, StartMessage
  PROVE  Delivery!Next
<1>1. /\ sender.state = "IDLE" /\ offered + 1 \in Deliveries
      /\ offered' = offered + 1 /\ UNCHANGED <<outcome, taken, everTaken>>
  BY DEF StartMessage, S!CanStart, takes
<1>2. offered \in Nat /\ Sending /\ 1 .. offered \subseteq Deliveries
  BY LinkAssumption DEF LinkInv, Typed
<1>3. Delivery!Idle
  BY <1>1, <1>2 DEF Delivery!Idle, Sending
<1>4. /\ offered + 1 \notin 1 .. offered
      /\ 1 .. offered' = (1 .. offered) \cup {offered + 1}
  BY <1>1, <1>2
<1>5. Delivery!Offer(offered + 1)
  BY <1>1, <1>3, <1>4 DEF Delivery!Offer
<1> QED BY <1>1, <1>5 DEF Delivery!Next

\* A reboot of A reports the message under way, if any, as abandoned.
LEMMA RebootAImplements ==
  ASSUME LinkInv, RebootA
  PROVE  Delivery!Next \/ UNCHANGED Delivery!vars
<1>1. /\ UNCHANGED <<offered, taken, everTaken>>
      /\ outcome' = [d \in Deliveries |->
           IF d <= offered /\ outcome[d] = "none" THEN "abandoned"
                                                  ELSE outcome[d]]
  BY DEF RebootA, bVars, takes
<1>2. /\ offered \in {0} \cup Deliveries /\ 1 .. offered \subseteq Deliveries
      /\ outcome \in [Deliveries -> Outcomes] /\ Sending
      /\ \A d \in Deliveries : d \in Nat /\ d > 0
  BY LinkAssumption DEF LinkInv, Typed
<1>3. CASE sender.state = "IDLE"
  <2>1. \A d \in Deliveries : ~(d <= offered /\ outcome[d] = "none")
    BY <1>2, <1>3 DEF Sending
  <2>2. outcome' = outcome
    BY <1>1, <1>2, <2>1
  <2> QED BY <1>1, <2>2 DEF Delivery!vars
<1>4. CASE sender.state # "IDLE"
  <2>1. offered \in Deliveries /\ offered \in 1 .. offered
    BY <1>2, <1>4, LinkAssumption DEF LinkInv, Typed, Sending
  <2>2. \A d \in Deliveries : d <= offered /\ outcome[d] = "none" <=> d = offered
    BY <1>2, <1>4, <2>1 DEF Sending
  <2>3. outcome' = [outcome EXCEPT ![offered] = "abandoned"]
    BY <1>1, <1>2, <2>2
  <2>4. Delivery!Report(offered, "abandoned")
    BY <1>1, <2>1, <2>2, <2>3 DEF Delivery!Report
  <2> QED BY <2>1, <2>4 DEF Delivery!Next
<1> QED BY <1>3, <1>4

\* Every step of the link is a step of the abstract delivery or none.
LEMMA LinkStepImplements ==
  ASSUME QuietNeighbours, LinkInv, [Next]_vars
  PROVE  [Delivery!Next]_(Delivery!vars)
<1>0. /\ 1 .. offered \subseteq Deliveries /\ offered \in Nat
      /\ \A d \in Deliveries : d \in Nat /\ d > 0
  BY LinkAssumption DEF LinkInv, Typed
<1>1. CASE StartMessage
  BY <1>1, StartImplements
<1>2. CASE OwnedCompletion
  <2>1. UNCHANGED <<offered, taken, everTaken>>
    BY <1>2 DEF OwnedCompletion, bVars, lives, takes
  <2>2. CASE UNCHANGED outcome
    BY <2>1, <2>2 DEF Delivery!vars
  <2>3. CASE ~UNCHANGED outcome
    <3>1. /\ offered \in Deliveries /\ outcome[offered] = "none"
          /\ \/ /\ outcome' = [outcome EXCEPT ![offered] = "acknowledged"]
                /\ offered \in everTaken
             \/ outcome' = [outcome EXCEPT ![offered] = "failed"]
      BY <1>2, <2>3, OwnedInv
    <3>2. offered \in 1 .. offered
      BY <1>0, <3>1
    <3>3. \/ Delivery!Report(offered, "acknowledged")
          \/ Delivery!Report(offered, "failed")
      BY <2>1, <3>1, <3>2 DEF Delivery!Report
    <3> QED BY <3>1, <3>3 DEF Delivery!Next
  <2> QED BY <2>2, <2>3
<1>3. CASE ReceiveAtB
  <2>1. /\ UNCHANGED <<offered, outcome>>
        /\ \/ UNCHANGED takes
           \/ \E d \in 1 .. offered :
                /\ taken[d] = 0 /\ taken' = [taken EXCEPT ![d] = @ + 1]
                /\ everTaken' = everTaken \cup {d}
    BY <1>3, ReceiveInv
  <2>2. CASE UNCHANGED takes
    BY <2>1, <2>2 DEF takes, Delivery!vars
  <2>3. ASSUME NEW d \in 1 .. offered, taken[d] = 0,
               taken' = [taken EXCEPT ![d] = taken[d] + 1],
               everTaken' = everTaken \cup {d}
        PROVE  Delivery!Next
    <3>1. taken' = [taken EXCEPT ![d] = 1]
      <4>1. taken[d] + 1 = 1
        BY <2>3
      <4> QED BY <2>3, <4>1
    <3>2. Delivery!Take(d)
      BY <2>1, <2>3, <3>1 DEF Delivery!Take
    <3> QED BY <1>0, <3>2 DEF Delivery!Next
  <2> QED BY <2>1, <2>2, <2>3
<1>4. CASE RebootA
  BY <1>4, RebootAImplements
<1>5. CASE RebootB
  <2>1. Delivery!ReceiverReboots
    BY <1>5 DEF RebootB, Delivery!ReceiverReboots
  <2> QED BY <2>1 DEF Delivery!Next
<1>6. CASE ProcessSendCompletion \/ ProcessReceivedFrame \/ SenderLoop
  BY <1>6 DEF ProcessSendCompletion, ProcessReceivedFrame, SenderLoop, bVars,
              lives, takes, Delivery!vars
<1>7. CASE DispatchSenderFrame \/ Tick \/ SendCallback
  BY <1>7 DEF DispatchSenderFrame, Tick, SendCallback, bVars, lives, takes,
              Delivery!vars
<1>8. CASE ConsumeAtB \/ AckAtB \/ AckCompleted \/ OtherTraffic
  BY <1>8 DEF ConsumeAtB, AckAtB, AckCompleted, OtherTraffic, aVars, lives,
              takes, Delivery!vars
<1>9. CASE UNCHANGED vars
  BY <1>9 DEF vars, aVars, bVars, lives, takes, Delivery!vars
<1> QED BY <1>1, <1>2, <1>3, <1>4, <1>5, <1>6, <1>7, <1>8, <1>9 DEF Next, LoopA

\* In one life of the receiver no message is taken twice, success is reported
\* only for a message that was taken, and one message is under way at a time,
\* whatever the radio loses, repeats or delays across reboots.
THEOREM LinkImplementsDelivery ==
  ASSUME QuietNeighbours
  PROVE  Spec => ImplementsDelivery
<1>1. Init => Delivery!Init
  BY LinkInitImplements
<1>2. LinkInv /\ [Next]_vars => [Delivery!Next]_(Delivery!vars)
  BY LinkStepImplements
<1>3. Spec => []LinkInv
  BY LinkInvariance
<1> QED BY <1>1, <1>2, <1>3, PTL DEF Spec, ImplementsDelivery, Delivery!Spec
=============================================================================
