--------------------------- MODULE EndpointProofs ---------------------------
(***************************************************************************)
(* Theorems about Endpoint, for every set of commands, every mix of calls  *)
(* and every retry policy.                                                 *)
(*                                                                         *)
(* The inductive invariant has five parts: who owns the sender (Owning),   *)
(* what is on its way from the peer (Receiving), the heartbeat (Beating),  *)
(* what the observer hears (Reporting), and who owns the radio             *)
(* (Transmitting).  The first one holds by itself; the others use it.      *)
(***************************************************************************)
EXTENDS Endpoint, FiniteSetTheorems, TLAPS

-----------------------------------------------------------------------------
(* The sender                                                              *)

AllTransactions ==
  Commands \cup Unsolicited \cup Inbound \cup Background \cup Raw
    \cup {NoTransaction}

SenderRecords ==
  [state : S!SenderStates, delivery : S!DeliveryStates, tx : AllTransactions,
   sequence : Nat, kind : {"COMMAND", "RESULT"}, peer : {"peer", "none"},
   count : Nat, index : Nat, inFlight : BOOLEAN, attempts : Nat, age : Nat]

\* Sender and delivery are idle together, and nothing of an idle sender is in
\* flight.
SenderSound(s) ==
  /\ s \in SenderRecords
  /\ s.state = "IDLE" <=> s.delivery = "IDLE"
  /\ s.inFlight => s.state # "IDLE"

\* r is the sender s a little later, with the same message.
Carries(s, r) ==
  /\ SenderSound(r)
  /\ r.tx = s.tx /\ (r.state = "IDLE" <=> s.state = "IDLE")
  /\ r.inFlight => s.inFlight

LEMMA CarriesItself ==
  ASSUME NEW s, SenderSound(s)
  PROVE  Carries(s, s)
BY DEF Carries

\* Every method keeps the sender sound; start and reset give it another message,
\* the others carry the one it has.
LEMMA SenderStarts ==
  ASSUME NEW s, SenderSound(s), NEW kind \in {"COMMAND", "RESULT"},
         NEW tx \in AllTransactions
  PROVE  LET r == S!Start(s, "peer", kind, tx, 1) IN
         SenderSound(r) /\ r.tx = tx /\ r.state # "IDLE" /\ r.inFlight = FALSE
<1>1. PICK n : n = S!NextSequence(s.sequence)
  OBVIOUS
<1>2. n \in Nat
  BY <1>1 DEF SenderSound, SenderRecords, S!NextSequence
<1>3. PICK r : r = S!Start(s, "peer", kind, tx, 1)
  OBVIOUS
<1>4. r = [s EXCEPT !.state = "READY", !.delivery = "READY_TO_SEND", !.tx = tx,
                    !.sequence = n, !.kind = kind, !.peer = "peer",
                    !.count = 1, !.index = 0, !.inFlight = FALSE,
                    !.attempts = 0, !.age = 0]
  BY <1>1, <1>3 DEF S!Start
<1>5. /\ r \in SenderRecords /\ r.state = "READY" /\ r.delivery = "READY_TO_SEND"
      /\ r.tx = tx /\ r.inFlight = FALSE
  BY <1>2, <1>4 DEF SenderSound, SenderRecords, S!SenderStates, S!DeliveryStates
<1> QED
  BY <1>3, <1>5 DEF SenderSound

LEMMA SenderResets ==
  ASSUME NEW s, SenderSound(s)
  PROVE  LET r == S!Reset(s) IN
         SenderSound(r) /\ r.state = "IDLE" /\ r.inFlight = FALSE
BY DEF SenderSound, SenderRecords, S!Reset, S!InitialSender, S!SenderStates,
       S!DeliveryStates, AllTransactions

LEMMA SenderElapses ==
  ASSUME NEW s, SenderSound(s)
  PROVE  Carries(s, S!Elapse(s))
BY DEF Carries, SenderSound, SenderRecords, S!Elapse

LEMMA SenderExpires ==
  ASSUME NEW s, SenderSound(s)
  PROVE  Carries(s, S!ExpireWindow(s))
BY DEF Carries, SenderSound, SenderRecords, S!ExpireWindow, S!DeliveryStates

LEMMA SenderMirrors ==
  ASSUME NEW s, SenderSound(s)
  PROVE  Carries(s, S!Mirror(s))
BY DEF Carries, SenderSound, SenderRecords, S!Mirror, S!SenderStates,
       S!DeliveryStates

LEMMA SenderLoops ==
  ASSUME NEW s, SenderSound(s)
  PROVE  Carries(s, S!Loop(s))
<1>1. PICK e : e = S!ExpireWindow(s)
  OBVIOUS
<1>2. Carries(s, e)
  BY <1>1, SenderExpires
<1>3. Carries(e, S!Mirror(e))
  BY <1>2, SenderMirrors DEF Carries
<1> QED
  BY <1>1, <1>2, <1>3 DEF Carries, S!Loop

LEMMA SenderTakesFrame ==
  ASSUME NEW s, SenderSound(s), S!CanTakeFrame(s)
  PROVE  LET r == S!TakeFrame(s) IN
         SenderSound(r) /\ r.tx = s.tx /\ r.state # "IDLE"
           /\ s.state # "IDLE"
BY DEF SenderSound, SenderRecords, S!TakeFrame, S!CanTakeFrame, S!SenderStates

LEMMA SenderMarks ==
  ASSUME NEW s, SenderSound(s), s.state # "IDLE"
  PROVE  Carries(s, S!MarkSent(s))
<1>1. PICK n, r : n = s.attempts + 1 /\ r = S!MarkSent(s)
  OBVIOUS
<1>2. s \in SenderRecords /\ n \in Nat
  BY <1>1 DEF SenderSound, SenderRecords
<1>3. r = [s EXCEPT !.delivery = "WAITING_FOR_ACK", !.state = "WAITING_FOR_ACK",
                    !.attempts = n, !.age = 0]
  BY <1>1 DEF S!MarkSent
<1>4. r \in SenderRecords
  BY <1>2, <1>3 DEF SenderRecords, S!SenderStates, S!DeliveryStates
<1>5. /\ r.state = "WAITING_FOR_ACK" /\ r.delivery = "WAITING_FOR_ACK"
      /\ r.tx = s.tx
  BY <1>2, <1>3 DEF SenderRecords
<1>6. r.inFlight => s.inFlight
  BY <1>2, <1>3 DEF SenderRecords
<1> QED
  BY <1>1, <1>4, <1>5, <1>6 DEF Carries, SenderSound

LEMMA SenderCompletesFrame ==
  ASSUME NEW s, SenderSound(s), NEW ok \in BOOLEAN
  PROVE  LET r == S!CompleteFrame(s, ok) IN
         Carries(s, r) /\ r.inFlight = FALSE
<1>1. CASE ~s.inFlight
  BY <1>1, CarriesItself DEF S!CompleteFrame, SenderSound, SenderRecords
<1>2. CASE s.inFlight
  <2>1. PICK done : done = [s EXCEPT !.inFlight = FALSE]
    OBVIOUS
  <2>2. PICK next : next = [done EXCEPT !.index = s.index + 1]
    OBVIOUS
  <2>3. Carries(s, done) /\ done.inFlight = FALSE /\ done.state # "IDLE"
    BY <1>2, <2>1 DEF Carries, SenderSound, SenderRecords
  <2>4. Carries(s, next) /\ next.inFlight = FALSE /\ next.state # "IDLE"
    BY <2>2, <2>3 DEF Carries, SenderSound, SenderRecords
  <2>5. PICK ready : ready = [next EXCEPT !.state = "READY"]
    OBVIOUS
  <2>6. Carries(s, ready) /\ ready.inFlight = FALSE
    BY <2>4, <2>5 DEF Carries, SenderSound, SenderRecords, S!SenderStates
  <2>7. Carries(s, S!MarkSent(done)) /\ S!MarkSent(done).inFlight = FALSE
    BY <2>3, SenderMarks DEF Carries, SenderSound, SenderRecords
  <2>8. Carries(s, S!MarkSent(next)) /\ S!MarkSent(next).inFlight = FALSE
    BY <2>4, SenderMarks DEF Carries, SenderSound, SenderRecords
  <2>9. S!CompleteFrame(s, ok) \in
          {done, next, ready, S!MarkSent(done), S!MarkSent(next)}
    BY <1>2, <2>1, <2>2, <2>5 DEF S!CompleteFrame
  <2> QED
    BY <2>3, <2>4, <2>6, <2>7, <2>8, <2>9
<1> QED
  BY <1>1, <1>2

LEMMA SenderAcceptsAck ==
  ASSUME NEW s, SenderSound(s), NEW tx, NEW sequence, NEW status
  PROVE  Carries(s, S!AcceptAck(s, tx, sequence, status))
BY DEF Carries, SenderSound, SenderRecords, S!AcceptAck, S!AckMatches,
       S!SenderStates, S!DeliveryStates

-----------------------------------------------------------------------------
(* The runtime                                                             *)

DeliveryKeys == [tx : AllTransactions, sequence : Nat]

AckBodies ==
  [tx : AllTransactions, sequence : Nat, status : PeerAckStatuses]

\* What the peer sends, by kind.
PeerMessages ==
  [kind : {"ACK"}, source : {"bootPeer"}, tx : AllTransactions, sequence : Nat,
   count : {1}, ackRequired : {FALSE}, body : AckBodies]
  \cup [kind : {"RESULT"}, source : {"bootPeer"}, tx : AllTransactions,
        sequence : Nat, count : {1}, ackRequired : {TRUE}, body : ResultStatuses]
  \cup [kind : {"COMMAND"}, source : {"bootPeer"}, tx : AllTransactions,
        sequence : Nat, count : {1}, ackRequired : {TRUE}, body : {"command"}]

PeerFrames ==
  [message : PeerMessages, index : {0}, intact : {TRUE}, valid : {TRUE}]

\* What the receive queue holds.
Events ==
  [kind : {"frame"}, frame : PeerFrames]
  \cup [kind : {"PING"}, boot : {"peer"}, sequence : PeerPings]
  \cup [kind : {"PONG"}, boot : {"this", "earlier"}, sequence : Nat]

MessageKeys == [source : {"bootPeer"}, tx : AllTransactions, sequence : Nat]

Buffers ==
  [message : PeerMessages \cup {NoMessage}, received : SUBSET {0},
   damaged : SUBSET {0}]

StagedAcks ==
  [peer : {"peer", "none"}, key : MessageKeys, status : {"ACCEPTED", "DUPLICATE"}]

RuntimeRecords ==
  [buffer : Buffers, assembling : BOOLEAN, activePeer : {"peer", "none"},
   messageReady : BOOLEAN, messagePeer : {"peer", "none"},
   deliveryAck : AckBodies \cup {NoAck}, applicationAck : StagedAcks \cup {NoAck},
   duplicates : Seq(MessageKeys)]

\* A message shown to the endpoint is one the peer sent.
RuntimeSound(r) ==
  /\ r \in RuntimeRecords
  /\ r.messageReady => r.buffer.message \in PeerMessages

\* The reassembler and the take functions keep the runtime sound.
LEMMA EmptyBufferTyped ==
  R!EmptyBuffer \in Buffers
BY DEF R!EmptyBuffer, Buffers

LEMMA RuntimeDrops ==
  ASSUME NEW r, RuntimeSound(r), ~r.messageReady
  PROVE  /\ RuntimeSound(R!DropAssembly(r)) /\ ~R!DropAssembly(r).messageReady
         /\ RuntimeSound(R!Release(r)) /\ ~R!Release(r).messageReady
BY EmptyBufferTyped
DEF RuntimeSound, RuntimeRecords, R!DropAssembly, R!Release

LEMMA RuntimeSwitches ==
  ASSUME NEW r, RuntimeSound(r), ~r.messageReady
  PROVE  /\ RuntimeSound(R!SwitchPeer(r, "peer"))
         /\ ~R!SwitchPeer(r, "peer").messageReady
BY RuntimeDrops DEF R!SwitchPeer

LEMMA RuntimeAssembles ==
  ASSUME NEW r, RuntimeSound(r), ~r.messageReady, NEW f \in PeerFrames
  PROVE  LET q == R!Assemble(r, "peer", f) IN
         /\ RuntimeSound(q) /\ ~q.messageReady
         /\ q.buffer.message \in PeerMessages
<1>1. PICK p : p = IF R!Mismatch(r.buffer, f) THEN R!DropAssembly(r) ELSE r
  OBVIOUS
<1>2. RuntimeSound(p) /\ ~p.messageReady
  BY <1>1, RuntimeDrops
<1>3. PICK b : b = R!StoreFragment(p.buffer, f)
  OBVIOUS
<1>4. b \in Buffers /\ b.message \in PeerMessages
  <2>1. p.buffer \in Buffers
    BY <1>2 DEF RuntimeSound, RuntimeRecords
  <2> QED
    BY <1>3, <2>1 DEF R!StoreFragment, Buffers, PeerFrames
<1>5. PICK a : a = IF p.assembling THEN p.activePeer ELSE "peer"
  OBVIOUS
<1>6. a \in {"peer", "none"}
  BY <1>2, <1>5 DEF RuntimeSound, RuntimeRecords
<1>7. PICK q : q = [p EXCEPT !.buffer = b, !.activePeer = a]
  OBVIOUS
<1>8. q \in RuntimeRecords /\ ~q.messageReady /\ q.buffer = b
  BY <1>2, <1>4, <1>6, <1>7 DEF RuntimeSound, RuntimeRecords
<1>9. q = R!Assemble(r, "peer", f)
  BY <1>1, <1>3, <1>5, <1>7 DEF R!Assemble
<1> QED
  BY <1>4, <1>8, <1>9 DEF RuntimeSound

LEMMA RuntimeTakesAck ==
  ASSUME NEW r, RuntimeSound(r), ~r.messageReady,
         r.buffer.message \in PeerMessages, r.buffer.message.kind = "ACK"
  PROVE  RuntimeSound(R!AcceptDeliveryAck(r))
<1>1. PICK q : q = R!Release(r)
  OBVIOUS
<1>2. RuntimeSound(q) /\ ~q.messageReady
  BY <1>1, RuntimeDrops
<1>3. PICK ack : ack = r.buffer.message.body
  OBVIOUS
<1>4. ack \in AckBodies
  BY <1>3 DEF PeerMessages
<1>5. PICK p : p = [q EXCEPT !.deliveryAck = ack]
  OBVIOUS
<1>6. RuntimeSound(p)
  BY <1>2, <1>4, <1>5 DEF RuntimeSound, RuntimeRecords
<1>7. R!AcceptDeliveryAck(r) \in {p, q}
  BY <1>1, <1>3, <1>5 DEF R!AcceptDeliveryAck
<1> QED
  BY <1>2, <1>6, <1>7

LEMMA CacheTyped ==
  ASSUME NEW c \in Seq(MessageKeys), NEW k \in MessageKeys,
         CacheCapacity \in Nat \ {0}
  PROVE  R!Observe(c, k) \in Seq(MessageKeys)
<1>1. CASE Len(c) < CacheCapacity
  BY <1>1 DEF R!Observe
<1>2. CASE ~(Len(c) < CacheCapacity)
  <2>1. c # <<>>
    BY <1>2
  <2>2. Tail(c) \in Seq(MessageKeys)
    BY <2>1
  <2> QED
    BY <1>2, <2>2 DEF R!Observe
<1> QED
  BY <1>1, <1>2

LEMMA RuntimeTakesMessage ==
  ASSUME NEW r, RuntimeSound(r), ~r.messageReady,
         r.buffer.message \in PeerMessages, CacheCapacity \in Nat \ {0}
  PROVE  RuntimeSound(R!AcceptApplicationMessage(r))
<1>1. PICK q : q = R!Release(r)
  OBVIOUS
<1>2. RuntimeSound(q) /\ ~q.messageReady
  BY <1>1, RuntimeDrops
<1>3. PICK k : k = R!KeyOf(r.buffer.message)
  OBVIOUS
<1>4. k \in MessageKeys
  BY <1>3 DEF R!KeyOf, PeerMessages, MessageKeys
<1>5. PICK d : d = R!Observe(r.duplicates, k)
  OBVIOUS
<1>6. d \in Seq(MessageKeys)
  BY <1>4, <1>5, CacheTyped DEF RuntimeSound, RuntimeRecords
<1>7. PICK a, b : /\ a = [peer |-> r.activePeer, key |-> k, status |-> "ACCEPTED"]
                  /\ b = [peer |-> r.activePeer, key |-> k, status |-> "DUPLICATE"]
  OBVIOUS
<1>8. a \in StagedAcks /\ b \in StagedAcks
  BY <1>4, <1>7 DEF StagedAcks, RuntimeSound, RuntimeRecords
<1>9. PICK p : p = [q EXCEPT !.applicationAck = b]
  OBVIOUS
<1>10. RuntimeSound(p)
  BY <1>2, <1>8, <1>9 DEF RuntimeSound, RuntimeRecords
<1>11. PICK m : m = [r EXCEPT !.messageReady = TRUE, !.messagePeer = r.activePeer,
                              !.duplicates = d]
  OBVIOUS
<1>12. RuntimeSound(m) /\ m.buffer = r.buffer
  BY <1>6, <1>11 DEF RuntimeSound, RuntimeRecords
<1>13. PICK n : n = [m EXCEPT !.applicationAck = a]
  OBVIOUS
<1>14. RuntimeSound(n)
  BY <1>8, <1>12, <1>13 DEF RuntimeSound, RuntimeRecords
<1>15. R!AcceptApplicationMessage(r) \in {q, p, n}
  BY <1>1, <1>3, <1>5, <1>7, <1>9, <1>11, <1>13 DEF R!AcceptApplicationMessage
<1> QED
  BY <1>2, <1>10, <1>14, <1>15

LEMMA RuntimeFinishes ==
  ASSUME NEW r, RuntimeSound(r), ~r.messageReady,
         r.buffer.message \in PeerMessages, CacheCapacity \in Nat \ {0}
  PROVE  RuntimeSound(R!Finish(r))
<1>1. PICK t, q : /\ t = [r EXCEPT !.assembling = TRUE]
                  /\ q = [r EXCEPT !.assembling = FALSE]
  OBVIOUS
<1>2. RuntimeSound(t)
  BY <1>1 DEF RuntimeSound, RuntimeRecords
<1>3. RuntimeSound(q) /\ ~q.messageReady /\ q.buffer.message \in PeerMessages
  BY <1>1 DEF RuntimeSound, RuntimeRecords
<1>4. RuntimeSound(R!Release(q))
  BY <1>3, RuntimeDrops
<1>5. q.buffer.message.kind = "ACK" => RuntimeSound(R!AcceptDeliveryAck(q))
  BY <1>3, RuntimeTakesAck
<1>6. RuntimeSound(R!AcceptApplicationMessage(q))
  BY <1>3, RuntimeTakesMessage
<1> QED
  BY <1>1, <1>2, <1>4, <1>5, <1>6 DEF R!Finish

\* A frame of the peer reaches the runtime.
LEMMA RuntimeAccepts ==
  ASSUME NEW r, RuntimeSound(r), NEW f \in PeerFrames, CacheCapacity \in Nat \ {0}
  PROVE  RuntimeSound(R!Accept(r, "peer", f))
<1>1. CASE R!Holding(r)
  BY <1>1 DEF R!Accept
<1>2. CASE ~R!Holding(r)
  <2>1. ~r.messageReady
    BY <1>2 DEF R!Holding
  <2>2. PICK s : s = R!SwitchPeer(r, "peer")
    OBVIOUS
  <2>3. RuntimeSound(s) /\ ~s.messageReady
    BY <2>1, <2>2, RuntimeSwitches
  <2>4. PICK q : q = R!Assemble(s, "peer", f)
    OBVIOUS
  <2>5. RuntimeSound(q) /\ ~q.messageReady /\ q.buffer.message \in PeerMessages
    BY <2>3, <2>4, RuntimeAssembles
  <2>6. RuntimeSound(R!Finish(q))
    BY <2>5, RuntimeFinishes
  <2> QED
    BY <1>2, <2>2, <2>4, <2>6 DEF R!Accept, PeerFrames
<1> QED
  BY <1>1, <1>2

LEMMA RuntimeTakes ==
  ASSUME NEW r, RuntimeSound(r)
  PROVE  /\ RuntimeSound(R!TakeDeliveryAck(r))
         /\ RuntimeSound(R!TakeApplicationAck(r))
         /\ RuntimeSound(R!TakeApplicationMessage(r))
<1>1. RuntimeSound(R!TakeDeliveryAck(r))
  BY DEF R!TakeDeliveryAck, RuntimeSound, RuntimeRecords
<1>2. RuntimeSound(R!TakeApplicationAck(r))
  BY DEF R!TakeApplicationAck, RuntimeSound, RuntimeRecords
<1>3. PICK q : q = R!Release(r)
  OBVIOUS
<1>4. q \in RuntimeRecords
  BY <1>3, EmptyBufferTyped DEF R!Release, RuntimeSound, RuntimeRecords
<1>5. PICK p : p = [q EXCEPT !.messageReady = FALSE]
  OBVIOUS
<1>6. RuntimeSound(p)
  BY <1>4, <1>5 DEF RuntimeSound, RuntimeRecords
<1>7. p = R!TakeApplicationMessage(r)
  BY <1>3, <1>5 DEF R!TakeApplicationMessage
<1> QED
  BY <1>1, <1>2, <1>6, <1>7

-----------------------------------------------------------------------------
(* The heartbeat                                                           *)

Hearts ==
  [pending : Nat, age : Nat, since : Nat, sequence : Nat, reply : Nat,
   replyAge : Nat, sent : Nat, ok : Nat, lost : Nat, errors : Nat,
   dropped : Nat, credited : SUBSET Nat]

HeartSound(h) == h \in Hearts /\ H!Balanced(h)

LEMMA HeartInitial == HeartSound(H!InitialHeart) /\ H!InitialHeart.credited = {}
BY DEF HeartSound, Hearts, H!InitialHeart, H!Balanced

\* Every method keeps the count balanced, and only a PONG is credited.
LEMMA HeartExpires ==
  ASSUME NEW h, HeartSound(h)
  PROVE  LET g == H!TickExpired(h) IN HeartSound(g) /\ g.credited = h.credited
<1>1. PICK e : e = H!ExpireExchange(h)
  OBVIOUS
<1>2. HeartSound(e) /\ e.credited = h.credited
  <2>1. CASE H!Expired(h)
    <3>1. PICK n : n = h.lost + 1
      OBVIOUS
    <3>2. e = [h EXCEPT !.pending = 0, !.age = 0, !.lost = n]
      BY <1>1, <2>1, <3>1 DEF H!ExpireExchange
    <3>3. h \in Hearts /\ n \in Nat /\ h.pending # 0
      BY <2>1, <3>1 DEF HeartSound, Hearts, H!Expired
    <3>4. e \in Hearts
      BY <3>2, <3>3 DEF Hearts
    <3>5. /\ e.credited = h.credited /\ e.sent = h.sent /\ e.pending = 0
          /\ e.ok = h.ok /\ e.lost = n /\ e.errors = h.errors
          /\ e.dropped = h.dropped
      BY <3>2, <3>3 DEF Hearts
    <3> QED
      BY <3>1, <3>3, <3>4, <3>5 DEF HeartSound, Hearts, H!Balanced
  <2>2. CASE ~H!Expired(h)
    BY <1>1, <2>2 DEF H!ExpireExchange
  <2> QED
    BY <2>1, <2>2
<1>3. PICK g : g = H!ExpireReply(e)
  OBVIOUS
<1>4. HeartSound(g) /\ g.credited = e.credited
  BY <1>2, <1>3 DEF HeartSound, Hearts, H!Balanced, H!ExpireReply
<1> QED
  BY <1>1, <1>2, <1>3, <1>4 DEF H!TickExpired

LEMMA HeartReplies ==
  ASSUME NEW h, HeartSound(h)
  PROVE  LET g == H!TakeReply(h) IN HeartSound(g) /\ g.credited = h.credited
BY DEF HeartSound, Hearts, H!Balanced, H!TakeReply

LEMMA HeartPings ==
  ASSUME NEW h, HeartSound(h), H!PingDue(h)
  PROVE  /\ LET g == H!Pinged(h) IN
            HeartSound(g) /\ g.credited = h.credited /\ g.pending \in Nat
         /\ LET g == H!PingRefused(h) IN
            HeartSound(g) /\ g.credited = h.credited
<1>1. PICK a : a = H!PingAttempt(h)
  OBVIOUS
<1>2. /\ a \in Hearts /\ a.credited = h.credited /\ a.sent = h.sent + 1
      /\ a.pending = h.pending /\ a.ok = h.ok /\ a.lost = h.lost
      /\ a.errors = h.errors /\ a.dropped = h.dropped
  <2>1. PICK m, n : m = h.sequence + 1 /\ n = h.sent + 1
    OBVIOUS
  <2>2. a = [h EXCEPT !.since = 0, !.sequence = m, !.sent = n]
    BY <1>1, <2>1 DEF H!PingAttempt
  <2>3. h \in Hearts /\ m \in Nat /\ n \in Nat
    BY <2>1 DEF HeartSound, Hearts
  <2>4. a \in Hearts
    BY <2>2, <2>3 DEF Hearts
  <2> QED
    BY <2>1, <2>2, <2>3, <2>4 DEF Hearts
<1>3. PICK g : g = [a EXCEPT !.pending = h.sequence + 1, !.age = 0]
  OBVIOUS
<1>4. h.sequence + 1 \in Nat \ {0} /\ h.pending = 0
  BY DEF HeartSound, Hearts, H!PingDue
<1>5. /\ g \in Hearts /\ g.credited = a.credited /\ g.sent = a.sent
      /\ g.pending = h.sequence + 1 /\ g.ok = a.ok /\ g.lost = a.lost
      /\ g.errors = a.errors /\ g.dropped = a.dropped
  BY <1>2, <1>3, <1>4 DEF Hearts
<1>6. HeartSound(g)
  BY <1>2, <1>4, <1>5 DEF HeartSound, Hearts, H!Balanced
<1>7. g = H!Pinged(h)
  BY <1>1, <1>3 DEF H!Pinged
<1>8. PICK e : e = [a EXCEPT !.errors = @ + 1]
  OBVIOUS
<1>9. /\ e \in Hearts /\ e.credited = a.credited /\ e.sent = a.sent
      /\ e.pending = a.pending /\ e.ok = a.ok /\ e.lost = a.lost
      /\ e.errors = a.errors + 1 /\ e.dropped = a.dropped
  BY <1>2, <1>8 DEF Hearts
<1>10. HeartSound(e)
  BY <1>2, <1>4, <1>9 DEF HeartSound, Hearts, H!Balanced
<1>11. e = H!PingRefused(h)
  BY <1>1, <1>8 DEF H!PingRefused
<1> QED
  BY <1>2, <1>4, <1>5, <1>6, <1>7, <1>9, <1>10, <1>11

LEMMA HeartAbandons ==
  ASSUME NEW h, HeartSound(h)
  PROVE  LET g == H!Abandon(h) IN HeartSound(g) /\ g.credited = h.credited
<1>1. PICK n, g : /\ n = h.dropped + (IF h.pending = 0 THEN 0 ELSE 1)
                  /\ g = H!Abandon(h)
  OBVIOUS
<1>2. g = [h EXCEPT !.pending = 0, !.age = 0, !.reply = 0, !.replyAge = 0,
                    !.dropped = n]
  BY <1>1 DEF H!Abandon
<1>3. h \in Hearts /\ n \in Nat
  BY <1>1 DEF HeartSound, Hearts
<1>4. g \in Hearts
  BY <1>2, <1>3 DEF Hearts
<1>5. /\ g.credited = h.credited /\ g.sent = h.sent /\ g.pending = 0
      /\ g.ok = h.ok /\ g.lost = h.lost /\ g.errors = h.errors /\ g.dropped = n
  BY <1>2, <1>3 DEF Hearts
<1> QED
  BY <1>1, <1>3, <1>4, <1>5 DEF HeartSound, Hearts, H!Balanced

LEMMA HeartElapses ==
  ASSUME NEW h, HeartSound(h)
  PROVE  LET g == H!Elapse(h) IN HeartSound(g) /\ g.credited = h.credited
<1>1. PICK a, b, c, g :
        /\ a = IF h.pending = 0 THEN 0 ELSE H!Upto(HeartbeatTimeout, h.age)
        /\ b = IF h.reply = 0 THEN 0 ELSE H!Upto(HeartbeatTimeout, h.replyAge)
        /\ c = H!Upto(HeartbeatInterval, h.since)
        /\ g = H!Elapse(h)
  OBVIOUS
<1>2. g = [h EXCEPT !.age = a, !.replyAge = b, !.since = c]
  BY <1>1 DEF H!Elapse
<1>3. h \in Hearts /\ a \in Nat /\ b \in Nat /\ c \in Nat
  BY <1>1 DEF HeartSound, Hearts, H!Upto
<1>4. g \in Hearts
  BY <1>2, <1>3 DEF Hearts
<1>5. /\ g.credited = h.credited /\ g.sent = h.sent /\ g.pending = h.pending
      /\ g.ok = h.ok /\ g.lost = h.lost /\ g.errors = h.errors
      /\ g.dropped = h.dropped
  BY <1>2, <1>3 DEF Hearts
<1> QED
  BY <1>1, <1>4, <1>5 DEF HeartSound, H!Balanced

\* A packet is credited only to the PING it names.
LEMMA HeartReceives ==
  ASSUME NEW h, HeartSound(h), NEW packet \in Events, packet.kind # "frame"
  PROVE  LET g == H!Receive(h, packet) IN
         /\ HeartSound(g)
         /\ \/ g.credited = h.credited
            \/ /\ packet.kind = "PONG" /\ packet.boot = "this"
               /\ g.credited = h.credited \cup {packet.sequence}
<1>1. packet.sequence \in Nat
  BY EndpointAssumption DEF Events
<1>2. CASE packet.kind = "PING" /\ h.reply = 0
  BY <1>1, <1>2 DEF HeartSound, Hearts, H!Balanced, H!Receive
<1>3. CASE packet.kind = "PONG" /\ H!Answers(h, packet)
  <2>1. PICK n, c, g : /\ n = h.ok + 1 /\ c = h.credited \cup {h.pending}
                       /\ g = H!Receive(h, packet)
    OBVIOUS
  <2>2. g = [h EXCEPT !.pending = 0, !.age = 0, !.ok = n, !.credited = c]
    BY <1>3, <2>1 DEF H!Receive
  <2>3. /\ h \in Hearts /\ n \in Nat /\ c \in SUBSET Nat
        /\ h.pending # 0 /\ packet.boot = "this" /\ packet.sequence = h.pending
    BY <1>3, <2>1 DEF HeartSound, Hearts, H!Answers
  <2>4. g \in Hearts
    BY <2>2, <2>3 DEF Hearts
  <2>5. /\ g.credited = c /\ g.sent = h.sent /\ g.pending = 0
        /\ g.ok = n /\ g.lost = h.lost /\ g.errors = h.errors
        /\ g.dropped = h.dropped
    BY <2>2, <2>3 DEF Hearts
  <2>6. HeartSound(g)
    BY <2>1, <2>3, <2>4, <2>5 DEF HeartSound, Hearts, H!Balanced
  <2> QED
    BY <1>3, <2>1, <2>3, <2>5, <2>6
<1>4. CASE /\ ~(packet.kind = "PING" /\ h.reply = 0)
           /\ ~(packet.kind = "PONG" /\ H!Answers(h, packet))
  BY <1>4 DEF H!Receive
<1> QED
  BY <1>2, <1>3, <1>4

-----------------------------------------------------------------------------
(* The invariant                                                           *)

ClientStates == {"IDLE", "WAITING_FOR_DELIVERY_ACK", "WAITING_FOR_RESULT"}

ClientRecords ==
  [state : ClientStates, tx : Commands \cup {NoTransaction}, age : Nat,
   external : BOOLEAN]

\* The client the sender works for is the one that waits for a delivery ACK.
Assigned ==
  /\ messageOwner = "NONE" <=> sender.state = "IDLE"
  /\ messageOwner = "COMMAND_CLIENT" =>
       /\ clients[senderSlot].state = "WAITING_FOR_DELIVERY_ACK"
       /\ sender.tx = clients[senderSlot].tx
  /\ \A s \in Slots : clients[s].state = "WAITING_FOR_DELIVERY_ACK" =>
       messageOwner = "COMMAND_CLIENT" /\ senderSlot = s
  /\ background.ready => messageOwner # "BACKGROUND_RESULT"

Owning ==
  /\ SenderSound(sender) /\ senderSlot \in Slots
  /\ clients \in [Slots -> ClientRecords]
  /\ background \in [tx : AllTransactions, ready : BOOLEAN,
                     used : SUBSET AllTransactions]
  /\ Assigned

Dispatchers ==
  [state : {"IDLE", "ACTIVE", "RESULT_READY"}, tx : AllTransactions,
   terminal : BOOLEAN]

RadioOwners == {"ACK", "SENDER", "HEARTBEAT"}
Completions == [for : RadioOwners, ok : BOOLEAN]

\* Everything from the peer is of a kind the peer sends, and every callback of
\* the driver is for a frame it was given.
Receiving ==
  /\ aired \subseteq DeliveryKeys /\ rx \in Seq(Events)
  /\ results \subseteq PeerMessages /\ IsFiniteSet(results)
  /\ commands \subseteq PeerMessages
  /\ airborne \in Seq(RadioOwners) /\ completions \in Seq(Completions)
  /\ RuntimeSound(runtime)
  /\ dispatcher \in Dispatchers

\* A PONG of this boot that is on its way was sent by the peer.
Genuine(queue, answered) ==
  \A i \in DOMAIN queue : queue[i].kind = "PONG" /\ queue[i].boot = "this" =>
    queue[i].sequence \in answered

Beating ==
  /\ HeartSound(heart)
  /\ beats \in [pinged : SUBSET Nat, answered : SUBSET Nat]
  /\ heart.credited \subseteq beats.answered
  /\ Genuine(rx, beats.answered)

Notifications ==
  [tx : Commands, status : ResultStatuses \cup {"FAILED"}, started : BOOLEAN]

\* A client that is busy works on a command of its own that is not over.
Busy(s) == clients[s].state # "IDLE"
Working ==
  /\ \A s \in Slots : Busy(s) =>
       clients[s].tx \in Commands /\ ended[clients[s].tx] = "none"
  /\ \A s, t \in Slots :
       Busy(s) /\ Busy(t) /\ clients[s].tx = clients[t].tx => s = t

Reporting ==
  /\ notification \in Notifications \cup {NoMessage}
  /\ ended \in [Commands -> {"none", "failed", "result", "cancelled"}]
  /\ told \in [Commands -> Nat]
  /\ Working
  /\ OneTerminalReport
  /\ DecodedResultReported

\* One frame is with the driver or its completion waits, or neither.
Outstanding ==
  \/ radioOwner = "NONE" /\ airborne = <<>> /\ completions = <<>>
  \/ radioOwner \in RadioOwners /\ airborne = <<radioOwner>> /\ completions = <<>>
  \/ /\ radioOwner \in RadioOwners /\ airborne = <<>>
     /\ \E ok \in BOOLEAN : completions = <<[for |-> radioOwner, ok |-> ok]>>

Transmitting ==
  enabled /\ Outstanding /\ (sender.inFlight => radioOwner = "SENDER")

EndpointInv == Owning /\ Receiving /\ Beating /\ Reporting

-----------------------------------------------------------------------------
(* Who owns the sender                                                     *)

IdleClientTyped == IdleClient \in ClientRecords /\ IdleClient.state = "IDLE"

LEMMA IdleClientOK == IdleClientTyped
BY DEF IdleClientTyped, IdleClient, ClientRecords, ClientStates

\* The sender goes on with its message, and the same clients wait for it.
LEMMA OwningKept ==
  ASSUME Owning, SenderSound(sender'), sender'.tx = sender.tx,
         sender'.state = "IDLE" <=> sender.state = "IDLE",
         UNCHANGED <<messageOwner, senderSlot, background>>,
         clients' \in [Slots -> ClientRecords],
         \A s \in Slots :
           clients'[s].state = "WAITING_FOR_DELIVERY_ACK"
             <=> clients[s].state = "WAITING_FOR_DELIVERY_ACK",
         \A s \in Slots : clients[s].state = "WAITING_FOR_DELIVERY_ACK" =>
           clients'[s].tx = clients[s].tx
  PROVE  Owning'
BY DEF Owning, Assigned

LEMMA OwningCarried ==
  ASSUME Owning, Carries(sender, sender'),
         UNCHANGED <<messageOwner, senderSlot, background, clients>>
  PROVE  Owning'
BY DEF Owning, Assigned, Carries

LEMMA OwningUnchanged ==
  ASSUME Owning,
         UNCHANGED <<sender, messageOwner, senderSlot, background, clients>>
  PROVE  Owning'
BY DEF Owning, Assigned

\* A client that does not wait for the sender is freed.
LEMMA OwningFreed ==
  ASSUME Owning, NEW slot \in Slots,
         clients[slot].state # "WAITING_FOR_DELIVERY_ACK",
         clients' = [clients EXCEPT ![slot] = IdleClient],
         UNCHANGED <<sender, messageOwner, senderSlot, background>>
  PROVE  Owning'
<1>1. clients' \in [Slots -> ClientRecords]
  BY IdleClientOK DEF IdleClientTyped, Owning
<1>2. \A s \in Slots : clients'[s] = IF s = slot THEN IdleClient ELSE clients[s]
  BY DEF Owning
<1> QED
  BY <1>1, <1>2, OwningKept, IdleClientOK DEF IdleClientTyped, Owning

LEMMA OwningStartCommand ==
  ASSUME Owning, NEW tx \in Commands, StartCommand(tx)
  PROVE  Owning'
<1>1. PICK slot : slot = IF clients[0].state = "IDLE" THEN 0 ELSE 1
  OBVIOUS
<1>2. PICK c : c = [state |-> "WAITING_FOR_DELIVERY_ACK", tx |-> tx, age |-> 0,
                    external |-> FALSE]
  OBVIOUS
<1>3. slot \in Slots
  BY <1>1, EndpointAssumption DEF StartCommand, CanStartCommand
<1>4. c \in ClientRecords /\ c.state = "WAITING_FOR_DELIVERY_ACK" /\ c.tx = tx
  BY <1>2 DEF ClientRecords, ClientStates
<1>5. clients' = [clients EXCEPT ![slot] = c] /\ senderSlot' = slot
  BY <1>1, <1>2 DEF StartCommand
<1>6. clients' \in [Slots -> ClientRecords]
  BY <1>4, <1>5 DEF Owning
<1>7. \A s \in Slots : clients'[s] = IF s = slot THEN c ELSE clients[s]
  BY <1>5 DEF Owning
<1>8. SenderSound(sender') /\ sender'.tx = tx /\ sender'.state # "IDLE"
  <2>1. sender' = S!Start(sender, "peer", "COMMAND", tx, 1)
    BY DEF StartCommand
  <2>2. tx \in AllTransactions /\ SenderSound(sender)
    BY DEF Owning, AllTransactions
  <2> QED
    BY <2>1, <2>2, SenderStarts
<1>9. \A s \in Slots : clients[s].state # "WAITING_FOR_DELIVERY_ACK"
  BY DEF StartCommand, CanStartCommand, Owning, Assigned
<1>10. messageOwner' = "COMMAND_CLIENT" /\ background' = background
  BY DEF StartCommand
<1> QED
  BY <1>3, <1>4, <1>5, <1>6, <1>7, <1>8, <1>9, <1>10 DEF Owning, Assigned

LEMMA OwningCancelCommand ==
  ASSUME Owning, NEW slot \in Slots, CancelCommand(slot)
  PROVE  Owning'
<1>1. CASE messageOwner = "COMMAND_CLIENT" /\ senderSlot = slot
  <2>1. SenderSound(sender') /\ sender'.state = "IDLE"
    BY <1>1, SenderResets DEF CancelCommand, CancelSlot, Owning
  <2>2. /\ messageOwner' = "NONE" /\ UNCHANGED <<senderSlot, background>>
        /\ clients' = [clients EXCEPT ![slot] = IdleClient]
    BY <1>1 DEF CancelCommand, CancelSlot
  <2>3. clients' \in [Slots -> ClientRecords]
    BY <2>2, IdleClientOK DEF IdleClientTyped, Owning
  <2>4. \A s \in Slots : clients'[s].state # "WAITING_FOR_DELIVERY_ACK"
    BY <1>1, <2>2, IdleClientOK DEF IdleClientTyped, Owning, Assigned
  <2> QED
    BY <2>1, <2>2, <2>3, <2>4 DEF Owning, Assigned
<1>2. CASE ~(messageOwner = "COMMAND_CLIENT" /\ senderSlot = slot)
  BY <1>2, OwningFreed DEF CancelCommand, CancelSlot, Owning, Assigned
<1> QED
  BY <1>1, <1>2

LEMMA OwningUseExternalDeadline ==
  ASSUME Owning, NEW slot \in Slots, UseExternalDeadline(slot)
  PROVE  Owning'
<1>1. PICK c : c = [clients[slot] EXCEPT !.external = TRUE]
  OBVIOUS
<1>2. c \in ClientRecords /\ c.state = clients[slot].state /\ c.tx = clients[slot].tx
  BY <1>1 DEF Owning, ClientRecords
<1>3. clients' = [clients EXCEPT ![slot] = c]
  BY <1>1 DEF UseExternalDeadline
<1>4. clients' \in [Slots -> ClientRecords]
  BY <1>2, <1>3 DEF Owning
<1>5. \A s \in Slots : clients'[s] = IF s = slot THEN c ELSE clients[s]
  BY <1>3 DEF Owning
<1> QED
  BY <1>2, <1>4, <1>5, OwningKept DEF UseExternalDeadline, Owning

\* The calls of the background lane and of the API caller.
LEMMA OwningOtherLanes ==
  ASSUME Owning,
         \/ \E tx \in Background : StartBackground(tx)
         \/ TakeBackground
         \/ \E tx \in Raw : StartReliable(tx)
         \/ ResetSender
  PROVE  Owning'
<1>1. CASE TakeBackground
  BY <1>1 DEF TakeBackground, Owning, Assigned, AllTransactions
<1>2. ASSUME NEW tx \in Background, StartBackground(tx) PROVE Owning'
  <2>1. SenderSound(sender') /\ sender'.state # "IDLE"
    BY <1>2, SenderStarts DEF StartBackground, Owning, AllTransactions
  <2>2. \A s \in Slots : clients[s].state # "WAITING_FOR_DELIVERY_ACK"
    BY <1>2 DEF StartBackground, Owning, Assigned
  <2>3. /\ messageOwner' = "BACKGROUND_RESULT" /\ ~background'.ready
        /\ background' \in [tx : AllTransactions, ready : BOOLEAN,
                            used : SUBSET AllTransactions]
    BY <1>2 DEF StartBackground, Owning, AllTransactions
  <2> QED
    BY <1>2, <2>1, <2>2, <2>3 DEF StartBackground, Owning, Assigned
<1>3. ASSUME NEW tx \in Raw, StartReliable(tx) PROVE Owning'
  <2>1. SenderSound(sender') /\ sender'.state # "IDLE"
    BY <1>3, SenderStarts DEF StartReliable, Owning, AllTransactions
  <2>2. \A s \in Slots : clients[s].state # "WAITING_FOR_DELIVERY_ACK"
    BY <1>3 DEF StartReliable, Owning, Assigned
  <2>3. /\ messageOwner' = "API_CALLER"
        /\ background' \in [tx : AllTransactions, ready : BOOLEAN,
                            used : SUBSET AllTransactions]
    BY <1>3 DEF StartReliable, Owning, AllTransactions
  <2> QED
    BY <1>3, <2>1, <2>2, <2>3 DEF StartReliable, Owning, Assigned
<1>4. CASE ResetSender
  <2>1. SenderSound(sender') /\ sender'.state = "IDLE"
    BY <1>4, SenderResets DEF ResetSender, Owning
  <2> QED
    BY <1>4, <2>1 DEF ResetSender, Owning, Assigned
<1> QED
  BY <1>1, <1>2, <1>3, <1>4

LEMMA OwningDisable ==
  ASSUME Owning, Disable
  PROVE  Owning'
<1>1. SenderSound(sender') /\ sender'.state = "IDLE" /\ messageOwner' = "NONE"
  BY SenderResets DEF Disable, Owning
<1>2. clients' = [s \in Slots |-> IdleClient] /\ senderSlot' = senderSlot
  BY DEF Disable
<1>3. /\ background' \in [tx : AllTransactions, ready : BOOLEAN,
                          used : SUBSET AllTransactions]
      /\ ~background'.ready
  BY DEF Disable, Owning, AllTransactions
<1> QED
  BY <1>1, <1>2, <1>3, IdleClientOK DEF IdleClientTyped, Owning, Assigned

\* The steps of loop() that concern the sender.
LEMMA OwningSenderSteps ==
  ASSUME Owning,
         \/ ProcessSendCompletion
         \/ ProcessReceivedFrame
         \/ SenderLoop
         \/ DispatchSenderFrame,
         completions # <<>> => Head(completions).ok \in BOOLEAN
  PROVE  Owning'
<1>1. CASE ProcessSendCompletion
  <2>1. Carries(sender, sender')
    BY <1>1, SenderCompletesFrame, CarriesItself
    DEF ProcessSendCompletion, Owning
  <2> QED
    BY <1>1, <2>1, OwningCarried DEF ProcessSendCompletion
<1>2. CASE ProcessReceivedFrame
  <2>1. sender' = sender \/ \E tx, sequence, status :
          sender' = S!AcceptAck(sender, tx, sequence, status)
    BY <1>2 DEF ProcessReceivedFrame
  <2>2. Carries(sender, sender')
    BY <2>1, SenderAcceptsAck, CarriesItself DEF Owning
  <2> QED
    BY <1>2, <2>2, OwningCarried DEF ProcessReceivedFrame
<1>3. CASE SenderLoop
  <2>1. Carries(sender, sender')
    BY <1>3, SenderLoops DEF SenderLoop, Owning
  <2> QED
    BY <1>3, <2>1, OwningCarried DEF SenderLoop
<1>4. CASE DispatchSenderFrame
  <2>1. UNCHANGED <<messageOwner, senderSlot, background, clients>>
    BY <1>4 DEF DispatchSenderFrame
  <2>2. CASE radioOwner = "NONE" /\ S!CanTakeFrame(sender)
    <3>1. PICK t : t = S!TakeFrame(sender)
      OBVIOUS
    <3>2. /\ SenderSound(t) /\ t.tx = sender.tx /\ t.state # "IDLE"
          /\ sender.state # "IDLE"
      BY <2>2, <3>1, SenderTakesFrame DEF Owning
    <3>3. Carries(t, S!CompleteFrame(t, FALSE))
      BY <3>2, SenderCompletesFrame
    <3>4. sender' = t \/ sender' = S!CompleteFrame(t, FALSE)
      BY <1>4, <2>2, <3>1 DEF DispatchSenderFrame
    <3>5. SenderSound(sender') /\ sender'.tx = sender.tx /\ sender'.state # "IDLE"
      BY <3>2, <3>3, <3>4 DEF Carries
    <3> QED
      BY <2>1, <3>2, <3>5 DEF Owning, Assigned
  <2>3. CASE ~(radioOwner = "NONE" /\ S!CanTakeFrame(sender))
    BY <1>4, <2>1, <2>3, OwningUnchanged DEF DispatchSenderFrame
  <2> QED
    BY <2>2, <2>3
<1> QED
  BY <1>1, <1>2, <1>3, <1>4

\* matching_command_client_ finds a client that is past its delivery ACK.
LEMMA MatchingSlot ==
  ASSUME NEW tx, Matching(tx) # {}
  PROVE  LET slot == CHOOSE s \in Matching(tx) : \A t \in Matching(tx) : s <= t
         IN  /\ slot \in Slots /\ clients[slot].state = "WAITING_FOR_RESULT"
             /\ clients[slot].tx = tx
<1>1. \A s \in Matching(tx) : s \in {0, 1}
  BY EndpointAssumption DEF Matching
<1>2. \E s \in Matching(tx) : \A t \in Matching(tx) : s <= t
  <2>1. CASE 0 \in Matching(tx)
    BY <1>1, <2>1
  <2>2. CASE 0 \notin Matching(tx)
    BY <1>1, <2>2
  <2> QED
    BY <2>1, <2>2
<1>3. PICK slot : slot = CHOOSE s \in Matching(tx) : \A t \in Matching(tx) : s <= t
  OBVIOUS
<1>4. slot \in Matching(tx)
  BY <1>2, <1>3
<1> QED
  BY <1>3, <1>4 DEF Matching

\* The steps of loop() that may end a command that is past its delivery ACK.
LEMMA OwningClientSteps ==
  ASSUME Owning, ProcessApplicationMessage \/ FunctionalTimeouts
  PROVE  Owning'
<1>1. CASE ProcessApplicationMessage
  <2>1. UNCHANGED <<sender, messageOwner, senderSlot, background>>
    BY <1>1 DEF ProcessApplicationMessage
  <2>2. \/ UNCHANGED clients
        \/ \E slot \in Slots :
             /\ clients[slot].state = "WAITING_FOR_RESULT"
             /\ clients' = [clients EXCEPT ![slot] = IdleClient]
    <3>1. CASE runtime.messageReady /\ ~MustHold
      <4>1. Consume
        BY <1>1, <3>1 DEF ProcessApplicationMessage
      <4>2. CASE Held.kind = "COMMAND"
        BY <4>1, <4>2 DEF Consume
      <4>3. CASE Held.kind # "COMMAND" /\ ~(Held.kind = "RESULT" /\ Matching(Held.tx) # {})
        BY <4>1, <4>3 DEF Consume
      <4>4. CASE Held.kind = "RESULT" /\ Matching(Held.tx) # {}
        <5>1. PICK slot : slot = CHOOSE s \in Matching(Held.tx) :
                                   \A t \in Matching(Held.tx) : s <= t
          OBVIOUS
        <5>2. slot \in Slots /\ clients[slot].state = "WAITING_FOR_RESULT"
          BY <4>4, <5>1, MatchingSlot
        <5>3. ClientResult(slot, Held.body)
          BY <4>1, <4>4, <5>1 DEF Consume
        <5>4. UNCHANGED clients \/ clients' = [clients EXCEPT ![slot] = IdleClient]
          BY <5>3 DEF ClientResult, Fail, Finish
        <5> QED
          BY <5>2, <5>4
      <4> QED
        BY <4>2, <4>3, <4>4
    <3>2. CASE ~(runtime.messageReady /\ ~MustHold)
      BY <1>1, <3>2 DEF ProcessApplicationMessage
    <3> QED
      BY <3>1, <3>2
  <2> QED
    BY <2>1, <2>2, OwningUnchanged, OwningFreed
<1>2. CASE FunctionalTimeouts
  <2>1. PICK slot, next : FunctionalTimeout(slot, next)
    BY <1>2 DEF FunctionalTimeouts
  <2>2. UNCHANGED <<sender, messageOwner, senderSlot, background>>
    BY <2>1 DEF FunctionalTimeout
  <2>3. \/ UNCHANGED clients
        \/ /\ slot \in Slots /\ clients[slot].state = "WAITING_FOR_RESULT"
           /\ clients' = [clients EXCEPT ![slot] = IdleClient]
    BY <2>1 DEF FunctionalTimeout, Fail, Finish
  <2> QED
    BY <2>2, <2>3, OwningUnchanged, OwningFreed
<1> QED
  BY <1>1, <1>2

\* process_owned_sender_completion_
LEMMA OwningCompletion ==
  ASSUME Owning, OwnedSenderCompletion
  PROVE  Owning'
<1>1. CASE S!Terminal(sender) /\ messageOwner \notin {"NONE", "API_CALLER"}
  <2>1. SenderSound(sender') /\ sender'.state = "IDLE" /\ messageOwner' = "NONE"
    BY <1>1, SenderResets DEF OwnedSenderCompletion, Owning
  <2>2. senderSlot' = senderSlot /\ senderSlot \in Slots
    BY DEF OwnedSenderCompletion, Owning
  <2>3. background' \in [tx : AllTransactions, ready : BOOLEAN,
                         used : SUBSET AllTransactions]
    <3>1. background' = background \/ background' = [background EXCEPT !.ready = TRUE]
      BY DEF OwnedSenderCompletion
    <3> QED
      BY <3>1 DEF Owning
  <2>4. /\ clients' \in [Slots -> ClientRecords]
        /\ \A s \in Slots : clients'[s].state # "WAITING_FOR_DELIVERY_ACK"
    <3>1. CASE messageOwner = "COMMAND_CLIENT"
      <4>1. PICK c : c = [clients[senderSlot] EXCEPT !.state = "WAITING_FOR_RESULT"]
        OBVIOUS
      <4>2. c \in ClientRecords /\ c.state = "WAITING_FOR_RESULT"
        BY <2>2, <4>1 DEF Owning, ClientRecords, ClientStates
      <4>3. \/ clients' = [clients EXCEPT ![senderSlot] = c]
            \/ clients' = [clients EXCEPT ![senderSlot] = IdleClient]
        BY <1>1, <3>1, <4>1 DEF OwnedSenderCompletion, Fail, Finish
      <4>4. \A s \in Slots : s # senderSlot =>
              clients[s].state # "WAITING_FOR_DELIVERY_ACK"
        BY DEF Owning, Assigned
      <4> QED
        BY <2>2, <4>2, <4>3, <4>4, IdleClientOK DEF IdleClientTyped, Owning
    <3>2. CASE messageOwner # "COMMAND_CLIENT"
      BY <3>2 DEF OwnedSenderCompletion, Owning, Assigned
    <3> QED
      BY <3>1, <3>2
  <2> QED
    BY <2>1, <2>2, <2>3, <2>4 DEF Owning, Assigned
<1>2. CASE ~(S!Terminal(sender) /\ messageOwner \notin {"NONE", "API_CALLER"})
  BY <1>2, OwningUnchanged DEF OwnedSenderCompletion
<1> QED
  BY <1>1, <1>2

LEMMA OwningProcessDispatcher ==
  ASSUME Owning, Receiving, ProcessDispatcher
  PROVE  Owning'
<1>1. CASE /\ messageOwner = "NONE" /\ sender.state = "IDLE"
           /\ dispatcher.state = "RESULT_READY"
  <2>1. /\ sender' = S!Start(sender, "peer", "RESULT", dispatcher.tx, 1)
        /\ messageOwner' = "DISPATCHER_RESULT"
    BY <1>1 DEF ProcessDispatcher
  <2>2. dispatcher.tx \in AllTransactions
    BY DEF Receiving, Dispatchers
  <2>3. SenderSound(sender') /\ sender'.state # "IDLE"
    BY <2>1, <2>2, SenderStarts DEF Owning
  <2>4. UNCHANGED <<senderSlot, clients, background>>
    BY DEF ProcessDispatcher
  <2> QED
    BY <1>1, <2>1, <2>3, <2>4 DEF Owning, Assigned
<1>2. CASE ~(/\ messageOwner = "NONE" /\ sender.state = "IDLE"
             /\ dispatcher.state = "RESULT_READY")
  BY <1>2, OwningUnchanged DEF ProcessDispatcher
<1> QED
  BY <1>1, <1>2

LEMMA OwningTick ==
  ASSUME Owning, Tick
  PROVE  Owning'
<1>1. Carries(sender, sender')
  BY SenderElapses DEF Tick, Owning
<1>2. ASSUME NEW s \in Slots
      PROVE  /\ Older(clients[s]) \in ClientRecords
             /\ Older(clients[s]).state = clients[s].state
             /\ Older(clients[s]).tx = clients[s].tx
  BY DEF Owning, Older, ClientRecords
<1>3. clients' = [s \in Slots |-> Older(clients[s])]
  BY DEF Tick
<1>4. UNCHANGED <<messageOwner, senderSlot, background>>
  BY DEF Tick
<1> QED
  BY <1>1, <1>2, <1>3, <1>4, OwningKept DEF Carries

\* Steps that have nothing to do with the sender and its owners.
LEMMA OwningElsewhere ==
  ASSUME Owning,
         \/ TakeMailbox \/ Enable \/ DisabledLoop \/ DispatchNotification
         \/ DispatcherLoop \/ DispatchApplicationAck \/ DispatchHeartbeat
         \/ LateTick \/ SendCallback \/ PeerAck \/ PeerResult \/ PeerRepeat
         \/ PeerCommand \/ PeerHeartbeat \/ UNCHANGED vars
  PROVE  Owning'
<1>1. UNCHANGED <<sender, messageOwner, senderSlot, background, clients>>
  BY DEF TakeMailbox, Enable, DisabledLoop, DispatchNotification, DispatcherLoop,
         DispatchApplicationAck, DispatchHeartbeat, LateTick, SendCallback,
         PeerAck, PeerResult, PeerRepeat, PeerCommand, PeerHeartbeat, vars, node
<1> QED
  BY <1>1, OwningUnchanged

LEMMA OwningStep ==
  ASSUME Owning, Receiving, [Next]_vars
  PROVE  Owning'
<1>1. completions # <<>> => Head(completions).ok \in BOOLEAN
  <2>1. completions # <<>> => Head(completions) \in Completions
    BY DEF Receiving
  <2> QED
    BY <2>1 DEF Completions
<1>2. CASE LoopStep
  BY <1>1, <1>2, OwningSenderSteps, OwningClientSteps, OwningCompletion,
     OwningProcessDispatcher, OwningElsewhere
  DEF LoopStep
<1>3. CASE Calls
  BY <1>3, OwningStartCommand, OwningCancelCommand, OwningUseExternalDeadline,
     OwningOtherLanes, OwningDisable, OwningElsewhere
  DEF Calls
<1>4. CASE Tick
  BY <1>4, OwningTick
<1>5. CASE ~(LoopStep \/ Calls \/ Tick)
  BY <1>5, OwningElsewhere DEF Next
<1> QED
  BY <1>2, <1>3, <1>4, <1>5

-----------------------------------------------------------------------------
(* What comes from the peer                                                *)

LEMMA ReceivingUnchanged ==
  ASSUME Receiving,
         UNCHANGED <<aired, rx, results, commands, airborne, completions,
                     runtime, dispatcher>>
  PROVE  Receiving'
BY DEF Receiving

\* A message of the peer reaches the queue.
LEMMA MessageArrives ==
  ASSUME rx \in Seq(Events), NEW m \in PeerMessages, Arrive(m)
  PROVE  rx' \in Seq(Events)
<1>1. PICK f : f = [message |-> m, index |-> 0, intact |-> TRUE, valid |-> TRUE]
  OBVIOUS
<1>2. f \in PeerFrames
  BY <1>1 DEF PeerFrames
<1>3. [kind |-> "frame", frame |-> f] \in Events
  BY <1>2 DEF Events
<1> QED
  BY <1>1, <1>3 DEF Arrive

LEMMA ReceivingPeer ==
  ASSUME Receiving, PeerAck \/ PeerResult \/ PeerRepeat \/ PeerCommand
  PROVE  Receiving'
<1>1. UNCHANGED <<aired, airborne, completions, runtime, dispatcher>>
  BY DEF PeerAck, PeerResult, PeerRepeat, PeerCommand, node
<1>2. CASE PeerAck
  <2>1. PICK key \in aired, status \in PeerAckStatuses :
          Arrive(PeerMessage("ACK", key.tx, 1,
                   [tx |-> key.tx, sequence |-> key.sequence, status |-> status]))
    BY <1>2 DEF PeerAck
  <2>2. PICK b : b = [tx |-> key.tx, sequence |-> key.sequence, status |-> status]
    OBVIOUS
  <2>3. b \in AckBodies /\ key.tx \in AllTransactions
    BY <2>2 DEF AckBodies, Receiving, DeliveryKeys
  <2>4. PeerMessage("ACK", key.tx, 1, b) \in PeerMessages
    BY <2>3 DEF PeerMessage, PeerMessages
  <2>5. rx' \in Seq(Events)
    BY <2>1, <2>2, <2>4, MessageArrives DEF Receiving
  <2> QED
    BY <1>1, <1>2, <2>5 DEF PeerAck, peer, Receiving
<1>3. CASE PeerResult
  <2>0. PICK tx \in Unsolicited \cup ({key.tx : key \in aired} \cap Commands),
             status \in ResultStatuses :
          \E m : /\ m = PeerMessage("RESULT", tx, Cardinality(results) + 1, status)
                 /\ Arrive(m) /\ results' = results \cup {m}
    BY <1>3 DEF PeerResult
  <2>1. PICK m : /\ m = PeerMessage("RESULT", tx, Cardinality(results) + 1, status)
                 /\ Arrive(m) /\ results' = results \cup {m}
    BY <2>0
  <2>2. Cardinality(results) \in Nat
    BY FS_CardinalityType DEF Receiving
  <2>3. tx \in AllTransactions
    BY DEF AllTransactions
  <2>4. m \in PeerMessages
    <3>1. PICK n : n = Cardinality(results) + 1
      OBVIOUS
    <3>2. n \in Nat
      BY <2>2, <3>1
    <3>3. m = [kind |-> "RESULT", source |-> "bootPeer", tx |-> tx, sequence |-> n,
               count |-> 1, ackRequired |-> TRUE, body |-> status]
      BY <2>1, <3>1 DEF PeerMessage
    <3> QED
      BY <2>3, <3>2, <3>3 DEF PeerMessages
  <2>5. rx' \in Seq(Events)
    BY <2>1, <2>4, MessageArrives DEF Receiving
  <2>6. IsFiniteSet(results')
    BY <2>1, FS_AddElement DEF Receiving
  <2>7. results' \subseteq PeerMessages /\ commands' = commands
    BY <1>3, <2>1, <2>4 DEF PeerResult, Receiving
  <2> QED
    BY <1>1, <2>5, <2>6, <2>7 DEF Receiving
<1>4. CASE PeerCommand
  <2>0. PICK tx \in Inbound :
          \E m : /\ m = PeerMessage("COMMAND", tx, 99, "command")
                 /\ Arrive(m) /\ commands' = commands \cup {m}
    BY <1>4 DEF PeerCommand
  <2>1. PICK m : /\ m = PeerMessage("COMMAND", tx, 99, "command")
                 /\ Arrive(m) /\ commands' = commands \cup {m}
    BY <2>0
  <2>2. m \in PeerMessages
    BY <2>1 DEF PeerMessage, PeerMessages, AllTransactions
  <2>3. rx' \in Seq(Events)
    BY <2>1, <2>2, MessageArrives DEF Receiving
  <2>4. commands' \subseteq PeerMessages /\ results' = results
    BY <1>4, <2>1, <2>2 DEF PeerCommand, Receiving
  <2> QED
    BY <1>1, <2>3, <2>4 DEF Receiving
<1>5. CASE PeerRepeat
  <2>1. PICK m \in results \cup commands : Arrive(m)
    BY <1>5 DEF PeerRepeat
  <2>2. rx' \in Seq(Events)
    BY <2>1, MessageArrives DEF Receiving
  <2> QED
    BY <1>1, <1>5, <2>2 DEF PeerRepeat, Receiving
<1> QED
  BY <1>2, <1>3, <1>4, <1>5

LEMMA ReceivingPeerHeartbeat ==
  ASSUME Receiving, Beating, PeerHeartbeat
  PROVE  Receiving'
<1>1. UNCHANGED <<aired, airborne, completions, runtime, dispatcher, results,
                  commands>>
  BY DEF PeerHeartbeat, node
<1>2. PICK packet \in
          [kind : {"PING"}, boot : {"peer"}, sequence : PeerPings]
          \cup [kind : {"PONG"}, boot : {"this"}, sequence : beats.pinged]
          \cup [kind : {"PONG"}, boot : {"earlier"}, sequence : 1 .. MaxPings] :
        rx' = Append(rx, packet)
  BY DEF PeerHeartbeat
<1>3. beats.pinged \subseteq Nat /\ 1 .. MaxPings \subseteq Nat
  BY DEF Beating
<1>4. packet \in Events
  BY <1>3 DEF Events
<1>5. rx' \in Seq(Events)
  BY <1>2, <1>4 DEF Receiving
<1> QED
  BY <1>1, <1>5 DEF Receiving

LEMMA ReceivingSendCallback ==
  ASSUME Receiving, SendCallback
  PROVE  Receiving'
<1>1. UNCHANGED <<aired, rx, runtime, dispatcher, results, commands>>
  BY DEF SendCallback, node, peer
<1>2. /\ airborne # <<>> /\ airborne' = Tail(airborne)
      /\ Head(airborne) \in RadioOwners /\ Tail(airborne) \in Seq(RadioOwners)
  BY DEF SendCallback, Receiving
<1>3. PICK ok \in BOOLEAN :
        \/ completions' = Append(completions, [for |-> Head(airborne), ok |-> ok])
        \/ completions' = completions
  BY DEF SendCallback
<1>4. [for |-> Head(airborne), ok |-> ok] \in Completions
  BY <1>2 DEF Completions
<1>5. completions' \in Seq(Completions)
  <2>1. completions \in Seq(Completions)
    BY DEF Receiving
  <2>2. ASSUME NEW c \in Completions PROVE Append(completions, c) \in Seq(Completions)
    BY <2>1
  <2> QED
    BY <1>3, <1>4, <2>1, <2>2
<1> QED
  BY <1>1, <1>2, <1>5 DEF Receiving

\* The radio's queues are emptied.
LEMMA ReceivingDiscards ==
  ASSUME Receiving, Disable \/ DisabledLoop
  PROVE  Receiving'
<1>1. rx' = <<>> /\ completions' = <<>>
  BY DEF Disable, DisabledLoop
<1>2. UNCHANGED <<aired, airborne, runtime, dispatcher, results, commands>>
  BY DEF Disable, DisabledLoop, node, peer
<1>3. rx' \in Seq(Events) /\ completions' \in Seq(Completions)
  BY <1>1
<1> QED
  BY <1>2, <1>3 DEF Receiving

LEMMA ReceivingProcessSendCompletion ==
  ASSUME Receiving, ProcessSendCompletion
  PROVE  Receiving'
<1>1. UNCHANGED <<aired, airborne, rx, runtime, dispatcher, results, commands>>
  BY DEF ProcessSendCompletion, peer
<1>2. \/ completions' = completions
      \/ completions # <<>> /\ completions' = Tail(completions)
  BY DEF ProcessSendCompletion
<1>3. completions' \in Seq(Completions)
  <2>1. completions \in Seq(Completions)
    BY DEF Receiving
  <2>2. completions # <<>> => Tail(completions) \in Seq(Completions)
    BY <2>1
  <2> QED
    BY <1>2, <2>1, <2>2
<1> QED
  BY <1>1, <1>3 DEF Receiving

LEMMA ReceivingProcessReceivedFrame ==
  ASSUME Receiving, ProcessReceivedFrame
  PROVE  Receiving'
<1>1. UNCHANGED <<aired, airborne, completions, dispatcher, results, commands>>
  BY DEF ProcessReceivedFrame, peer
<1>2. CASE rx = <<>>
  BY <1>1, <1>2 DEF ProcessReceivedFrame, Receiving
<1>3. CASE rx # <<>>
  <2>1. Head(rx) \in Events /\ Tail(rx) \in Seq(Events)
    BY <1>3 DEF Receiving
  <2>2. rx' = Tail(rx)
    BY <1>3 DEF ProcessReceivedFrame
  <2>3. RuntimeSound(runtime')
    <3>1. CASE Head(rx).kind # "frame"
      BY <1>3, <3>1 DEF ProcessReceivedFrame, Receiving
    <3>2. CASE Head(rx).kind = "frame"
      <4>1. Head(rx).frame \in PeerFrames
        BY <2>1, <3>2 DEF Events
      <4>2. PICK r : r = R!Accept(runtime, "peer", Head(rx).frame)
        OBVIOUS
      <4>3. RuntimeSound(r)
        BY <4>1, <4>2, RuntimeAccepts, EndpointAssumption DEF Receiving
      <4>4. runtime' = R!TakeDeliveryAck(r)
        BY <1>3, <3>2, <4>2 DEF ProcessReceivedFrame
      <4> QED
        BY <4>3, <4>4, RuntimeTakes
    <3> QED
      BY <3>1, <3>2
  <2> QED
    BY <1>1, <2>1, <2>2, <2>3 DEF Receiving
<1> QED
  BY <1>2, <1>3

LEMMA ReceivingProcessApplicationMessage ==
  ASSUME Receiving, ProcessApplicationMessage
  PROVE  Receiving'
<1>1. UNCHANGED <<aired, airborne, completions, rx, results, commands>>
  BY DEF ProcessApplicationMessage, world, peer
<1>2. CASE runtime.messageReady /\ ~MustHold
  <2>1. Consume
    BY <1>2 DEF ProcessApplicationMessage
  <2>2. RuntimeSound(runtime')
    BY <2>1, RuntimeTakes DEF Consume, Receiving
  <2>3. Held \in PeerMessages
    BY <1>2 DEF Receiving, RuntimeSound, Held
  <2>4. Held.tx \in AllTransactions
    BY <2>3 DEF PeerMessages
  <2>5. dispatcher' \in Dispatchers
    <3>1. \/ dispatcher' = dispatcher
          \/ \E st \in {"ACTIVE", "RESULT_READY"} :
               dispatcher' = [state |-> st, tx |-> Held.tx, terminal |-> TRUE]
      BY <2>1 DEF Consume
    <3>2. ASSUME NEW st \in {"ACTIVE", "RESULT_READY"}
          PROVE  [state |-> st, tx |-> Held.tx, terminal |-> TRUE] \in Dispatchers
      BY <2>4 DEF Dispatchers
    <3> QED
      BY <3>1, <3>2 DEF Receiving
  <2> QED
    BY <1>1, <2>2, <2>5 DEF Receiving
<1>3. CASE ~(runtime.messageReady /\ ~MustHold)
  BY <1>1, <1>3 DEF ProcessApplicationMessage, Receiving
<1> QED
  BY <1>2, <1>3

\* The dispatcher.
LEMMA ReceivingDispatcher ==
  ASSUME Receiving, DispatcherLoop \/ ProcessDispatcher
  PROVE  Receiving'
<1>1. UNCHANGED <<aired, airborne, completions, rx, results, commands, runtime>>
  BY DEF DispatcherLoop, ProcessDispatcher, world, peer
<1>2. \/ dispatcher' = dispatcher
      \/ dispatcher' = IdleDispatcher
      \/ dispatcher' = [dispatcher EXCEPT !.state = "ACTIVE"]
      \/ \E terminal \in BOOLEAN :
           dispatcher' = [dispatcher EXCEPT !.state = "RESULT_READY",
                                            !.terminal = terminal]
  BY DEF DispatcherLoop, ProcessDispatcher
<1>3. dispatcher' \in Dispatchers
  <2>1. dispatcher \in Dispatchers
    BY DEF Receiving
  <2>2. IdleDispatcher \in Dispatchers
    BY DEF IdleDispatcher, Dispatchers, AllTransactions
  <2>3. [dispatcher EXCEPT !.state = "ACTIVE"] \in Dispatchers
    BY <2>1 DEF Dispatchers
  <2>4. ASSUME NEW terminal \in BOOLEAN
        PROVE  [dispatcher EXCEPT !.state = "RESULT_READY", !.terminal = terminal]
                 \in Dispatchers
    BY <2>1 DEF Dispatchers
  <2> QED
    BY <1>2, <2>1, <2>2, <2>3, <2>4
<1> QED
  BY <1>1, <1>3 DEF Receiving

\* A frame goes to the driver.
LEMMA ReceivingDispatches ==
  ASSUME Receiving, Owning,
         DispatchApplicationAck \/ DispatchSenderFrame \/ DispatchHeartbeat
  PROVE  Receiving'
<1>1. UNCHANGED <<completions, rx, results, commands, dispatcher>>
  BY DEF DispatchApplicationAck, DispatchSenderFrame, DispatchHeartbeat, peer
<1>2. \/ airborne' = airborne
      \/ \E who \in RadioOwners : airborne' = Append(airborne, who)
  BY DEF DispatchApplicationAck, DispatchSenderFrame, DispatchHeartbeat, Transmit,
         RadioOwners
<1>3. airborne' \in Seq(RadioOwners)
  <2>1. airborne \in Seq(RadioOwners)
    BY DEF Receiving
  <2> QED
    BY <1>2, <2>1
<1>4. runtime' = runtime \/ runtime' = R!TakeApplicationAck(runtime)
  BY DEF DispatchApplicationAck, DispatchSenderFrame, DispatchHeartbeat
<1>5. RuntimeSound(runtime')
  BY <1>4, RuntimeTakes DEF Receiving
<1>6. \/ aired' = aired
      \/ aired' = aired \cup {[tx |-> sender.tx, sequence |-> sender.sequence]}
  BY DEF DispatchApplicationAck, DispatchSenderFrame, DispatchHeartbeat
<1>7. [tx |-> sender.tx, sequence |-> sender.sequence] \in DeliveryKeys
  BY DEF Owning, SenderSound, SenderRecords, DeliveryKeys
<1>8. aired' \subseteq DeliveryKeys
  BY <1>6, <1>7 DEF Receiving
<1> QED
  BY <1>1, <1>3, <1>5, <1>8 DEF Receiving

\* Steps that leave the queues and what was received alone.
LEMMA ReceivingElsewhere ==
  ASSUME Receiving,
         \/ \E tx \in Commands : StartCommand(tx)
         \/ \E slot \in Slots : CancelCommand(slot) \/ UseExternalDeadline(slot)
         \/ \E tx \in Background : StartBackground(tx)
         \/ TakeBackground
         \/ \E tx \in Raw : StartReliable(tx)
         \/ ResetSender \/ TakeMailbox \/ Enable \/ DispatchNotification
         \/ FunctionalTimeouts \/ SenderLoop \/ OwnedSenderCompletion
         \/ Tick \/ LateTick \/ UNCHANGED vars
  PROVE  Receiving'
<1>1. UNCHANGED <<aired, rx, results, commands, airborne, completions,
                  runtime, dispatcher>>
  BY DEF StartCommand, CancelCommand, UseExternalDeadline, StartBackground,
         TakeBackground, StartReliable, ResetSender, TakeMailbox, Enable,
         DispatchNotification, FunctionalTimeouts, FunctionalTimeout, SenderLoop,
         OwnedSenderCompletion, Tick, LateTick, vars, node, world, peer
<1> QED
  BY <1>1, ReceivingUnchanged

LEMMA ReceivingStep ==
  ASSUME Owning, Receiving, Beating, [Next]_vars
  PROVE  Receiving'
<1>1. CASE LoopStep
  BY <1>1, ReceivingElsewhere, ReceivingProcessSendCompletion,
     ReceivingProcessReceivedFrame, ReceivingProcessApplicationMessage,
     ReceivingDispatcher, ReceivingDispatches
  DEF LoopStep
<1>2. CASE Calls
  BY <1>2, ReceivingElsewhere, ReceivingDiscards DEF Calls
<1>3. CASE ~(LoopStep \/ Calls)
  BY <1>3, ReceivingElsewhere, ReceivingDiscards, ReceivingSendCallback,
     ReceivingPeer, ReceivingPeerHeartbeat
  DEF Next
<1> QED
  BY <1>1, <1>2, <1>3

-----------------------------------------------------------------------------
(* The heartbeat exchange                                                  *)

LEMMA BeatingKept ==
  ASSUME Beating, HeartSound(heart'), heart'.credited = heart.credited,
         UNCHANGED <<rx, beats>>
  PROVE  Beating'
BY DEF Beating

LEMMA BeatingUnchanged ==
  ASSUME Beating, UNCHANGED <<heart, rx, beats>>
  PROVE  Beating'
BY DEF Beating

LEMMA GenuineAppend ==
  ASSUME NEW q \in Seq(Events), NEW A, Genuine(q, A), NEW e \in Events,
         e.kind = "PONG" /\ e.boot = "this" => e.sequence \in A
  PROVE  Genuine(Append(q, e), A)
<1>1. \A i \in DOMAIN Append(q, e) :
        \/ i \in DOMAIN q /\ Append(q, e)[i] = q[i]
        \/ Append(q, e)[i] = e
  OBVIOUS
<1> QED
  BY <1>1 DEF Genuine

LEMMA GenuineTail ==
  ASSUME NEW q \in Seq(Events), q # <<>>, NEW A, Genuine(q, A)
  PROVE  Genuine(Tail(q), A)
<1>1. \A i \in DOMAIN Tail(q) : i + 1 \in DOMAIN q /\ Tail(q)[i] = q[i + 1]
  OBVIOUS
<1> QED
  BY <1>1 DEF Genuine

LEMMA GenuineGrows ==
  ASSUME NEW q, NEW A, NEW B, A \subseteq B, Genuine(q, A)
  PROVE  Genuine(q, B)
BY DEF Genuine

\* The clock, the expiry and the disabling of the runtime.
LEMMA BeatingTime ==
  ASSUME Beating, Tick \/ LateTick \/ DispatchNotification
  PROVE  Beating'
<1>1. UNCHANGED <<rx, beats>>
  BY DEF Tick, LateTick, DispatchNotification, world, peer
<1>2. heart' = H!Elapse(heart) \/ heart' = H!TickExpired(heart)
  BY DEF Tick, LateTick, DispatchNotification
<1>3. HeartSound(heart') /\ heart'.credited = heart.credited
  BY <1>2, HeartElapses, HeartExpires DEF Beating
<1> QED
  BY <1>1, <1>3, BeatingKept

LEMMA BeatingDiscards ==
  ASSUME Beating, Disable \/ DisabledLoop
  PROVE  Beating'
<1>1. rx' = <<>> /\ beats' = beats
  BY DEF Disable, DisabledLoop, peer
<1>2. heart' = heart \/ heart' = H!Abandon(heart)
  BY DEF Disable, DisabledLoop, node
<1>3. HeartSound(heart') /\ heart'.credited = heart.credited
  BY <1>2, HeartAbandons DEF Beating
<1>4. Genuine(rx', beats.answered)
  BY <1>1 DEF Genuine
<1> QED
  BY <1>1, <1>3, <1>4 DEF Beating

LEMMA BeatingReceive ==
  ASSUME Beating, Receiving, ProcessReceivedFrame
  PROVE  Beating'
<1>1. UNCHANGED beats
  BY DEF ProcessReceivedFrame, peer
<1>2. CASE rx = <<>>
  BY <1>1, <1>2, BeatingUnchanged DEF ProcessReceivedFrame
<1>3. CASE rx # <<>>
  <2>1. rx \in Seq(Events) /\ Head(rx) \in Events /\ Head(rx) = rx[1]
        /\ 1 \in DOMAIN rx
    BY <1>3 DEF Receiving
  <2>2. rx' = Tail(rx)
    BY <1>3 DEF ProcessReceivedFrame
  <2>3. Genuine(rx', beats.answered)
    BY <1>3, <2>1, <2>2, GenuineTail DEF Beating
  <2>4. HeartSound(heart') /\ heart'.credited \subseteq beats.answered
    <3>1. CASE Head(rx).kind = "frame"
      BY <1>3, <3>1 DEF ProcessReceivedFrame, Beating
    <3>2. CASE Head(rx).kind # "frame"
      <4>1. heart' = H!Receive(heart, Head(rx))
        BY <1>3, <3>2 DEF ProcessReceivedFrame
      <4>2. /\ HeartSound(heart')
            /\ \/ heart'.credited = heart.credited
               \/ /\ Head(rx).kind = "PONG" /\ Head(rx).boot = "this"
                  /\ heart'.credited = heart.credited \cup {Head(rx).sequence}
        BY <2>1, <3>2, <4>1, HeartReceives DEF Beating
      <4>3. Head(rx).kind = "PONG" /\ Head(rx).boot = "this" =>
              Head(rx).sequence \in beats.answered
        BY <2>1 DEF Beating, Genuine
      <4> QED
        BY <4>2, <4>3 DEF Beating
    <3> QED
      BY <3>1, <3>2
  <2> QED
    BY <1>1, <2>3, <2>4 DEF Beating
<1> QED
  BY <1>2, <1>3

LEMMA BeatingDispatch ==
  ASSUME Beating, DispatchHeartbeat
  PROVE  Beating'
<1>1. UNCHANGED rx
  BY DEF DispatchHeartbeat
<1>2. \/ UNCHANGED <<heart, beats>>
      \/ heart' = H!TakeReply(heart) /\ UNCHANGED beats
      \/ /\ H!PingDue(heart) /\ heart' = H!Pinged(heart)
         /\ beats' = [beats EXCEPT !.pinged = @ \cup {heart'.pending}]
      \/ H!PingDue(heart) /\ heart' = H!PingRefused(heart) /\ UNCHANGED beats
  <2>1. CASE radioOwner = "NONE" /\ messageOwner = "NONE" /\ sender.state = "IDLE"
    <3>1. CASE heart.reply # 0
      BY <2>1, <3>1 DEF DispatchHeartbeat, H!PingDue
    <3>2. CASE H!PingDue(heart)
      BY <2>1, <3>2 DEF DispatchHeartbeat, H!PingDue
    <3>3. CASE heart.reply = 0 /\ ~H!PingDue(heart)
      BY <2>1, <3>3 DEF DispatchHeartbeat
    <3> QED
      BY <3>1, <3>2, <3>3
  <2>2. CASE ~(radioOwner = "NONE" /\ messageOwner = "NONE" /\ sender.state = "IDLE")
    BY <2>2 DEF DispatchHeartbeat
  <2> QED
    BY <2>1, <2>2
<1>3. CASE UNCHANGED <<heart, beats>>
  BY <1>1, <1>3, BeatingUnchanged
<1>4. CASE heart' = H!TakeReply(heart) /\ UNCHANGED beats
  BY <1>1, <1>4, HeartReplies, BeatingKept DEF Beating
<1>5. CASE H!PingDue(heart) /\ heart' = H!PingRefused(heart) /\ UNCHANGED beats
  BY <1>1, <1>5, HeartPings, BeatingKept DEF Beating
<1>6. CASE /\ H!PingDue(heart) /\ heart' = H!Pinged(heart)
           /\ beats' = [beats EXCEPT !.pinged = @ \cup {heart'.pending}]
  <2>1. /\ HeartSound(heart') /\ heart'.credited = heart.credited
        /\ heart'.pending \in Nat
    BY <1>6, HeartPings DEF Beating
  <2>2. /\ beats' \in [pinged : SUBSET Nat, answered : SUBSET Nat]
        /\ beats'.answered = beats.answered
    BY <1>6, <2>1 DEF Beating
  <2> QED
    BY <1>1, <2>1, <2>2 DEF Beating
<1> QED
  BY <1>2, <1>3, <1>4, <1>5, <1>6

\* What the peer sends.
LEMMA BeatingPeer ==
  ASSUME Beating, Receiving, PeerAck \/ PeerResult \/ PeerRepeat \/ PeerCommand
  PROVE  Beating'
<1>1. UNCHANGED <<heart, beats>>
  BY DEF PeerAck, PeerResult, PeerRepeat, PeerCommand, node, peer
<1>2. PICK m : Arrive(m)
  BY DEF PeerAck, PeerResult, PeerRepeat, PeerCommand
<1>3. PICK e : e.kind = "frame" /\ rx' = Append(rx, e)
  BY <1>2 DEF Arrive
<1>4. \A i \in DOMAIN rx' : rx'[i] = e \/ (i \in DOMAIN rx /\ rx'[i] = rx[i])
  BY <1>3 DEF Receiving
<1>5. Genuine(rx', beats.answered)
  BY <1>3, <1>4 DEF Genuine, Beating
<1> QED
  BY <1>1, <1>5 DEF Beating

LEMMA BeatingPeerHeartbeat ==
  ASSUME Beating, Receiving, PeerHeartbeat
  PROVE  Beating'
<1>1. UNCHANGED heart
  BY DEF PeerHeartbeat, node
<1>2. PICK packet \in
          [kind : {"PING"}, boot : {"peer"}, sequence : PeerPings]
          \cup [kind : {"PONG"}, boot : {"this"}, sequence : beats.pinged]
          \cup [kind : {"PONG"}, boot : {"earlier"}, sequence : 1 .. MaxPings] :
        /\ rx' = Append(rx, packet)
        /\ beats' = IF packet.boot = "this"
                    THEN [beats EXCEPT !.answered = @ \cup {packet.sequence}]
                    ELSE beats
  BY DEF PeerHeartbeat
<1>3. beats.pinged \subseteq Nat /\ 1 .. MaxPings \subseteq Nat
  BY DEF Beating
<1>4. packet \in Events /\ packet.sequence \in Nat
  BY <1>3, EndpointAssumption DEF Events
<1>5. /\ beats' \in [pinged : SUBSET Nat, answered : SUBSET Nat]
      /\ beats.answered \subseteq beats'.answered
      /\ packet.boot = "this" => packet.sequence \in beats'.answered
  BY <1>2, <1>4 DEF Beating
<1>6. Genuine(rx, beats'.answered)
  BY <1>5, GenuineGrows DEF Beating
<1>7. Genuine(rx', beats'.answered)
  BY <1>2, <1>4, <1>5, <1>6, GenuineAppend DEF Receiving
<1> QED
  BY <1>1, <1>5, <1>7 DEF Beating

\* Steps that have nothing to do with the heartbeat.
LEMMA BeatingElsewhere ==
  ASSUME Beating,
         \/ \E tx \in Commands : StartCommand(tx)
         \/ \E slot \in Slots : CancelCommand(slot) \/ UseExternalDeadline(slot)
         \/ \E tx \in Background : StartBackground(tx)
         \/ TakeBackground
         \/ \E tx \in Raw : StartReliable(tx)
         \/ ResetSender \/ TakeMailbox \/ Enable \/ ProcessSendCompletion
         \/ ProcessApplicationMessage \/ FunctionalTimeouts \/ DispatcherLoop
         \/ SenderLoop \/ OwnedSenderCompletion \/ ProcessDispatcher
         \/ DispatchApplicationAck \/ DispatchSenderFrame \/ SendCallback
         \/ UNCHANGED vars
  PROVE  Beating'
<1>1. UNCHANGED <<heart, rx, beats>>
  BY DEF StartCommand, CancelCommand, UseExternalDeadline, StartBackground,
         TakeBackground, StartReliable, ResetSender, TakeMailbox, Enable,
         ProcessSendCompletion, ProcessApplicationMessage, FunctionalTimeouts,
         FunctionalTimeout, DispatcherLoop, SenderLoop, OwnedSenderCompletion,
         ProcessDispatcher, DispatchApplicationAck, DispatchSenderFrame,
         SendCallback, vars, node, world, peer
<1> QED
  BY <1>1, BeatingUnchanged

LEMMA BeatingStep ==
  ASSUME Receiving, Beating, [Next]_vars
  PROVE  Beating'
<1>1. CASE LoopStep
  BY <1>1, BeatingElsewhere, BeatingTime, BeatingReceive, BeatingDispatch
  DEF LoopStep
<1>2. CASE Calls
  BY <1>2, BeatingElsewhere, BeatingDiscards DEF Calls
<1>3. CASE ~(LoopStep \/ Calls)
  BY <1>3, BeatingElsewhere, BeatingDiscards, BeatingTime, BeatingPeer,
     BeatingPeerHeartbeat
  DEF Next
<1> QED
  BY <1>1, <1>2, <1>3

-----------------------------------------------------------------------------
(* What the observer hears                                                 *)

\* OneTerminalReport, command by command.
Heard(c) ==
  /\ ended[c] = "none" => told[c] = 0 /\ ~Pending(c)
  /\ told[c] = 0 \/ (told[c] = 1 /\ ~Pending(c))

LEMMA OnceMeansHeard ==
  ASSUME told \in [Commands -> Nat]
  PROVE  OneTerminalReport <=> \A c \in Commands : Heard(c)
<1>1. ASSUME NEW c \in Commands
      PROVE  (told[c] + (IF Pending(c) THEN 1 ELSE 0)
                <= (IF ended[c] = "none" THEN 0 ELSE 1)) <=> Heard(c)
  <2>1. told[c] \in Nat
    OBVIOUS
  <2>2. CASE Pending(c)
    BY <2>1, <2>2 DEF Heard
  <2>3. CASE ~Pending(c)
    BY <2>1, <2>3 DEF Heard
  <2> QED
    BY <2>2, <2>3
<1> QED
  BY <1>1 DEF OneTerminalReport

LEMMA OnceMeansHeardNext ==
  ASSUME told' \in [Commands -> Nat], \A c \in Commands : Heard(c)'
  PROVE  OneTerminalReport'
<1>1. ASSUME NEW c \in Commands
      PROVE  told'[c] + (IF Pending(c)' THEN 1 ELSE 0)
                <= (IF ended'[c] = "none" THEN 0 ELSE 1)
  <2>1. told'[c] \in Nat /\ Heard(c)'
    OBVIOUS
  <2>2. CASE Pending(c)'
    BY <2>1, <2>2 DEF Heard
  <2>3. CASE ~Pending(c)'
    BY <2>1, <2>3 DEF Heard
  <2> QED
    BY <2>2, <2>3
<1> QED
  BY <1>1 DEF OneTerminalReport

\* The same clients are busy with the same commands.
LEMMA ReportingKept ==
  ASSUME Reporting, UNCHANGED <<notification, ended, told>>,
         \A s \in Slots : /\ clients'[s].tx = clients[s].tx
                          /\ clients'[s].state = "IDLE" <=> clients[s].state = "IDLE"
  PROVE  Reporting'
BY DEF Reporting, Working, Busy, OneTerminalReport, DecodedResultReported, Pending

LEMMA ReportingUnchanged ==
  ASSUME Reporting, UNCHANGED <<notification, ended, told, clients>>
  PROVE  Reporting'
BY ReportingKept

\* The command of a busy client ends, and perhaps a notification is queued.
LEMMA ReportingEnds ==
  ASSUME Reporting, Owning, NEW slot \in Slots, Busy(slot),
         NEW how \in {"failed", "result", "cancelled"},
         clients' = [clients EXCEPT ![slot] = IdleClient],
         ended' = [ended EXCEPT ![clients[slot].tx] = how],
         told' = told,
         \/ notification' = notification /\ how # "result"
         \/ /\ notification = NoMessage /\ notification' \in Notifications
            /\ notification'.tx = clients[slot].tx
            /\ notification'.status # "IN_PROGRESS"
  PROVE  Reporting'
<1>1. PICK c : c = clients[slot].tx
  OBVIOUS
<1>2. c \in Commands /\ ended[c] = "none"
  BY <1>1 DEF Reporting, Working
<1>3. \A d \in Commands : Heard(d)
  BY OnceMeansHeard DEF Reporting
<1>4. told[c] = 0 /\ ~Pending(c)
  BY <1>2, <1>3 DEF Heard
<1>5. /\ ended' \in [Commands -> {"none", "failed", "result", "cancelled"}]
      /\ ended'[c] = how /\ \A d \in Commands \ {c} : ended'[d] = ended[d]
  BY <1>1, <1>2 DEF Reporting
<1>6. notification' \in Notifications \cup {NoMessage}
  BY DEF Reporting
<1>7. \A d \in Commands \ {c} : Pending(d)' <=> Pending(d)
  BY <1>1 DEF Pending
<1>8. notification' # notification => Pending(c)'
  BY <1>1, EndpointAssumption DEF Pending, Notifications
<1>9. told' \in [Commands -> Nat]
  BY DEF Reporting
<1>10. \A d \in Commands : Heard(d)'
  BY <1>3, <1>4, <1>5, <1>7 DEF Heard
<1>11. OneTerminalReport'
  BY <1>9, <1>10, OnceMeansHeardNext
<1>12. DecodedResultReported'
  <2>1. ASSUME NEW d \in Commands, ended'[d] = "result"
        PROVE  told'[d] = 1 \/ Pending(d)'
    <3>1. CASE d = c
      <4>1. how = "result"
        BY <1>5, <2>1, <3>1
      <4>2. notification' # notification
        BY <4>1, EndpointAssumption DEF Notifications
      <4> QED
        BY <1>8, <3>1, <4>2
    <3>2. CASE d # c
      BY <1>5, <1>7, <2>1, <3>2 DEF Reporting, DecodedResultReported
    <3> QED
      BY <3>1, <3>2
  <2> QED
    BY <2>1 DEF DecodedResultReported
<1>13. \A s \in Slots : clients'[s] = IF s = slot THEN IdleClient ELSE clients[s]
  BY DEF Owning
<1>14. Working'
  <2>1. \A s \in Slots : Busy(s)' => s # slot /\ Busy(s) /\ clients'[s] = clients[s]
    BY <1>13, IdleClientOK DEF IdleClientTyped, Busy
  <2>2. \A s \in Slots : Busy(s) /\ s # slot => clients[s].tx # c
    BY <1>1 DEF Reporting, Working
  <2> QED
    BY <1>5, <2>1, <2>2 DEF Reporting, Working
<1> QED
  BY <1>5, <1>6, <1>9, <1>11, <1>12, <1>14 DEF Reporting

\* fail_command_client_
LEMMA ReportingFails ==
  ASSUME Reporting, Owning, NEW slot \in Slots, Busy(slot), Fail(slot),
         told' = told
  PROVE  Reporting'
<1>1. PICK b : b = (clients[slot].state = "WAITING_FOR_RESULT")
  OBVIOUS
<1>2. PICK n : n = [tx |-> clients[slot].tx, status |-> "FAILED", started |-> b]
  OBVIOUS
<1>3. b \in BOOLEAN /\ clients[slot].tx \in Commands
  BY <1>1 DEF Reporting, Working
<1>4. n \in Notifications /\ n.tx = clients[slot].tx /\ n.status # "IN_PROGRESS"
  BY <1>2, <1>3 DEF Notifications
<1>5. Finish(slot, n, "failed")
  BY <1>1, <1>2 DEF Fail
<1>6. /\ clients' = [clients EXCEPT ![slot] = IdleClient]
      /\ ended' = [ended EXCEPT ![clients[slot].tx] = "failed"]
      /\ notification' = IF notification # NoMessage THEN notification ELSE n
  BY <1>5 DEF Finish, Queue
<1>7. \/ notification' = notification
      \/ notification = NoMessage /\ notification' = n
  BY <1>6
<1> QED
  BY <1>4, <1>6, <1>7, ReportingEnds

LEMMA ReportingStartCommand ==
  ASSUME Reporting, Owning, NEW tx \in Commands, StartCommand(tx)
  PROVE  Reporting'
<1>1. PICK slot : slot = IF clients[0].state = "IDLE" THEN 0 ELSE 1
  OBVIOUS
<1>2. PICK c : c = [state |-> "WAITING_FOR_DELIVERY_ACK", tx |-> tx, age |-> 0,
                    external |-> FALSE]
  OBVIOUS
<1>3. UNCHANGED <<notification, ended, told>>
  BY DEF StartCommand, history
<1>4. clients' = [clients EXCEPT ![slot] = c] /\ c.tx = tx
  BY <1>1, <1>2 DEF StartCommand
<1>5. \A s \in Slots : clients'[s] = IF s = slot THEN c ELSE clients[s]
  BY <1>4 DEF Owning
<1>6. ended[tx] = "none" /\ \A s \in Slots : clients[s].tx # tx
  BY DEF StartCommand
<1>7. Working'
  <2>1. \A s \in Slots : Busy(s)' =>
          clients'[s].tx \in Commands /\ ended'[clients'[s].tx] = "none"
    BY <1>3, <1>4, <1>5, <1>6 DEF Reporting, Working, Busy
  <2>2. ASSUME NEW s \in Slots, NEW t \in Slots, Busy(s)', Busy(t)',
               clients'[s].tx = clients'[t].tx
        PROVE  s = t
    <3>1. CASE s # slot /\ t # slot
      BY <1>5, <2>2, <3>1 DEF Reporting, Working, Busy
    <3>2. CASE s = slot \/ t = slot
      BY <1>4, <1>5, <1>6, <2>2, <3>2
    <3> QED
      BY <3>1, <3>2
  <2> QED
    BY <2>1, <2>2 DEF Working
<1> QED
  BY <1>3, <1>7 DEF Reporting, OneTerminalReport, DecodedResultReported, Pending

LEMMA ReportingCancelCommand ==
  ASSUME Reporting, Owning, NEW slot \in Slots, CancelCommand(slot)
  PROVE  Reporting'
<1>1. /\ Busy(slot) /\ UNCHANGED <<notification, told>>
      /\ clients' = [clients EXCEPT ![slot] = IdleClient]
      /\ ended' = [ended EXCEPT ![clients[slot].tx] = "cancelled"]
  BY DEF CancelCommand, CancelSlot, Busy
<1> QED
  BY <1>1, ReportingEnds

\* Steps that change a client and no command.
LEMMA ReportingClients ==
  ASSUME Reporting, Owning,
         \/ \E slot \in Slots : UseExternalDeadline(slot)
         \/ Tick
  PROVE  Reporting'
<1>1. UNCHANGED <<notification, ended, told>>
  BY DEF UseExternalDeadline, Tick, history
<1>2. \A s \in Slots : /\ clients'[s].tx = clients[s].tx
                       /\ clients'[s].state = clients[s].state
  <2>1. ASSUME NEW slot \in Slots, UseExternalDeadline(slot), NEW s \in Slots
        PROVE  clients'[s].tx = clients[s].tx /\ clients'[s].state = clients[s].state
    BY <2>1 DEF UseExternalDeadline, Owning, ClientRecords
  <2>2. ASSUME Tick, NEW s \in Slots
        PROVE  clients'[s].tx = clients[s].tx /\ clients'[s].state = clients[s].state
    BY <2>2 DEF Tick, Older, Owning, ClientRecords
  <2> QED
    BY <2>1, <2>2
<1> QED
  BY <1>1, <1>2, ReportingKept

\* set_runtime_enabled(false): what was not reported yet counts as cancelled.
LEMMA ReportingDisable ==
  ASSUME Reporting, Disable
  PROVE  Reporting'
<1>1. PICK D : ended' = [c \in Commands |-> IF c \in D THEN "cancelled" ELSE ended[c]]
               /\ \A c \in Commands : Pending(c) => c \in D
  BY DEF Disable, Pending
<1>2. notification' = NoMessage /\ told' = told
  BY DEF Disable
<1>3. clients' = [s \in Slots |-> IdleClient]
  BY DEF Disable
<1>4. Working'
  BY <1>3, IdleClientOK DEF IdleClientTyped, Working, Busy
<1>5. \A c \in Commands : ~Pending(c)'
  BY <1>2 DEF Pending
<1>6. ended' \in [Commands -> {"none", "failed", "result", "cancelled"}]
  BY <1>1 DEF Reporting
<1>7. \A c \in Commands : Heard(c)
  BY OnceMeansHeard DEF Reporting
<1>8. \A c \in Commands : ended'[c] = "none" => ended[c] = "none"
  BY <1>1
<1>9. \A c \in Commands : Heard(c)'
  BY <1>2, <1>5, <1>7, <1>8 DEF Heard
<1>10. OneTerminalReport'
  BY <1>2, <1>9, OnceMeansHeardNext DEF Reporting
<1>11. DecodedResultReported'
  BY <1>1, <1>2 DEF Reporting, DecodedResultReported
<1> QED
  BY <1>2, <1>4, <1>6, <1>10, <1>11 DEF Reporting

\* dispatch_command_result_notification_
LEMMA ReportingDispatchNotification ==
  ASSUME Reporting, DispatchNotification
  PROVE  Reporting'
<1>1. notification' = NoMessage /\ UNCHANGED <<ended, clients>>
  BY DEF DispatchNotification
<1>2. \A c \in Commands : ~Pending(c)'
  BY <1>1 DEF Pending
<1>3. /\ told' \in [Commands -> Nat]
      /\ \A c \in Commands : told'[c] = IF Pending(c) THEN told[c] + 1 ELSE told[c]
  <2>1. CASE notification # NoMessage /\ notification.status # "IN_PROGRESS"
    <3>1. told' = [told EXCEPT ![notification.tx] = @ + 1]
      BY <2>1 DEF DispatchNotification
    <3>2. notification.tx \in Commands
      BY <2>1 DEF Reporting, Notifications
    <3> QED
      BY <2>1, <3>1, <3>2 DEF Reporting, Pending
  <2>2. CASE ~(notification # NoMessage /\ notification.status # "IN_PROGRESS")
    BY <2>2 DEF DispatchNotification, Reporting, Pending
  <2> QED
    BY <2>1, <2>2
<1>4. \A c \in Commands : Heard(c)
  BY OnceMeansHeard DEF Reporting
<1>5. \A c \in Commands : Heard(c)'
  BY <1>1, <1>2, <1>3, <1>4 DEF Heard
<1>6. OneTerminalReport'
  BY <1>3, <1>5, OnceMeansHeardNext
<1>7. DecodedResultReported'
  <2>1. ASSUME NEW c \in Commands, ended[c] = "result" PROVE told'[c] = 1
    <3>1. told[c] = 1 \/ Pending(c)
      BY <2>1 DEF Reporting, DecodedResultReported
    <3> QED
      BY <1>3, <1>4, <3>1 DEF Heard
  <2> QED
    BY <1>1, <2>1 DEF DecodedResultReported
<1>8. Working'
  BY <1>1 DEF Reporting, Working, Busy
<1> QED
  BY <1>1, <1>3, <1>6, <1>7, <1>8 DEF Reporting

\* process_application_message_: a result is consumed only when the
\* notification slot is empty.
LEMMA ReportingProcessApplicationMessage ==
  ASSUME Reporting, Owning, Receiving, ProcessApplicationMessage
  PROVE  Reporting'
<1>1. told' = told
  BY DEF ProcessApplicationMessage
<1>2. CASE ~(runtime.messageReady /\ ~MustHold)
  BY <1>1, <1>2, ReportingUnchanged DEF ProcessApplicationMessage
<1>3. CASE runtime.messageReady /\ ~MustHold
  <2>1. Consume
    BY <1>3 DEF ProcessApplicationMessage
  <2>2. CASE ~(Held.kind = "RESULT" /\ Matching(Held.tx) # {})
    <3>1. UNCHANGED <<notification, ended, clients>>
      BY <2>1, <2>2 DEF Consume
    <3> QED
      BY <1>1, <3>1, ReportingUnchanged
  <2>3. CASE Held.kind = "RESULT" /\ Matching(Held.tx) # {}
    <3>1. PICK slot : slot = CHOOSE s \in Matching(Held.tx) :
                               \A t \in Matching(Held.tx) : s <= t
      OBVIOUS
    <3>2. /\ slot \in Slots /\ clients[slot].state = "WAITING_FOR_RESULT"
          /\ clients[slot].tx = Held.tx
      BY <2>3, <3>1, MatchingSlot
    <3>3. ClientResult(slot, Held.body)
      BY <2>1, <2>3, <3>1 DEF Consume
    <3>4. notification = NoMessage
      BY <1>3, <2>3 DEF MustHold
    <3>5. Held \in PeerMessages
      BY <1>3 DEF Receiving, RuntimeSound, Held
    <3>6. Held.body \in ResultStatuses
      BY <2>3, <3>5 DEF PeerMessages
    <3>7. Busy(slot)
      BY <3>2 DEF Busy
    <3>8. Held.tx \in Commands
      BY <3>2, <3>7 DEF Reporting, Working
    <3>9. PICK n : n = [tx |-> Held.tx, status |-> Held.body, started |-> TRUE]
      OBVIOUS
    <3>10. n \in Notifications /\ n.tx = Held.tx /\ n.status = Held.body
      BY <3>6, <3>8, <3>9 DEF Notifications
    <3>11. CASE Held.body = "MALFORMED"
      <4>1. Fail(slot)
        BY <3>3, <3>11 DEF ClientResult
      <4> QED
        BY <1>1, <3>2, <3>7, <4>1, ReportingFails
    <3>12. CASE Held.body = "IN_PROGRESS"
      <4>1. notification' = n /\ UNCHANGED <<clients, ended>>
        BY <3>3, <3>4, <3>9, <3>12 DEF ClientResult, Queue
      <4>2. \A c \in Commands : ~Pending(c) /\ ~Pending(c)'
        BY <3>4, <3>10, <3>12, <4>1 DEF Pending
      <4> QED
        BY <1>1, <3>10, <4>1, <4>2
        DEF Reporting, Working, Busy, OneTerminalReport, DecodedResultReported
    <3>13. CASE Held.body \notin {"MALFORMED", "IN_PROGRESS"}
      <4>1. Finish(slot, n, "result")
        BY <3>3, <3>9, <3>13 DEF ClientResult
      <4>2. /\ clients' = [clients EXCEPT ![slot] = IdleClient]
            /\ ended' = [ended EXCEPT ![clients[slot].tx] = "result"]
            /\ notification' = n
        BY <3>4, <4>1 DEF Finish, Queue
      <4> QED
        BY <1>1, <3>2, <3>4, <3>7, <3>10, <3>13, <4>2, ReportingEnds
    <3> QED
      BY <3>11, <3>12, <3>13
  <2> QED
    BY <2>2, <2>3
<1> QED
  BY <1>2, <1>3

LEMMA ReportingFunctionalTimeouts ==
  ASSUME Reporting, Owning, FunctionalTimeouts
  PROVE  Reporting'
<1>1. PICK slot, next : FunctionalTimeout(slot, next)
  BY DEF FunctionalTimeouts
<1>2. told' = told
  BY <1>1 DEF FunctionalTimeout
<1>3. CASE /\ slot \in Slots /\ clients[slot].state = "WAITING_FOR_RESULT"
           /\ ~clients[slot].external /\ clients[slot].age >= CommandTimeout
  BY <1>1, <1>2, <1>3, ReportingFails DEF FunctionalTimeout, Busy
<1>4. CASE ~(/\ slot \in Slots /\ clients[slot].state = "WAITING_FOR_RESULT"
             /\ ~clients[slot].external /\ clients[slot].age >= CommandTimeout)
  BY <1>1, <1>2, <1>4, ReportingUnchanged DEF FunctionalTimeout
<1> QED
  BY <1>3, <1>4

LEMMA ReportingOwnedSenderCompletion ==
  ASSUME Reporting, Owning, OwnedSenderCompletion
  PROVE  Reporting'
<1>1. told' = told
  BY DEF OwnedSenderCompletion
<1>2. CASE ~(S!Terminal(sender) /\ messageOwner = "COMMAND_CLIENT")
  BY <1>1, <1>2, ReportingUnchanged DEF OwnedSenderCompletion
<1>3. CASE S!Terminal(sender) /\ messageOwner = "COMMAND_CLIENT"
  <2>1. senderSlot \in Slots /\ Busy(senderSlot)
    BY <1>3 DEF Owning, Assigned, Busy
  <2>2. CASE sender.state = "ACKNOWLEDGED"
    <3>1. /\ UNCHANGED <<notification, ended>>
          /\ clients' = [clients EXCEPT ![senderSlot].state = "WAITING_FOR_RESULT"]
      BY <1>3, <2>2 DEF OwnedSenderCompletion
    <3>2. \A s \in Slots :
            /\ clients'[s].tx = clients[s].tx
            /\ clients'[s].state = "IDLE" <=> clients[s].state = "IDLE"
      BY <2>1, <3>1 DEF Owning, ClientRecords, Busy
    <3> QED
      BY <1>1, <3>1, <3>2, ReportingKept
  <2>3. CASE sender.state # "ACKNOWLEDGED"
    <3>1. Fail(senderSlot)
      BY <1>3, <2>3 DEF OwnedSenderCompletion
    <3> QED
      BY <1>1, <2>1, <3>1, ReportingFails
  <2> QED
    BY <2>2, <2>3
<1> QED
  BY <1>2, <1>3

\* Steps that change neither a client nor the notification.
LEMMA ReportingElsewhere ==
  ASSUME Reporting,
         \/ \E tx \in Background : StartBackground(tx)
         \/ TakeBackground
         \/ \E tx \in Raw : StartReliable(tx)
         \/ ResetSender \/ TakeMailbox \/ Enable \/ DisabledLoop
         \/ ProcessSendCompletion \/ ProcessReceivedFrame \/ DispatcherLoop
         \/ SenderLoop \/ ProcessDispatcher \/ DispatchApplicationAck
         \/ DispatchSenderFrame \/ DispatchHeartbeat \/ LateTick \/ SendCallback
         \/ PeerAck \/ PeerResult \/ PeerRepeat \/ PeerCommand \/ PeerHeartbeat
         \/ UNCHANGED vars
  PROVE  Reporting'
<1>1. UNCHANGED <<notification, ended, told, clients>>
  BY DEF StartBackground, TakeBackground, StartReliable, ResetSender, TakeMailbox,
         Enable, DisabledLoop, ProcessSendCompletion, ProcessReceivedFrame,
         DispatcherLoop, SenderLoop, ProcessDispatcher, DispatchApplicationAck,
         DispatchSenderFrame, DispatchHeartbeat, LateTick, SendCallback, PeerAck,
         PeerResult, PeerRepeat, PeerCommand, PeerHeartbeat, vars, node, history
<1> QED
  BY <1>1, ReportingUnchanged

LEMMA ReportingStep ==
  ASSUME Owning, Receiving, Reporting, [Next]_vars
  PROVE  Reporting'
<1>1. CASE LoopStep
  BY <1>1, ReportingElsewhere, ReportingDispatchNotification,
     ReportingProcessApplicationMessage, ReportingFunctionalTimeouts,
     ReportingOwnedSenderCompletion
  DEF LoopStep
<1>2. CASE Calls
  BY <1>2, ReportingElsewhere, ReportingStartCommand, ReportingCancelCommand,
     ReportingClients, ReportingDisable
  DEF Calls
<1>3. CASE ~(LoopStep \/ Calls)
  BY <1>3, ReportingElsewhere, ReportingClients DEF Next
<1> QED
  BY <1>1, <1>2, <1>3

-----------------------------------------------------------------------------
(* Who owns the radio, in a runtime that is never disabled                 *)

LEMMA TransmittingKept ==
  ASSUME Transmitting, UNCHANGED <<enabled, radioOwner, airborne, completions>>,
         sender'.inFlight => sender.inFlight
  PROVE  Transmitting'
BY DEF Transmitting, Outstanding

\* Calls and steps that give the sender no frame.
LEMMA TransmittingSender ==
  ASSUME Transmitting, Owning, Receiving, ~CanDisable,
         \/ Calls \/ SenderLoop \/ ProcessReceivedFrame \/ OwnedSenderCompletion
         \/ ProcessDispatcher \/ Tick
  PROVE  Transmitting'
<1>1. UNCHANGED <<enabled, radioOwner, airborne, completions>>
  BY DEF Calls, StartCommand, CancelCommand, UseExternalDeadline, StartBackground,
         TakeBackground, StartReliable, ResetSender, TakeMailbox, Disable, Enable,
         SenderLoop, ProcessReceivedFrame, OwnedSenderCompletion,
         ProcessDispatcher, Tick, world
<1>2. \/ sender' = sender
      \/ sender' = S!Reset(sender)
      \/ \E kind \in {"COMMAND", "RESULT"}, tx \in AllTransactions :
           sender' = S!Start(sender, "peer", kind, tx, 1)
      \/ sender' = S!Loop(sender)
      \/ sender' = S!Elapse(sender)
      \/ \E tx, sequence, status :
           sender' = S!AcceptAck(sender, tx, sequence, status)
      \/ sender' = S!Start(sender, "peer", "RESULT", dispatcher.tx, 1)
  BY DEF Calls, StartCommand, CancelCommand, CancelSlot, UseExternalDeadline,
         StartBackground, TakeBackground, StartReliable, ResetSender, TakeMailbox,
         Disable, Enable, SenderLoop, ProcessReceivedFrame, OwnedSenderCompletion,
         ProcessDispatcher, Tick, AllTransactions
<1>3. SenderSound(sender)
  BY DEF Owning
<1>4. sender'.inFlight => sender.inFlight
  <2>1. dispatcher.tx \in AllTransactions
    BY DEF Receiving, Dispatchers
  <2>2. ASSUME NEW kind \in {"COMMAND", "RESULT"}, NEW tx \in AllTransactions
        PROVE  S!Start(sender, "peer", kind, tx, 1).inFlight = FALSE
    BY <1>3, SenderStarts
  <2>3. S!Reset(sender).inFlight = FALSE
    BY <1>3, SenderResets
  <2>4. /\ S!Loop(sender).inFlight => sender.inFlight
        /\ S!Elapse(sender).inFlight => sender.inFlight
    BY <1>3, SenderLoops, SenderElapses DEF Carries
  <2>5. ASSUME NEW tx, NEW sequence, NEW status
        PROVE  S!AcceptAck(sender, tx, sequence, status).inFlight => sender.inFlight
    BY <1>3, SenderAcceptsAck DEF Carries
  <2> QED
    BY <1>2, <2>1, <2>2, <2>3, <2>4, <2>5
<1> QED
  BY <1>1, <1>4, TransmittingKept

\* Steps that touch neither the radio nor the sender.
LEMMA TransmittingElsewhere ==
  ASSUME Transmitting,
         \/ DisabledLoop \/ DispatchNotification \/ ProcessApplicationMessage
         \/ FunctionalTimeouts \/ DispatcherLoop \/ LateTick \/ PeerAck
         \/ PeerResult \/ PeerRepeat \/ PeerCommand \/ PeerHeartbeat
         \/ UNCHANGED vars
  PROVE  Transmitting'
<1>1. UNCHANGED <<enabled, sender, radioOwner, airborne, completions>>
  BY DEF DisabledLoop, DispatchNotification, ProcessApplicationMessage,
         FunctionalTimeouts, FunctionalTimeout, DispatcherLoop, LateTick, PeerAck,
         PeerResult, PeerRepeat, PeerCommand, PeerHeartbeat, vars, node, world,
         Transmitting
<1> QED
  BY <1>1, TransmittingKept

\* The driver calls back for the one frame it has.
LEMMA TransmittingSendCallback ==
  ASSUME Transmitting, SendCallback
  PROVE  Transmitting'
<1>1. UNCHANGED <<enabled, sender, radioOwner>>
  BY DEF SendCallback, node
<1>2. /\ radioOwner \in RadioOwners /\ airborne = <<radioOwner>>
      /\ completions = <<>>
  BY DEF SendCallback, Transmitting, Outstanding
<1>3. airborne' = <<>> /\ Head(airborne) = radioOwner
  BY <1>2 DEF SendCallback
<1>4. Len(completions) < CompletionCapacity
  BY <1>2, EndpointAssumption
<1>5. PICK ok \in BOOLEAN :
        completions' = Append(completions, [for |-> Head(airborne), ok |-> ok])
  BY <1>4 DEF SendCallback
<1>6. completions' = <<[for |-> radioOwner, ok |-> ok]>>
  BY <1>2, <1>3, <1>5
<1>7. Outstanding'
  BY <1>1, <1>2, <1>3, <1>6 DEF Outstanding
<1> QED
  BY <1>1, <1>7 DEF Transmitting

\* process_send_completion_: the completion is the radio owner's.
LEMMA TransmittingProcessSendCompletion ==
  ASSUME Transmitting, Owning, ProcessSendCompletion
  PROVE  Transmitting'
<1>1. UNCHANGED <<enabled, airborne>>
  BY DEF ProcessSendCompletion
<1>2. CASE completions = <<>>
  BY <1>1, <1>2, TransmittingKept DEF ProcessSendCompletion
<1>3. CASE completions # <<>>
  <2>1. PICK ok \in BOOLEAN : completions = <<[for |-> radioOwner, ok |-> ok]>>
    BY <1>3 DEF Transmitting, Outstanding
  <2>2. airborne = <<>>
    BY <1>3 DEF Transmitting, Outstanding
  <2>3. PICK c : c = [for |-> radioOwner, ok |-> ok]
    OBVIOUS
  <2>4. c.ok = ok /\ completions = <<c>>
    BY <2>1, <2>3
  <2>5. Head(completions).ok = ok /\ Tail(completions) = <<>>
    BY <2>4
  <2>6. radioOwner' = "NONE" /\ completions' = <<>>
    BY <1>3, <2>5 DEF ProcessSendCompletion
  <2>7. sender'.inFlight = FALSE
    <3>1. SenderSound(sender)
      BY DEF Owning
    <3>2. CASE radioOwner = "SENDER"
      BY <1>3, <2>5, <3>1, <3>2, SenderCompletesFrame DEF ProcessSendCompletion
    <3>3. CASE radioOwner # "SENDER"
      BY <1>3, <3>1, <3>3
      DEF ProcessSendCompletion, Transmitting, SenderSound, SenderRecords
    <3> QED
      BY <3>2, <3>3
  <2> QED
    BY <1>1, <2>2, <2>6, <2>7 DEF Transmitting, Outstanding
<1> QED
  BY <1>2, <1>3

\* A frame goes to the driver only when the radio is free.
LEMMA TransmittingTransmit ==
  ASSUME Transmitting, radioOwner = "NONE", NEW who \in RadioOwners,
         Transmit(who), UNCHANGED <<enabled, completions>>,
         sender'.inFlight => who = "SENDER"
  PROVE  Transmitting'
<1>1. airborne = <<>> /\ completions = <<>>
  BY DEF Transmitting, Outstanding, RadioOwners
<1>2. airborne' = <<who>> /\ radioOwner' = who
  BY <1>1 DEF Transmit
<1> QED
  BY <1>1, <1>2 DEF Transmitting, Outstanding

LEMMA TransmittingDispatches ==
  ASSUME Transmitting, Owning,
         DispatchApplicationAck \/ DispatchSenderFrame \/ DispatchHeartbeat
  PROVE  Transmitting'
<1>1. UNCHANGED <<enabled, completions>>
  BY DEF DispatchApplicationAck, DispatchSenderFrame, DispatchHeartbeat
<1>2. radioOwner = "NONE" => ~sender.inFlight
  BY DEF Transmitting
<1>3. CASE DispatchApplicationAck
  <2>1. /\ sender' = sender
        /\ \/ UNCHANGED <<radioOwner, airborne>>
           \/ radioOwner = "NONE" /\ Transmit("ACK")
    BY <1>3 DEF DispatchApplicationAck
  <2> QED
    BY <1>1, <1>2, <2>1, TransmittingKept, TransmittingTransmit DEF RadioOwners
<1>4. CASE DispatchHeartbeat
  <2>1. /\ sender' = sender
        /\ \/ UNCHANGED <<radioOwner, airborne>>
           \/ radioOwner = "NONE" /\ Transmit("HEARTBEAT")
    BY <1>4 DEF DispatchHeartbeat
  <2> QED
    BY <1>1, <1>2, <2>1, TransmittingKept, TransmittingTransmit DEF RadioOwners
<1>5. CASE DispatchSenderFrame
  <2>1. CASE ~(radioOwner = "NONE" /\ S!CanTakeFrame(sender))
    BY <1>1, <1>5, <2>1, TransmittingKept DEF DispatchSenderFrame
  <2>2. CASE radioOwner = "NONE" /\ S!CanTakeFrame(sender)
    <3>1. CASE Transmit("SENDER")
      BY <1>1, <2>2, <3>1, TransmittingTransmit DEF RadioOwners
    <3>2. CASE /\ sender' = S!CompleteFrame(S!TakeFrame(sender), FALSE)
               /\ UNCHANGED <<radioOwner, airborne>>
      <4>1. PICK t : t = S!TakeFrame(sender)
        OBVIOUS
      <4>2. SenderSound(t)
        BY <2>2, <4>1, SenderTakesFrame DEF Owning
      <4>3. S!CompleteFrame(t, FALSE).inFlight = FALSE
        BY <4>2, SenderCompletesFrame
      <4> QED
        BY <1>1, <3>2, <4>1, <4>3, TransmittingKept
    <3> QED
      BY <1>5, <2>2, <3>1, <3>2 DEF DispatchSenderFrame
  <2> QED
    BY <2>1, <2>2
<1> QED
  BY <1>3, <1>4, <1>5

LEMMA TransmittingStep ==
  ASSUME Owning, Receiving, Transmitting, ~CanDisable, [Next]_vars
  PROVE  Transmitting'
<1>1. CASE LoopStep
  BY <1>1, TransmittingSender, TransmittingElsewhere, TransmittingDispatches,
     TransmittingProcessSendCompletion
  DEF LoopStep
<1>2. CASE ~LoopStep
  BY <1>2, TransmittingSender, TransmittingElsewhere, TransmittingSendCallback
  DEF Next
<1> QED
  BY <1>1, <1>2

-----------------------------------------------------------------------------
(* The theorems                                                            *)

LEMMA EndpointInitInv == Init => EndpointInv /\ Transmitting
<1> SUFFICES ASSUME Init PROVE EndpointInv /\ Transmitting
  OBVIOUS
<1>1. SenderSound(sender) /\ sender.state = "IDLE" /\ sender.inFlight = FALSE
  BY DEF Init, S!InitialSender, SenderSound, SenderRecords, S!SenderStates,
         S!DeliveryStates, AllTransactions
<1>2. /\ clients \in [Slots -> ClientRecords]
      /\ \A s \in Slots : clients[s].state = "IDLE"
  BY IdleClientOK DEF Init, IdleClientTyped
<1>3. background \in [tx : AllTransactions, ready : BOOLEAN,
                      used : SUBSET AllTransactions] /\ ~background.ready
  BY DEF Init, AllTransactions
<1>4. Owning
  BY <1>1, <1>2, <1>3, EndpointAssumption DEF Init, Owning, Assigned
<1>5. RuntimeSound(runtime)
  BY EmptyBufferTyped DEF Init, R!InitialRuntime, RuntimeSound, RuntimeRecords
<1>6. dispatcher \in Dispatchers
  BY DEF Init, IdleDispatcher, Dispatchers, AllTransactions
<1>7. IsFiniteSet(results)
  BY FS_EmptySet DEF Init
<1>8. rx \in Seq(Events) /\ airborne \in Seq(RadioOwners)
      /\ completions \in Seq(Completions)
  BY DEF Init
<1>9. Receiving
  BY <1>5, <1>6, <1>7, <1>8 DEF Init, Receiving
<1>10. Genuine(rx, beats.answered)
  BY DEF Init, Genuine
<1>11. Beating
  BY <1>10, HeartInitial DEF Init, Beating
<1>12. Working
  BY <1>2 DEF Working, Busy
<1>13. notification = NoMessage /\ \A c \in Commands : told[c] = 0 /\ ended[c] = "none"
  BY DEF Init
<1>14. OneTerminalReport /\ DecodedResultReported
  BY <1>13 DEF OneTerminalReport, DecodedResultReported, Pending
<1>15. Reporting
  BY <1>12, <1>13, <1>14 DEF Init, Reporting
<1>16. Transmitting
  BY <1>1 DEF Init, Transmitting, Outstanding
<1> QED
  BY <1>4, <1>9, <1>11, <1>15, <1>16 DEF EndpointInv

\* The inductive invariant of the endpoint, in every build and whatever calls
\* the other components make, disabling the runtime included: sender, clients,
\* receive path, heartbeat and reports agree (espnow_net_protocol.cpp, loop()).
THEOREM EndpointInvariance == Spec => []EndpointInv
<1>1. Init => EndpointInv
  BY EndpointInitInv
<1>2. EndpointInv /\ [Next]_vars => EndpointInv'
  BY OwningStep, ReceivingStep, BeatingStep, ReportingStep DEF EndpointInv
<1> QED
  BY <1>1, <1>2, PTL DEF Spec

\* The shared sender works for the party recorded as its owner, and for a
\* client exactly while that client waits for its delivery ACK.
THEOREM EndpointSenderOwnership == Spec => []SenderOwnership
<1>1. EndpointInv => SenderOwnership
  BY DEF EndpointInv, Owning, Assigned, SenderOwnership
<1> QED
  BY <1>1, EndpointInvariance, PTL

\* A result that was consumed reaches the observer, even if another command
\* fails in the same iteration.
THEOREM EndpointDecodedResultReported == Spec => []DecodedResultReported
<1>1. EndpointInv => DecodedResultReported
  BY DEF EndpointInv, Reporting
<1> QED
  BY <1>1, EndpointInvariance, PTL

\* The observer hears at most one terminal result of a command, and only when
\* the command is over.
THEOREM EndpointOneTerminalReport == Spec => []OneTerminalReport
<1>1. EndpointInv => OneTerminalReport
  BY DEF EndpointInv, Reporting
<1> QED
  BY <1>1, EndpointInvariance, PTL

\* Every PING is counted once, for every interval and timeout.
THEOREM EndpointHeartbeatAccounted == Spec => []HeartbeatAccounted
<1>1. EndpointInv => HeartbeatAccounted
  BY DEF EndpointInv, Beating, HeartSound, HeartbeatAccounted
<1> QED
  BY <1>1, EndpointInvariance, PTL

\* A PING is credited only if the peer answered that very PING.
THEOREM EndpointHeartbeatGenuine == Spec => []HeartbeatGenuine
<1>1. EndpointInv => HeartbeatGenuine
  BY DEF EndpointInv, Beating, HeartbeatGenuine
<1> QED
  BY <1>1, EndpointInvariance, PTL

\* In a runtime that is never disabled, one frame is in flight at a time and
\* its completion is credited to its owner.  (Disabling forgets the owner of a
\* frame that is with the driver, espnow_net_protocol.cpp:87.)
THEOREM EndpointOneFrameInFlight ==
  ASSUME ~CanDisable
  PROVE  Spec => []OneFrameInFlight
<1>1. Init => EndpointInv /\ Transmitting
  BY EndpointInitInv
<1>2. EndpointInv /\ Transmitting /\ [Next]_vars => Transmitting'
  BY TransmittingStep DEF EndpointInv
<1>3. Transmitting => OneFrameInFlight
  <2> SUFFICES ASSUME Transmitting PROVE OneFrameInFlight
    OBVIOUS
  <2>1. PICK o : o = airborne \o [i \in DOMAIN completions |-> completions[i].for]
    OBVIOUS
  <2>2. /\ radioOwner = "NONE" => o = <<>>
        /\ radioOwner # "NONE" => o = <<radioOwner>>
    <3>1. CASE radioOwner = "NONE" /\ airborne = <<>> /\ completions = <<>>
      <4>1. [i \in DOMAIN completions |-> completions[i].for] = <<>>
        BY <3>1
      <4> QED
        BY <2>1, <3>1, <4>1
    <3>2. CASE /\ radioOwner \in RadioOwners /\ airborne = <<radioOwner>>
               /\ completions = <<>>
      <4>1. [i \in DOMAIN completions |-> completions[i].for] = <<>>
        BY <3>2
      <4> QED
        BY <2>1, <3>2, <4>1 DEF RadioOwners
    <3>3. ASSUME radioOwner \in RadioOwners, airborne = <<>>, NEW ok \in BOOLEAN,
                 completions = <<[for |-> radioOwner, ok |-> ok]>>
          PROVE  o = <<radioOwner>> /\ radioOwner # "NONE"
      <4>1. PICK c : c = [for |-> radioOwner, ok |-> ok]
        OBVIOUS
      <4>2. completions = <<c>> /\ c.for = radioOwner
        BY <3>3, <4>1
      <4>3. [i \in DOMAIN completions |-> completions[i].for] = <<radioOwner>>
        BY <4>2
      <4> QED
        BY <2>1, <3>3, <4>3 DEF RadioOwners
    <3> QED
      BY <3>1, <3>2, <3>3 DEF Transmitting, Outstanding
  <2> QED
    BY <2>1, <2>2 DEF OneFrameInFlight, Transmitting
<1> QED
  BY <1>1, <1>2, <1>3, EndpointInvariance, PTL DEF Spec
=============================================================================
