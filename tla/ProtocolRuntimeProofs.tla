------------------------ MODULE ProtocolRuntimeProofs ------------------------
(***************************************************************************)
(* The runtime for every set of messages, every set of peers and every     *)
(* capacity of the duplicate cache, fed with any frames in any order.      *)
(*                                                                         *)
(* The inductive invariant says of the reassembly buffer what the flags    *)
(* alone do not: it is empty or holds fragments of one message, each of    *)
(* which came from the peer that opened the assembly; and the duplicate    *)
(* cache is the history of what was held.                                  *)
(***************************************************************************)
EXTENDS ProtocolRuntime, TLAPS

AckBodies == {m.body : m \in Messages} \cup {NoAck}
PendingAcks ==
  [peer : Peers, key : Keys, status : {"ACCEPTED", "DUPLICATE"}] \cup {NoAck}

RuntimeRecords ==
  [buffer : Buffers, assembling : BOOLEAN, activePeer : Peers \cup {NoPeer},
   messageReady : BOOLEAN, messagePeer : Peers \cup {NoPeer},
   deliveryAck : AckBodies, applicationAck : PendingAcks,
   duplicates : Seq(Keys)]

\* The reassembler holds nothing or fragments of one message.
BufferOK(b) ==
  \/ b = EmptyBuffer
  \/ /\ b.message \in Messages
     /\ b.received \subseteq 0 .. b.message.count - 1
     /\ b.damaged \subseteq b.received

\* The two flags, and no damage in what is held.
FlagsExact(r) ==
  /\ r.assembling <=> r.buffer.message # NoMessage /\ ~Complete(r.buffer)
  /\ r.messageReady <=> Complete(r.buffer)
  /\ r.messageReady => r.buffer.damaged = {} /\ r.messagePeer = r.activePeer
                       /\ r.buffer.message.ackRequired
  /\ r.assembling \/ r.messageReady => r.activePeer \in Peers

\* Every intact fragment in the buffer was heard from the assembly's peer.
Provenance(r, h) ==
  r.buffer.message # NoMessage /\ r.buffer.message.ackRequired =>
    \A i \in r.buffer.received \ r.buffer.damaged :
      <<r.activePeer, r.buffer.message, i>> \in h

\* A runtime between two calls.
Sound(r, h) ==
  /\ r \in RuntimeRecords /\ BufferOK(r.buffer) /\ FlagsExact(r)
  /\ Provenance(r, h)

Distinct(s) == \A i, j \in DOMAIN s : s[i] = s[j] => i = j

-----------------------------------------------------------------------------
(* The reassembler                                                         *)

\* The empty buffer is a buffer, and is not complete.
LEMMA EmptyBufferOK ==
  /\ EmptyBuffer \in Buffers /\ BufferOK(EmptyBuffer)
  /\ EmptyBuffer.message = NoMessage /\ ~Complete(EmptyBuffer)
  /\ EmptyBuffer.received = {} /\ EmptyBuffer.damaged = {}
BY DEF EmptyBuffer, Buffers, BufferOK, Complete

\* Emptying the buffer of a runtime that holds no message leaves a sound
\* runtime with nothing under assembly.
LEMMA EmptiedSound ==
  ASSUME NEW r \in RuntimeRecords, NEW h, NEW q,
         q = [r EXCEPT !.buffer = EmptyBuffer, !.assembling = FALSE,
                       !.messageReady = FALSE]
  PROVE  Sound(q, h)
<1>1. /\ q \in RuntimeRecords /\ q.buffer = EmptyBuffer
      /\ q.assembling = FALSE /\ q.messageReady = FALSE
  BY EmptyBufferOK DEF RuntimeRecords
<1> QED
  BY <1>1, EmptyBufferOK DEF Sound, FlagsExact, Provenance

\* A frame of another peer abandons the assembly.
LEMMA SwitchPeerSound ==
  ASSUME NEW r, NEW h, Sound(r, h), ~r.messageReady, NEW peer \in Peers, NEW q,
         q = SwitchPeer(r, peer)
  PROVE  /\ Sound(q, h) /\ ~q.messageReady
         /\ q.assembling => q.activePeer = peer
         /\ q.duplicates = r.duplicates /\ q.applicationAck = r.applicationAck
<1>0. r \in RuntimeRecords /\ r.messageReady = FALSE
  BY DEF Sound, RuntimeRecords
<1>1. CASE r.assembling /\ peer # r.activePeer
  <2>1. q = [r EXCEPT !.buffer = EmptyBuffer, !.assembling = FALSE]
    BY <1>1 DEF SwitchPeer, DropAssembly
  <2>2. q = [r EXCEPT !.buffer = EmptyBuffer, !.assembling = FALSE,
                      !.messageReady = FALSE]
    BY <1>0, <2>1 DEF RuntimeRecords
  <2>3. /\ q.assembling = FALSE /\ q.messageReady = FALSE
        /\ q.duplicates = r.duplicates /\ q.applicationAck = r.applicationAck
    BY <1>0, <2>2 DEF RuntimeRecords
  <2> QED BY <1>0, <2>2, <2>3, EmptiedSound
<1>2. CASE ~(r.assembling /\ peer # r.activePeer)
  BY <1>2 DEF SwitchPeer
<1> QED BY <1>1, <1>2

\* The fields of a frame the codec accepts.
LEMMA FrameFields ==
  ASSUME NEW f \in Frames
  PROVE  /\ f.message \in Messages /\ f.index \in 0 .. f.message.count - 1
         /\ f.intact \in BOOLEAN /\ f.valid = TRUE
<1>1. PICK m \in Messages : f \in [message : {m}, index : 0 .. m.count - 1,
                                   intact : BOOLEAN, valid : {TRUE}]
  BY DEF Frames
<1> QED BY <1>1

\* What hearing a frame adds to the history.
Heard(h, peer, f) ==
  IF f.valid /\ f.intact /\ f.message.ackRequired
  THEN h \cup {<<peer, f.message, f.index>>} ELSE h

\* Storing a fragment: the buffer now holds the frame's message, and whatever is
\* intact in it was heard from this peer.
LEMMA StoreSound ==
  ASSUME NEW b \in Buffers, BufferOK(b), NEW f \in Frames,
         b.message \in {NoMessage, f.message}, NEW c, c = StoreFragment(b, f)
  PROVE  /\ c \in Buffers /\ BufferOK(c) /\ c.message = f.message
         /\ \A i \in c.received \ c.damaged :
              \/ i = f.index /\ f.intact
              \/ b.message = f.message /\ i \in b.received \ b.damaged
<1> USE MessagesAssumption
<1>1. /\ f.message \in Messages /\ f.index \in 0 .. f.message.count - 1
      /\ f.intact \in BOOLEAN
  BY FrameFields
<1>2. /\ c.message = f.message /\ c.received = b.received \cup {f.index}
      /\ c.damaged = IF f.intact THEN b.damaged \ {f.index}
                                 ELSE b.damaged \cup {f.index}
      /\ c = [message |-> c.message, received |-> c.received,
              damaged |-> c.damaged]
  BY DEF StoreFragment
<1>3. /\ b.received \subseteq 0 .. f.message.count - 1
      /\ b.damaged \subseteq b.received
      /\ b.message = NoMessage => b.received = {}
  BY EmptyBufferOK DEF BufferOK
<1>4. /\ c.received \subseteq 0 .. f.message.count - 1
      /\ c.damaged \subseteq c.received
  BY <1>1, <1>2, <1>3
<1>5. c \in Buffers
  BY <1>1, <1>2, <1>4 DEF Buffers
<1>6. BufferOK(c)
  BY <1>1, <1>2, <1>4 DEF BufferOK
<1>7. \A i \in c.received \ c.damaged :
        \/ i = f.index /\ f.intact
        \/ b.message = f.message /\ i \in b.received \ b.damaged
  BY <1>1, <1>2, <1>3
<1> QED BY <1>2, <1>5, <1>6, <1>7

\* What the runtime looks like when a fragment has just been stored.
Stored(t, r, h, peer, f) ==
  /\ t \in RuntimeRecords /\ BufferOK(t.buffer)
  /\ t.buffer.message = f.message /\ t.activePeer = peer
  /\ Provenance(t, h) /\ t.messageReady = FALSE
  /\ t.duplicates = r.duplicates /\ t.applicationAck = r.applicationAck

\* A frame replaces an unrelated assembly or extends the one of its peer.
LEMMA AssembleSound ==
  ASSUME NEW r, NEW h, Sound(r, h), ~r.messageReady, NEW peer \in Peers,
         r.assembling => r.activePeer = peer, NEW f \in Frames, NEW t,
         t = Assemble(r, peer, f)
  PROVE  Stored(t, r, Heard(h, peer, f), peer, f)
<1>0. /\ r \in RuntimeRecords /\ r.messageReady = FALSE /\ BufferOK(r.buffer)
      /\ Provenance(r, h) /\ r.buffer \in Buffers
  BY DEF Sound, RuntimeRecords
<1>1. PICK q : q = IF Mismatch(r.buffer, f) THEN DropAssembly(r) ELSE r
  OBVIOUS
<1>2. /\ q \in RuntimeRecords /\ q.messageReady = FALSE
      /\ q.duplicates = r.duplicates /\ q.applicationAck = r.applicationAck
      /\ q.buffer \in Buffers /\ BufferOK(q.buffer)
      /\ q.buffer.message \in {NoMessage, f.message}
      /\ q.assembling => r.assembling /\ q.activePeer = r.activePeer
      /\ q.buffer.message # NoMessage => q.buffer = r.buffer
  <2>1. CASE Mismatch(r.buffer, f)
    <3>1. q = [r EXCEPT !.buffer = EmptyBuffer, !.assembling = FALSE]
      BY <1>1, <2>1 DEF DropAssembly
    <3>2. /\ q \in RuntimeRecords /\ q.messageReady = FALSE
          /\ q.duplicates = r.duplicates /\ q.applicationAck = r.applicationAck
          /\ q.buffer = EmptyBuffer /\ q.assembling = FALSE
      BY <1>0, <3>1, EmptyBufferOK DEF RuntimeRecords
    <3> QED BY <3>2, EmptyBufferOK
  <2>2. CASE ~Mismatch(r.buffer, f)
    BY <1>0, <1>1, <2>2 DEF Mismatch
  <2> QED BY <2>1, <2>2
<1>3. PICK c : c = StoreFragment(q.buffer, f)
  OBVIOUS
<1>4. /\ c \in Buffers /\ BufferOK(c) /\ c.message = f.message
      /\ \A i \in c.received \ c.damaged :
           \/ i = f.index /\ f.intact
           \/ /\ q.buffer.message = f.message
              /\ i \in q.buffer.received \ q.buffer.damaged
  BY <1>2, <1>3, StoreSound
<1>5. t = [q EXCEPT !.buffer = c,
                    !.activePeer = IF q.assembling THEN q.activePeer ELSE peer]
  BY <1>1, <1>3 DEF Assemble
<1>6. t = [q EXCEPT !.buffer = c, !.activePeer = peer]
  BY <1>2, <1>5
<1>7. /\ t \in RuntimeRecords /\ t.buffer = c /\ t.activePeer = peer
      /\ t.messageReady = FALSE
      /\ t.duplicates = q.duplicates /\ t.applicationAck = q.applicationAck
  BY <1>2, <1>4, <1>6 DEF RuntimeRecords
<1>8. Provenance(t, Heard(h, peer, f))
  <2> SUFFICES ASSUME f.message.ackRequired, NEW i \in c.received \ c.damaged
               PROVE  <<peer, f.message, i>> \in Heard(h, peer, f)
    BY <1>4, <1>7 DEF Provenance
  <2>1. CASE i = f.index /\ f.intact
    BY <2>1, FrameFields DEF Heard
  <2>2. CASE q.buffer.message = f.message
             /\ i \in q.buffer.received \ q.buffer.damaged
    <3>1. f.message # NoMessage
      BY FrameFields, MessagesAssumption
    <3>2. q.buffer = r.buffer
      BY <1>2, <2>2, <3>1
    <3>3. r.assembling
      BY <1>0, <2>2, <3>1, <3>2 DEF Sound, FlagsExact
    <3>4. <<peer, f.message, i>> \in h
      BY <1>0, <2>2, <3>1, <3>2, <3>3 DEF Provenance
    <3> QED BY <3>4 DEF Heard
  <2> QED BY <1>4, <2>1, <2>2
<1> QED BY <1>2, <1>4, <1>7, <1>8 DEF Stored

-----------------------------------------------------------------------------
(* What follows a stored fragment                                          *)

\* A repetition of, or the first copy of, the message with this key.
Repeated(r, u, key) ==
  /\ ~u.messageReady /\ u.duplicates = r.duplicates
  /\ \/ u.applicationAck = r.applicationAck
     \/ u.applicationAck.key = key /\ Contains(r.duplicates, key)
FirstCopy(r, u, key) ==
  /\ u.messageReady /\ ~Contains(r.duplicates, key)
  /\ u.duplicates = Observe(r.duplicates, key)
  /\ u.applicationAck.key = key

\* The cache keeps the newest keys.
LEMMA ObserveKeys ==
  ASSUME NEW s \in Seq(Keys), NEW key \in Keys
  PROVE  /\ Observe(s, key) \in Seq(Keys)
         /\ Len(s) <= CacheCapacity => Len(Observe(s, key)) <= CacheCapacity
<1> USE RuntimeAssumption
<1>1. CASE Len(s) < CacheCapacity
  BY <1>1 DEF Observe
<1>2. CASE ~(Len(s) < CacheCapacity)
  <2>1. s # <<>>
    BY <1>2
  <2> QED BY <1>2, <2>1 DEF Observe
<1> QED BY <1>1, <1>2

\* An emptied buffer, whatever else is staged.
LEMMA ReleasedSound ==
  ASSUME NEW r \in RuntimeRecords, r.messageReady = FALSE, NEW h, NEW q,
         q = [r EXCEPT !.buffer = EmptyBuffer, !.assembling = FALSE]
  PROVE  /\ Sound(q, h) /\ q.messageReady = FALSE
         /\ q.duplicates = r.duplicates /\ q.applicationAck = r.applicationAck
<1>1. q = [r EXCEPT !.buffer = EmptyBuffer, !.assembling = FALSE,
                    !.messageReady = FALSE]
  BY DEF RuntimeRecords
<1>2. Sound(q, h)
  BY <1>1, EmptiedSound
<1> QED BY <1>1, <1>2 DEF RuntimeRecords

\* The slots for ACKs are independent of the reassembler.
LEMMA AckSlots ==
  ASSUME NEW r, NEW h, Sound(r, h), NEW q,
         \/ \E a \in PendingAcks : q = [r EXCEPT !.applicationAck = a]
         \/ \E a \in AckBodies : q = [r EXCEPT !.deliveryAck = a]
  PROVE  /\ Sound(q, h) /\ q.messageReady = r.messageReady
         /\ q.duplicates = r.duplicates
<1>0. r \in RuntimeRecords
  BY DEF Sound
<1>1. /\ q \in RuntimeRecords /\ q.buffer = r.buffer
      /\ q.activePeer = r.activePeer /\ q.messagePeer = r.messagePeer
      /\ q.duplicates = r.duplicates
  BY <1>0 DEF RuntimeRecords
<1>2. q.assembling = r.assembling /\ q.messageReady = r.messageReady
  BY <1>0 DEF RuntimeRecords
<1> QED BY <1>1, <1>2 DEF Sound, FlagsExact, Provenance

\* What a fragment leads to once it is stored.
LEMMA FinishSound ==
  ASSUME NEW t \in RuntimeRecords, BufferOK(t.buffer), NEW h, Provenance(t, h),
         t.buffer.message \in Messages, t.activePeer \in Peers,
         t.messageReady = FALSE, NEW u, u = Finish(t)
  PROVE  /\ Sound(u, h)
         /\ \/ Repeated(t, u, KeyOf(t.buffer.message))
            \/ /\ FirstCopy(t, u, KeyOf(t.buffer.message))
               /\ u.buffer = t.buffer
<1> USE MessagesAssumption
<1> DEFINE m == t.buffer.message
           key == KeyOf(m)
<1>0. m \in Messages /\ m # NoMessage /\ key \in Keys
  BY DEF Keys
<1>1. CASE ~Complete(t.buffer)
  <2>1. u = [t EXCEPT !.assembling = TRUE]
    BY <1>1 DEF Finish
  <2>2. /\ u \in RuntimeRecords /\ u.buffer = t.buffer
        /\ u.activePeer = t.activePeer /\ u.duplicates = t.duplicates
        /\ u.applicationAck = t.applicationAck
    BY <2>1 DEF RuntimeRecords
  <2>3. u.assembling = TRUE /\ u.messageReady = FALSE
    BY <2>1 DEF RuntimeRecords
  <2>4. FlagsExact(u) /\ Provenance(u, h)
    BY <1>0, <1>1, <2>2, <2>3 DEF FlagsExact, Provenance
  <2> QED BY <2>2, <2>3, <2>4 DEF Sound, Repeated
<1>2. CASE Complete(t.buffer)
  <2>0. PICK q : q = [t EXCEPT !.assembling = FALSE]
    OBVIOUS
  <2>1. /\ q \in RuntimeRecords /\ q.buffer = t.buffer
        /\ q.activePeer = t.activePeer /\ q.duplicates = t.duplicates
        /\ q.applicationAck = t.applicationAck
    BY <2>0 DEF RuntimeRecords
  <2>2. q.assembling = FALSE /\ q.messageReady = FALSE
    BY <2>0 DEF RuntimeRecords
  <2>3. u = IF q.buffer.damaged # {} THEN Release(q)
            ELSE IF q.buffer.message.kind = "ACK" THEN AcceptDeliveryAck(q)
            ELSE AcceptApplicationMessage(q)
    BY <1>2, <2>0 DEF Finish
  <2>4. PICK e : e = Release(q)
    OBVIOUS
  <2>5. /\ Sound(e, h) /\ e.messageReady = FALSE
        /\ e.duplicates = t.duplicates /\ e.applicationAck = t.applicationAck
    <3>1. e = [q EXCEPT !.buffer = EmptyBuffer, !.assembling = FALSE]
      BY <2>1, <2>2, <2>4 DEF Release, RuntimeRecords
    <3> QED BY <2>1, <2>2, <3>1, ReleasedSound
  <2>6. CASE u = e
    BY <2>5, <2>6 DEF Repeated
  <2>7. CASE /\ q.buffer.damaged = {} /\ q.buffer.message.kind = "ACK"
             /\ u # e
    <3>1. u = [e EXCEPT !.deliveryAck = m.body]
      BY <2>1, <2>3, <2>4, <2>7 DEF AcceptDeliveryAck
    <3>2. m.body \in AckBodies
      BY <1>0 DEF AckBodies
    <3>3. Sound(u, h) /\ u.messageReady = FALSE /\ u.duplicates = t.duplicates
      BY <2>5, <3>1, <3>2, AckSlots
    <3>4. u.applicationAck = t.applicationAck
      BY <2>5, <3>1 DEF Sound, RuntimeRecords
    <3> QED BY <3>3, <3>4 DEF Repeated
  <2>8. CASE /\ q.buffer.damaged = {} /\ q.buffer.message.kind # "ACK"
             /\ u # e
    <3>1. u = AcceptApplicationMessage(q) /\ m.ackRequired
      BY <2>1, <2>3, <2>4, <2>8 DEF AcceptApplicationMessage
    <3>2. CASE Contains(t.duplicates, key)
      <4>1. PICK a : a = [peer |-> t.activePeer, key |-> key,
                          status |-> "DUPLICATE"]
        OBVIOUS
      <4>2. a \in PendingAcks /\ a.key = key
        BY <1>0, <4>1 DEF PendingAcks
      <4>3. u = [e EXCEPT !.applicationAck = a]
        BY <2>1, <2>4, <3>1, <3>2, <4>1 DEF AcceptApplicationMessage
      <4>4. Sound(u, h) /\ u.messageReady = FALSE /\ u.duplicates = t.duplicates
        BY <2>5, <4>2, <4>3, AckSlots
      <4>5. u.applicationAck = a
        BY <2>5, <4>3 DEF Sound, RuntimeRecords
      <4> QED BY <3>2, <4>2, <4>4, <4>5 DEF Repeated
    <3>3. CASE ~Contains(t.duplicates, key)
      <4>1. PICK a : a = [peer |-> t.activePeer, key |-> key,
                          status |-> "ACCEPTED"]
        OBVIOUS
      <4>2. a \in PendingAcks /\ a.key = key
        BY <1>0, <4>1 DEF PendingAcks
      <4>3. PICK d : d = Observe(t.duplicates, key)
        OBVIOUS
      <4>4. d \in Seq(Keys)
        BY <1>0, <4>3, ObserveKeys DEF RuntimeRecords
      <4>5. u = [q EXCEPT !.messageReady = TRUE, !.messagePeer = q.activePeer,
                          !.duplicates = d, !.applicationAck = a]
        BY <2>1, <3>1, <3>3, <4>1, <4>3 DEF AcceptApplicationMessage
      <4>6. /\ u \in RuntimeRecords /\ u.buffer = t.buffer
            /\ u.activePeer = t.activePeer /\ u.messagePeer = t.activePeer
            /\ u.duplicates = d /\ u.applicationAck = a
        BY <2>1, <4>2, <4>4, <4>5 DEF RuntimeRecords
      <4>7. u.assembling = FALSE /\ u.messageReady = TRUE
        BY <2>1, <2>2, <4>5 DEF RuntimeRecords
      <4>8. FlagsExact(u) /\ Provenance(u, h)
        BY <1>0, <1>2, <2>1, <2>8, <3>1, <4>6, <4>7 DEF FlagsExact, Provenance
      <4> QED
        BY <3>3, <4>2, <4>3, <4>6, <4>7, <4>8 DEF Sound, FirstCopy
    <3> QED BY <3>2, <3>3
  <2> QED BY <2>3, <2>4, <2>6, <2>7, <2>8
<1> QED BY <1>1, <1>2

-----------------------------------------------------------------------------
(* The specification                                                       *)

\* The key just observed is in the cache, and a new one repeats none.
LEMMA ObserveDistinct ==
  ASSUME NEW s \in Seq(Keys), Distinct(s), NEW key \in Keys, ~Contains(s, key)
  PROVE  Distinct(Observe(s, key)) /\ Contains(Observe(s, key), key)
<1> USE RuntimeAssumption
<1>1. ASSUME NEW x \in Seq(Keys), Distinct(x), ~Contains(x, key)
      PROVE  Distinct(Append(x, key)) /\ Contains(Append(x, key), key)
  <2>1. /\ DOMAIN x = 1 .. Len(x) /\ Len(x) \in Nat
        /\ DOMAIN Append(x, key) = 1 .. Len(x) + 1
        /\ \A i \in 1 .. Len(x) : Append(x, key)[i] = x[i]
        /\ Append(x, key)[Len(x) + 1] = key
    OBVIOUS
  <2>2. \A i \in 1 .. Len(x) : x[i] # key
    BY <1>1, <2>1 DEF Contains
  <2> QED BY <1>1, <2>1, <2>2 DEF Distinct, Contains
<1>2. CASE Len(s) < CacheCapacity
  BY <1>1, <1>2 DEF Observe
<1>3. CASE ~(Len(s) < CacheCapacity)
  <2>1. /\ s # <<>> /\ Tail(s) \in Seq(Keys) /\ DOMAIN s = 1 .. Len(s)
        /\ Len(s) \in Nat /\ DOMAIN Tail(s) = 1 .. Len(s) - 1
        /\ \A i \in 1 .. Len(s) - 1 : Tail(s)[i] = s[i + 1]
    BY <1>3
  <2>2. \A i \in DOMAIN Tail(s) : i + 1 \in DOMAIN s /\ Tail(s)[i] = s[i + 1]
    BY <2>1
  <2>3. ~Contains(Tail(s), key)
    BY <2>2 DEF Contains
  <2>4. Distinct(Tail(s))
    <3> SUFFICES ASSUME NEW i \in DOMAIN Tail(s), NEW j \in DOMAIN Tail(s),
                        Tail(s)[i] = Tail(s)[j]
                 PROVE  i = j
      BY DEF Distinct
    <3>1. i + 1 = j + 1
      BY <2>2 DEF Distinct
    <3> QED BY <2>1, <3>1
  <2>5. Observe(s, key) = Append(Tail(s), key)
    BY <1>3 DEF Observe
  <2> QED BY <1>1, <2>1, <2>3, <2>4, <2>5
<1> QED BY <1>2, <1>3

RuntimeInv ==
  /\ Sound(runtime, heard)
  /\ recent = runtime.duplicates
  /\ Len(recent) <= CacheCapacity
  /\ OncePerWindow
  /\ AckImpliesHeld

\* The configured runtime.
LEMMA RuntimeInitInv == Init => RuntimeInv
<1> SUFFICES ASSUME Init PROVE RuntimeInv
  OBVIOUS
<1>1. /\ runtime \in RuntimeRecords /\ runtime.buffer = EmptyBuffer
      /\ runtime.assembling = FALSE /\ runtime.messageReady = FALSE
      /\ runtime.applicationAck = NoAck /\ runtime.duplicates = <<>>
  BY EmptyBufferOK
     DEF Init, InitialRuntime, RuntimeRecords, AckBodies, PendingAcks
<1>2. Sound(runtime, heard)
  BY <1>1, EmptyBufferOK DEF Sound, FlagsExact, Provenance
<1> QED
  BY <1>1, <1>2, RuntimeAssumption
     DEF Init, RuntimeInv, OncePerWindow, AckImpliesHeld

\* What is heard is never forgotten.
LEMMA HeardGrows ==
  ASSUME NEW r, NEW h, NEW g, Sound(r, h), h \subseteq g
  PROVE  Sound(r, g)
BY DEF Sound, Provenance

\* accept(): one frame from one peer.
LEMMA ReceiveInv ==
  ASSUME RuntimeInv, NEW peer \in Peers, NEW f \in Frames \cup {Malformed},
         Receive(peer, f)
  PROVE  RuntimeInv'
<1> USE MessagesAssumption
<1>0. /\ Sound(runtime, heard) /\ runtime \in RuntimeRecords
      /\ heard' = Heard(heard, peer, f) /\ heard \subseteq heard'
  BY DEF RuntimeInv, Sound, Receive, Heard
<1>1. CASE Holding(runtime)
  <2>1. runtime' = runtime /\ recent' = recent
    BY <1>1 DEF Receive, Accept
  <2>2. Sound(runtime', heard')
    BY <1>0, <2>1, HeardGrows
  <2> QED BY <2>1, <2>2 DEF RuntimeInv, OncePerWindow, AckImpliesHeld
<1>2. CASE ~Holding(runtime)
  <2>1. ~runtime.messageReady /\ runtime.applicationAck = NoAck
    BY <1>2 DEF Holding
  <2>2. PICK q : q = SwitchPeer(runtime, peer)
    OBVIOUS
  <2>3. /\ Sound(q, heard) /\ ~q.messageReady
        /\ q.assembling => q.activePeer = peer
        /\ q.duplicates = runtime.duplicates
        /\ q.applicationAck = runtime.applicationAck
    BY <1>0, <2>1, <2>2, SwitchPeerSound
  <2>4. CASE f = Malformed
    <3>1. runtime' = q
      BY <1>2, <2>2, <2>4 DEF Receive, Accept, Malformed
    <3>2. recent' = recent /\ Sound(runtime', heard')
      BY <1>0, <2>3, <3>1, HeardGrows DEF Receive
    <3> QED
      BY <2>1, <2>3, <3>1, <3>2 DEF RuntimeInv, OncePerWindow, AckImpliesHeld
  <2>5. CASE f \in Frames
    <3>0. f.message \in Messages /\ f.valid = TRUE
      BY <2>5, FrameFields
    <3>1. PICK t : t = Assemble(q, peer, f)
      OBVIOUS
    <3>2. Stored(t, q, heard', peer, f)
      <4>1. Stored(t, q, Heard(heard, peer, f), peer, f)
        BY <2>3, <2>5, <3>1, AssembleSound
      <4> QED BY <1>0, <4>1
    <3>3. runtime' = Finish(t)
      BY <1>2, <2>2, <3>0, <3>1 DEF Receive, Accept
    <3>4. /\ Sound(runtime', heard')
          /\ \/ Repeated(t, runtime', KeyOf(f.message))
             \/ FirstCopy(t, runtime', KeyOf(f.message))
      <4>1. PICK u : u = Finish(t)
        OBVIOUS
      <4>2. /\ Sound(u, heard')
            /\ \/ Repeated(t, u, KeyOf(f.message))
               \/ FirstCopy(t, u, KeyOf(f.message))
        BY <3>0, <3>2, <4>1, FinishSound DEF Stored
      <4> QED BY <3>3, <4>1, <4>2
    <3>5. t.duplicates = recent /\ t.applicationAck = NoAck
      BY <2>1, <2>3, <3>2 DEF RuntimeInv, Stored
    <3>6. CASE Repeated(t, runtime', KeyOf(f.message))
      <4>1. recent' = recent /\ runtime'.duplicates = recent
        BY <3>5, <3>6 DEF Receive, Repeated
      <4>2. AckImpliesHeld'
        BY <3>5, <3>6, <4>1 DEF Repeated, AckImpliesHeld
      <4> QED BY <3>4, <4>1, <4>2 DEF RuntimeInv, OncePerWindow
    <3>7. CASE FirstCopy(t, runtime', KeyOf(f.message))
      <4>1. KeyOf(f.message) \in Keys /\ recent \in Seq(Keys)
        BY <1>0, <3>0 DEF Keys, RuntimeInv, RuntimeRecords
      <4>2. recent' = Observe(recent, KeyOf(f.message))
        BY <2>1, <3>7 DEF Receive, FirstCopy, Observe
      <4>3. runtime'.duplicates = recent'
        BY <3>5, <3>7, <4>2 DEF FirstCopy
      <4>4. Len(recent') <= CacheCapacity
        BY <4>1, <4>2, ObserveKeys DEF RuntimeInv
      <4>5. Distinct(recent') /\ Contains(recent', KeyOf(f.message))
        BY <3>5, <3>7, <4>1, <4>2, ObserveDistinct
           DEF FirstCopy, RuntimeInv, OncePerWindow, Distinct
      <4>6. AckImpliesHeld' /\ OncePerWindow'
        BY <3>7, <4>5 DEF FirstCopy, AckImpliesHeld, OncePerWindow, Distinct
      <4> QED BY <3>4, <4>3, <4>4, <4>6 DEF RuntimeInv
    <3> QED BY <3>4, <3>6, <3>7
  <2> QED BY <2>4, <2>5
<1> QED BY <1>1, <1>2

\* No frame and no take call breaks the invariant.
LEMMA RuntimeStepInv == RuntimeInv /\ [Next]_vars => RuntimeInv'
<1> SUFFICES ASSUME RuntimeInv, [Next]_vars PROVE RuntimeInv'
  OBVIOUS
<1>0. Sound(runtime, heard) /\ runtime \in RuntimeRecords
  BY DEF RuntimeInv, Sound
<1>1. ASSUME NEW peer \in Peers, NEW f \in Frames \cup {Malformed},
             Receive(peer, f)
      PROVE  RuntimeInv'
  BY <1>1, ReceiveInv
<1>2. CASE TakeMessage
  <2>0. runtime.messageReady = TRUE /\ runtime.assembling = FALSE
    BY <1>0, <1>2 DEF TakeMessage, Sound, FlagsExact, RuntimeRecords
  <2>1. /\ runtime' = [runtime EXCEPT !.buffer = EmptyBuffer,
                                      !.messageReady = FALSE]
        /\ UNCHANGED <<heard, recent>>
    BY <1>2 DEF TakeMessage, TakeApplicationMessage, Release
  <2>2. PICK q : q = [runtime EXCEPT !.buffer = EmptyBuffer,
                                     !.assembling = FALSE,
                                     !.messageReady = FALSE]
    OBVIOUS
  <2>3. runtime' = q
    BY <1>0, <2>0, <2>1, <2>2 DEF RuntimeRecords
  <2>4. Sound(q, heard)
    BY <1>0, <2>2, EmptiedSound
  <2>5. /\ q.duplicates = runtime.duplicates
        /\ q.applicationAck = runtime.applicationAck
    BY <1>0, <2>2 DEF RuntimeRecords
  <2> QED
    BY <2>1, <2>3, <2>4, <2>5 DEF RuntimeInv, OncePerWindow, AckImpliesHeld
<1>3. CASE TakeAck
  <2>1. runtime' = [runtime EXCEPT !.deliveryAck = NoAck]
        /\ UNCHANGED <<heard, recent>>
    BY <1>3 DEF TakeAck, TakeDeliveryAck
  <2>2. Sound(runtime', heard) /\ runtime'.duplicates = runtime.duplicates
    BY <1>0, <2>1, AckSlots DEF AckBodies
  <2>3. runtime'.applicationAck = runtime.applicationAck
    BY <1>0, <2>1 DEF RuntimeRecords
  <2> QED
    BY <2>1, <2>2, <2>3 DEF RuntimeInv, OncePerWindow, AckImpliesHeld
<1>4. CASE TakePendingAck
  <2>1. runtime' = [runtime EXCEPT !.applicationAck = NoAck]
        /\ UNCHANGED <<heard, recent>>
    BY <1>4 DEF TakePendingAck, TakeApplicationAck
  <2>2. Sound(runtime', heard) /\ runtime'.duplicates = runtime.duplicates
    BY <1>0, <2>1, AckSlots DEF PendingAcks
  <2>3. runtime'.applicationAck = NoAck
    BY <1>0, <2>1 DEF RuntimeRecords
  <2> QED
    BY <2>1, <2>2, <2>3 DEF RuntimeInv, OncePerWindow, AckImpliesHeld
<1>5. CASE UNCHANGED vars
  BY <1>5 DEF vars, RuntimeInv, OncePerWindow, AckImpliesHeld
<1> QED BY <1>1, <1>2, <1>3, <1>4, <1>5 DEF Next

\* The inductive invariant holds whatever frames arrive.
THEOREM RuntimeInvariance == Spec => []RuntimeInv
<1>1. Init => RuntimeInv
  BY RuntimeInitInv
<1>2. RuntimeInv /\ [Next]_vars => RuntimeInv'
  BY RuntimeStepInv
<1> QED BY <1>1, <1>2, PTL DEF Spec

\* Every slot of the runtime holds a value of its type.
THEOREM RuntimeTypeCorrect == Spec => []TypeOK
<1>1. RuntimeInv => TypeOK
  BY DEF RuntimeInv, Sound, RuntimeRecords, TypeOK, AckBodies, PendingAcks
<1> QED BY <1>1, RuntimeInvariance, PTL

\* The flags agree with the reassembler.
THEOREM RuntimeFlagExact == Spec => []AssemblyFlagExact
<1>1. RuntimeInv => AssemblyFlagExact
  BY DEF RuntimeInv, Sound, FlagsExact, AssemblyFlagExact
<1> QED BY <1>1, RuntimeInvariance, PTL

\* A held message was received in full, undamaged, from the peer it is
\* attributed to.
THEOREM RuntimeHeldGenuine == Spec => []HeldMessageGenuine
<1>1. RuntimeInv => HeldMessageGenuine
  <2> SUFFICES ASSUME RuntimeInv, runtime.messageReady,
                      NEW i \in 0 .. runtime.buffer.message.count - 1
               PROVE  <<runtime.messagePeer, runtime.buffer.message, i>>
                        \in heard
    BY DEF HeldMessageGenuine
  <2>1. /\ runtime.buffer.message # NoMessage
        /\ runtime.buffer.received = 0 .. runtime.buffer.message.count - 1
        /\ runtime.buffer.damaged = {}
        /\ runtime.messagePeer = runtime.activePeer
        /\ runtime.buffer.message.ackRequired
    BY DEF RuntimeInv, Sound, FlagsExact, Complete
  <2> QED BY <2>1 DEF RuntimeInv, Sound, Provenance
<1> QED BY <1>1, RuntimeInvariance, PTL

\* No key is held twice among CacheCapacity consecutive messages.
THEOREM RuntimeOncePerWindow == Spec => []OncePerWindow
BY RuntimeInvariance, PTL DEF RuntimeInv

\* No ACK is staged for a message the application was never given.
THEOREM RuntimeAckImpliesHeld == Spec => []AckImpliesHeld
BY RuntimeInvariance, PTL DEF RuntimeInv

\* Until it is taken, a held message, its sender and its staged ACK stay.
THEOREM RuntimeHeldStable == Spec => HeldMessageStable
<1> DEFINE Stays ==
      runtime.messageReady /\ runtime'.messageReady =>
        /\ runtime'.buffer = runtime.buffer
        /\ runtime'.messagePeer = runtime.messagePeer
        /\ runtime'.applicationAck \in {runtime.applicationAck, NoAck}
<1>1. RuntimeInv /\ [Next]_vars => [Stays]_vars
  <2> SUFFICES ASSUME RuntimeInv, Next, runtime.messageReady,
                      runtime'.messageReady
               PROVE  Stays
    OBVIOUS
  <2>0. runtime \in RuntimeRecords
    BY DEF RuntimeInv, Sound
  <2>1. ASSUME NEW peer \in Peers, NEW f \in Frames \cup {Malformed},
               Receive(peer, f)
        PROVE  Stays
    BY <2>1 DEF Receive, Accept, Holding
  <2>2. CASE TakeMessage
    BY <2>0, <2>2
       DEF TakeMessage, TakeApplicationMessage, Release, RuntimeRecords
  <2>3. CASE TakeAck
    BY <2>0, <2>3 DEF TakeAck, TakeDeliveryAck, RuntimeRecords
  <2>4. CASE TakePendingAck
    BY <2>0, <2>4 DEF TakePendingAck, TakeApplicationAck, RuntimeRecords
  <2> QED BY <2>1, <2>2, <2>3, <2>4 DEF Next
<1> QED
  BY <1>1, RuntimeInvariance, PTL DEF Spec, HeldMessageStable, Stays
=============================================================================
