--------------------------- MODULE ProtocolRuntime ---------------------------
(***************************************************************************)
(* EspNowProtocolRuntime (protocol_runtime.h) with the frame reassembler   *)
(* (frame.h) and the duplicate cache (reliability.h) it owns: frames of    *)
(* all peers go in, at most one application message and one ACK for it, or *)
(* one delivery ACK, come out.                                             *)
(*                                                                         *)
(* A message is a record whose fields are what the reassembler correlates  *)
(* fragments by: kind, flags, source, transaction, sequence, length and    *)
(* checksum (the last two together are `count' and `body').  A frame is a  *)
(* message, a fragment index, whether its bytes arrived as sent (`intact'; *)
(* a damaged fragment makes the CRC fail) and whether its header passes    *)
(* the codec's checks at all (`valid').  The ring of the last CAPACITY     *)
(* keys is the sequence of those keys, oldest first.                       *)
(***************************************************************************)
EXTENDS Integers, Sequences

CONSTANTS
  Peers,          \* peers of the registry
  NoPeer,         \* no peer recorded yet
  CacheCapacity,  \* EspNowDuplicateCache::CAPACITY
  NoMessage,      \* the reassembler holds nothing
  NoAck           \* an empty ACK slot, or an ACK payload that does not decode

ASSUME RuntimeAssumption == CacheCapacity \in Nat \ {0} /\ NoPeer \notin Peers

EmptyBuffer == [message |-> NoMessage, received |-> {}, damaged |-> {}]

\* The runtime after configure() took the boot identifier.
InitialRuntime ==
  [buffer |-> EmptyBuffer,   \* the reassembler
   assembling |-> FALSE,
   activePeer |-> NoPeer,
   messageReady |-> FALSE,
   messagePeer |-> NoPeer,
   deliveryAck |-> NoAck,
   applicationAck |-> NoAck,
   duplicates |-> <<>>]

KeyOf(m) == [source |-> m.source, tx |-> m.tx, sequence |-> m.sequence]

-----------------------------------------------------------------------------
(* The reassembler                                                         *)

Complete(b) ==
  b.message # NoMessage /\ b.received = 0 .. b.message.count - 1

\* The part of accept() after the header checks: store one fragment of the
\* message being assembled.
StoreFragment(b, f) ==
  [message |-> f.message,
   received |-> b.received \cup {f.index},
   damaged |-> IF f.intact THEN b.damaged \ {f.index}
                           ELSE b.damaged \cup {f.index}]

\* CORRELATION_MISMATCH: a different message is already under assembly.
Mismatch(b, f) == b.message \notin {NoMessage, f.message}

-----------------------------------------------------------------------------
(* The duplicate cache                                                     *)

\* Mutants: the search misses the oldest entry; the ring never wraps.
ContainsAllButOldest(cache, key) ==
  \E i \in DOMAIN cache : i > 1 /\ cache[i] = key
ObserveUnbounded(cache, key) == Append(cache, key)

Contains(cache, key) == \E i \in DOMAIN cache : cache[i] = key

Observe(cache, key) ==
  IF Len(cache) < CacheCapacity THEN Append(cache, key)
                                ELSE Append(Tail(cache), key)

-----------------------------------------------------------------------------
(* accept() and the take functions                                         *)

Release(r) == [r EXCEPT !.buffer = EmptyBuffer]

\* Mutant: the reassembler is reset and the flag is forgotten.
DropAssemblyKeepsFlag(r) == [r EXCEPT !.buffer = EmptyBuffer]

DropAssembly(r) == [r EXCEPT !.buffer = EmptyBuffer, !.assembling = FALSE]

\* A complete ACK message: keep its payload if the slot is free.
AcceptDeliveryAck(r) ==
  LET ack == r.buffer.message.body
  IN  IF ack = NoAck \/ r.deliveryAck # NoAck
      THEN Release(r)
      ELSE [Release(r) EXCEPT !.deliveryAck = ack]

\* A complete COMMAND or RESULT: hold it, or recognise a repetition, and
\* stage the ACK.
AcceptApplicationMessage(r) ==
  LET m == r.buffer.message
      Staged(q, status) ==
        [q EXCEPT !.applicationAck =
           [peer |-> r.activePeer, key |-> KeyOf(m), status |-> status]]
  IN  IF ~m.ackRequired THEN Release(r)
      ELSE IF Contains(r.duplicates, KeyOf(m))
      THEN Staged(Release(r), "DUPLICATE")
      ELSE Staged([r EXCEPT !.messageReady = TRUE,
                            !.messagePeer = r.activePeer,
                            !.duplicates = Observe(@, KeyOf(m))], "ACCEPTED")

\* What follows a stored fragment.
Finish(r) ==
  IF ~Complete(r.buffer) THEN [r EXCEPT !.assembling = TRUE]
  ELSE LET q == [r EXCEPT !.assembling = FALSE]
       IN  IF q.buffer.damaged # {} THEN Release(q)
           ELSE IF q.buffer.message.kind = "ACK" THEN AcceptDeliveryAck(q)
           ELSE AcceptApplicationMessage(q)

\* Store a frame whose header is valid, replacing an unrelated assembly, and
\* remember the peer that opened the assembly.
Assemble(r, peer, f) ==
  LET q == IF Mismatch(r.buffer, f) THEN DropAssembly(r) ELSE r
  IN  [q EXCEPT !.buffer = StoreFragment(q.buffer, f),
                !.activePeer = IF q.assembling THEN q.activePeer ELSE peer]

\* Mutants: the held message does not block reception; a frame of another
\* peer continues the assembly.
HoldingAckOnly(r) == r.applicationAck # NoAck
SwitchPeerIgnored(r, peer) == r

\* Nothing at all is accepted while a message or its ACK is still held.
Holding(r) == r.messageReady \/ r.applicationAck # NoAck

\* A frame of another peer abandons the assembly before it is examined.
SwitchPeer(r, peer) ==
  IF r.assembling /\ peer # r.activePeer THEN DropAssembly(r) ELSE r

Accept(r, peer, f) ==
  IF Holding(r) THEN r
  ELSE IF ~f.valid THEN SwitchPeer(r, peer)
  ELSE Finish(Assemble(SwitchPeer(r, peer), peer, f))

TakeApplicationMessage(r) == [Release(r) EXCEPT !.messageReady = FALSE]
TakeDeliveryAck(r) == [r EXCEPT !.deliveryAck = NoAck]
TakeApplicationAck(r) == [r EXCEPT !.applicationAck = NoAck]

-----------------------------------------------------------------------------
(* The runtime fed with arbitrary frames                                   *)

CONSTANTS Messages  \* messages whose fragments are on the air

\* What the frame codec checks of every header it accepts (frame.h): a message
\* has at least one fragment.
ASSUME MessagesAssumption ==
  /\ NoMessage \notin Messages
  /\ \A m \in Messages : m.count \in Nat \ {0} /\ m.ackRequired \in BOOLEAN

\* Every fragment is numbered below the fragment count of its message; of a
\* frame whose header fails the codec's checks nothing else is looked at.
Frames ==
  UNION {[message : {m}, index : 0 .. m.count - 1,
          intact : BOOLEAN, valid : {TRUE}] : m \in Messages}
Malformed ==
  [message |-> NoMessage, index |-> 0, intact |-> FALSE, valid |-> FALSE]

VARIABLES
  runtime,  \* the EspNowProtocolRuntime
  heard,    \* history: <<peer, message, index>> of application messages
            \* received intact
  recent    \* history: keys of the last CacheCapacity messages held

vars == <<runtime, heard, recent>>

Init == runtime = InitialRuntime /\ heard = {} /\ recent = <<>>

Receive(peer, f) ==
  /\ runtime' = Accept(runtime, peer, f)
  /\ heard' = IF f.valid /\ f.intact /\ f.message.ackRequired
              THEN heard \cup {<<peer, f.message, f.index>>} ELSE heard
  /\ recent' = IF runtime'.messageReady /\ ~runtime.messageReady
               THEN LET key == KeyOf(f.message)
                    IN  IF Len(recent) < CacheCapacity
                        THEN Append(recent, key) ELSE Append(Tail(recent), key)
               ELSE recent

TakeMessage ==
  /\ runtime.messageReady
  /\ runtime' = TakeApplicationMessage(runtime)
  /\ UNCHANGED <<heard, recent>>

TakeAck ==
  /\ runtime.deliveryAck # NoAck
  /\ runtime' = TakeDeliveryAck(runtime)
  /\ UNCHANGED <<heard, recent>>

TakePendingAck ==
  /\ runtime.applicationAck # NoAck
  /\ runtime' = TakeApplicationAck(runtime)
  /\ UNCHANGED <<heard, recent>>

Next ==
  \/ \E peer \in Peers, f \in Frames \cup {Malformed} : Receive(peer, f)
  \/ TakeMessage
  \/ TakeAck
  \/ TakePendingAck

Spec == Init /\ [][Next]_vars

-----------------------------------------------------------------------------
(* Properties                                                              *)

Keys == {KeyOf(m) : m \in Messages}

Buffers ==
  [message : Messages \cup {NoMessage},
   received : SUBSET (UNION {0 .. m.count - 1 : m \in Messages}),
   damaged : SUBSET (UNION {0 .. m.count - 1 : m \in Messages})]

\* Every slot of the runtime holds a value of its type.
TypeOK ==
  /\ runtime.buffer \in Buffers
  /\ runtime.assembling \in BOOLEAN
  /\ runtime.messageReady \in BOOLEAN
  /\ runtime.activePeer \in Peers \cup {NoPeer}
  /\ runtime.messagePeer \in Peers \cup {NoPeer}
  /\ runtime.deliveryAck \in {m.body : m \in Messages} \cup {NoAck}
  /\ runtime.applicationAck \in
       [peer : Peers, key : Keys, status : {"ACCEPTED", "DUPLICATE"}]
         \cup {NoAck}
  /\ runtime.duplicates \in Seq(Keys)
  /\ Len(runtime.duplicates) <= CacheCapacity

\* The flag that says an assembly is under way agrees with the reassembler,
\* through peer switches, mismatches, CRC failures and malformed frames: a
\* stale flag would let a later fragment be credited to the wrong peer.
AssemblyFlagExact ==
  /\ runtime.assembling <=>
       runtime.buffer.message # NoMessage /\ ~Complete(runtime.buffer)
  /\ runtime.messageReady <=> Complete(runtime.buffer)
  /\ runtime.messageReady => runtime.buffer.damaged = {}

\* A message shown to the application was received in full and undamaged
\* from the peer it is attributed to: fragments of two peers or of two
\* messages never mix (protocol_runtime.h:54-72).
HeldMessageGenuine ==
  runtime.messageReady =>
    \A i \in 0 .. runtime.buffer.message.count - 1 :
      <<runtime.messagePeer, runtime.buffer.message, i>> \in heard

\* No key is handed to the application twice among CacheCapacity consecutive
\* messages, whatever repetitions arrive (reliability.h:175-201).
OncePerWindow ==
  \A i, j \in DOMAIN recent : recent[i] = recent[j] => i = j

\* No ACK is staged for a message the application was never given.
AckImpliesHeld ==
  runtime.applicationAck # NoAck =>
    Contains(recent, runtime.applicationAck.key)

\* "prevents the retained payload from being overwritten": until it is taken,
\* the held message, its sender and its staged ACK do not change.
HeldMessageStable ==
  [][runtime.messageReady /\ runtime'.messageReady =>
       /\ runtime'.buffer = runtime.buffer
       /\ runtime'.messagePeer = runtime.messagePeer
       /\ runtime'.applicationAck \in {runtime.applicationAck, NoAck}]_vars
=============================================================================
