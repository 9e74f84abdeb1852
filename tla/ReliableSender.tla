--------------------------- MODULE ReliableSender ---------------------------
(***************************************************************************)
(* ReliableMessageSender (reliable_sender.h) together with the             *)
(* EspNowReliableDelivery it owns (reliability.h): one message at a time   *)
(* is cut into fragments, handed to the radio one frame at a time, and     *)
(* retried as a whole until a matching ACK arrives or the attempts run out.*)
(*                                                                         *)
(* The sender is one record, and every method is an operator from record   *)
(* to record, so that modules that own a sender can sequence the calls the *)
(* way the C++ does.  The specification at the end lets a caller use the   *)
(* public methods in any order at all.                                     *)
(*                                                                         *)
(* Data left out: the payload bytes (a message is its fragment count), the *)
(* boot identifier (fixed between two boots).  deadline_ms_ is kept as the *)
(* time since mark_sent, saturated at AckTimeout, which is all that the    *)
(* signed comparison in EspNowReliableDelivery::loop can see as long as    *)
(* loop() is called at least once in 2^31 ms.                              *)
(***************************************************************************)
EXTENDS Integers

CONSTANTS
  Peers,            \* peers of the registry
  Transactions,     \* transaction identifiers, all non-zero in the code
  MaxFragments,     \* EspNowFrameCodec::MAX_FRAGMENTS
  MaxAttempts,      \* EspNowRetryPolicy::max_attempts
  AckTimeout,       \* EspNowRetryPolicy::ack_timeout_ms, in ticks
  SequenceModulus,  \* 2^32 in the code: the width of sequence_
  NoPeer,           \* INVALID_PEER_INDEX
  NoTransaction     \* transaction id 0

\* EspNowRetryPolicy::valid, required by configure(), and the width facts the
\* sequence counter relies on.
ASSUME PolicyAssumption ==
  /\ MaxAttempts \in Nat \ {0}
  /\ AckTimeout \in Nat \ {0}
ASSUME SenderAssumption ==
  /\ MaxFragments \in Nat \ {0}
  /\ SequenceModulus \in Nat /\ SequenceModulus > 2
  /\ NoPeer \notin Peers
  /\ NoTransaction \notin Transactions

SenderStates == {"IDLE", "READY", "FRAME_IN_FLIGHT", "WAITING_FOR_ACK",
                 "ACKNOWLEDGED", "REJECTED", "TIMED_OUT"}
DeliveryStates == {"IDLE", "READY_TO_SEND", "WAITING_FOR_ACK",
                   "ACKNOWLEDGED", "REJECTED", "TIMED_OUT"}
AckStatuses == {"ACCEPTED", "DUPLICATE", "REJECTED"}
MessageKinds == {"COMMAND", "RESULT"}
Sequences0 == 0 .. SequenceModulus - 1

Sender ==
  [state : SenderStates,
   delivery : DeliveryStates,
   tx : Transactions \cup {NoTransaction},
   sequence : Sequences0,
   kind : MessageKinds,
   peer : Peers \cup {NoPeer},
   count : 0 .. MaxFragments,
   index : 0 .. MaxFragments,
   inFlight : BOOLEAN,
   attempts : 0 .. MaxAttempts,
   age : 0 .. AckTimeout]

\* The sender after configure() accepted the boot id and the retry policy.
InitialSender ==
  [state |-> "IDLE", delivery |-> "IDLE", tx |-> NoTransaction,
   sequence |-> 0, kind |-> "COMMAND", peer |-> NoPeer, count |-> 0,
   index |-> 0, inFlight |-> FALSE, attempts |-> 0, age |-> 0]

-----------------------------------------------------------------------------
\* Mutant: the counter does not wrap.
NextSequenceUnwrapped(n) == n + 1

\* sequence_++ with zero skipped; the counter survives reset().
NextSequence(n) == IF n + 1 = SequenceModulus THEN 1 ELSE n + 1

\* start(): admission, then a fresh delivery identity and fragment zero.
CanStart(s, peer, tx, count) ==
  /\ s.state = "IDLE"
  /\ peer # NoPeer
  /\ tx # NoTransaction
  /\ count > 0

Start(s, peer, kind, tx, count) ==
  [s EXCEPT !.state = "READY", !.delivery = "READY_TO_SEND", !.tx = tx,
            !.sequence = NextSequence(s.sequence), !.kind = kind,
            !.peer = peer, !.count = count, !.index = 0,
            !.inFlight = FALSE, !.attempts = 0, !.age = 0]

\* EspNowReliableDelivery::mark_sent: opens one ACK window.
CanMarkSent(s) == s.delivery = "READY_TO_SEND" /\ s.attempts < MaxAttempts

MarkSent(s) ==
  [s EXCEPT !.delivery = "WAITING_FOR_ACK", !.state = "WAITING_FOR_ACK",
            !.attempts = s.attempts + 1, !.age = 0]

\* Mutants: one attempt too few, and attempts without end.
ExpireWindowEarly(s) ==
  IF s.delivery = "WAITING_FOR_ACK" /\ s.age >= AckTimeout
  THEN [s EXCEPT !.delivery = IF s.attempts + 1 < MaxAttempts
                              THEN "READY_TO_SEND" ELSE "TIMED_OUT"]
  ELSE s
ExpireWindowForever(s) ==
  IF s.delivery = "WAITING_FOR_ACK" /\ s.age >= AckTimeout
  THEN [s EXCEPT !.delivery = "READY_TO_SEND", !.attempts = 0] ELSE s

\* EspNowReliableDelivery::loop: the window closed without an answer.
ExpireWindow(s) ==
  IF s.delivery = "WAITING_FOR_ACK" /\ s.age >= AckTimeout
  THEN [s EXCEPT !.delivery = IF s.attempts < MaxAttempts
                              THEN "READY_TO_SEND" ELSE "TIMED_OUT"]
  ELSE s

\* Mutant: a retry takes a new sequence number.
MirrorNewSequence(s) ==
  CASE s.delivery = "READY_TO_SEND" ->
         IF s.inFlight THEN s
         ELSE [s EXCEPT !.index = 0, !.state = "READY",
                        !.sequence = NextSequence(s.sequence)]
    [] s.delivery = "IDLE" -> s
    [] OTHER -> [s EXCEPT !.state = s.delivery]

\* ReliableMessageSender::loop: expire the window, then mirror the delivery
\* state.  READY_TO_SEND rewinds to fragment zero whenever no frame is in
\* flight, whether or not the rewind follows an expired window.
Mirror(s) ==
  CASE s.delivery = "READY_TO_SEND" ->
         IF s.inFlight THEN s ELSE [s EXCEPT !.index = 0, !.state = "READY"]
    [] s.delivery = "IDLE" -> s
    [] OTHER -> [s EXCEPT !.state = s.delivery]

Loop(s) == Mirror(ExpireWindow(s))

\* take_frame(): hand fragment `index` to the radio.
CanTakeFrame(s) == s.state = "READY" /\ ~s.inFlight /\ s.index < s.count

TakeFrame(s) == [s EXCEPT !.inFlight = TRUE, !.state = "FRAME_IN_FLIGHT"]

\* Mutant: the window opens one fragment early.
CompleteFrameShort(s, succeeded) ==
  LET done == [s EXCEPT !.inFlight = FALSE]
      next == [done EXCEPT !.index = s.index + 1]
      Close(r) == IF CanMarkSent(r) THEN MarkSent(r) ELSE r
  IN  IF ~s.inFlight THEN s
      ELSE IF ~succeeded THEN Close(done)
      ELSE IF s.index + 2 < s.count THEN [next EXCEPT !.state = "READY"]
      ELSE Close(next)

\* complete_frame(): a failed frame ends the attempt at once, a sent one
\* advances to the next fragment and the last one ends the attempt.
CompleteFrame(s, succeeded) ==
  LET done == [s EXCEPT !.inFlight = FALSE]
      next == [done EXCEPT !.index = s.index + 1]
      Close(r) == IF CanMarkSent(r) THEN MarkSent(r) ELSE r
  IN  IF ~s.inFlight THEN s
      ELSE IF ~succeeded THEN Close(done)
      ELSE IF s.index + 1 < s.count THEN [next EXCEPT !.state = "READY"]
      ELSE Close(next)

\* Mutant: the sender does not follow its delivery.
AcceptAckDeliveryOnly(s, tx, sequence, status) ==
  IF s.delivery = "WAITING_FOR_ACK" /\ tx = s.tx /\ sequence = s.sequence
  THEN [s EXCEPT !.delivery = IF status = "REJECTED" THEN "REJECTED"
                                                     ELSE "ACKNOWLEDGED"]
  ELSE s

\* accept_ack(): only inside an ACK window and only for this delivery key.
AckMatches(s, tx, sequence) ==
  s.delivery = "WAITING_FOR_ACK" /\ tx = s.tx /\ sequence = s.sequence

AcceptAck(s, tx, sequence, status) ==
  LET outcome == IF status = "REJECTED" THEN "REJECTED" ELSE "ACKNOWLEDGED"
  IN  IF AckMatches(s, tx, sequence)
      THEN [s EXCEPT !.delivery = outcome, !.state = outcome] ELSE s

\* reset(): everything but the sequence counter.
Reset(s) == [InitialSender EXCEPT !.sequence = s.sequence]

\* One tick of the millisecond clock as the delivery deadline sees it.
Elapse(s) ==
  IF s.delivery = "WAITING_FOR_ACK" /\ s.age < AckTimeout
  THEN [s EXCEPT !.age = s.age + 1] ELSE s

Terminal(s) == s.state \in {"ACKNOWLEDGED", "REJECTED", "TIMED_OUT"}
Active(s) == s.state \in {"READY", "FRAME_IN_FLIGHT", "WAITING_FOR_ACK"}

-----------------------------------------------------------------------------
VARIABLES
  sender,     \* the ReliableMessageSender
  confirmed,  \* history: fragments the radio confirmed in this attempt
  failed      \* history: this attempt was cut short by a radio failure

vars == <<sender, confirmed, failed>>

Init == sender = InitialSender /\ confirmed = {} /\ failed = FALSE

StartMessage(peer, kind, tx, count) ==
  /\ CanStart(sender, peer, tx, count)
  /\ sender' = Start(sender, peer, kind, tx, count)
  /\ confirmed' = {} /\ failed' = FALSE

LoopStep ==
  /\ sender' = Loop(sender)
  /\ IF sender.delivery \in {"READY_TO_SEND", "WAITING_FOR_ACK"}
        /\ sender'.delivery = "READY_TO_SEND" /\ ~sender.inFlight
     THEN confirmed' = {} /\ failed' = FALSE
     ELSE UNCHANGED <<confirmed, failed>>

TakeFrameStep ==
  /\ CanTakeFrame(sender)
  /\ sender' = TakeFrame(sender)
  /\ UNCHANGED <<confirmed, failed>>

CompleteFrameStep(succeeded) ==
  /\ sender.inFlight
  /\ sender' = CompleteFrame(sender, succeeded)
  /\ confirmed' = IF succeeded THEN confirmed \cup {sender.index} ELSE confirmed
  /\ failed' = ~succeeded

AckStep(tx, sequence, status) ==
  /\ sender' = AcceptAck(sender, tx, sequence, status)
  /\ UNCHANGED <<confirmed, failed>>

ResetStep ==
  /\ sender' = Reset(sender)
  /\ confirmed' = {} /\ failed' = FALSE

Tick ==
  /\ sender' = Elapse(sender)
  /\ UNCHANGED <<confirmed, failed>>

Next ==
  \/ \E peer \in Peers, kind \in MessageKinds, tx \in Transactions,
        count \in 1 .. MaxFragments : StartMessage(peer, kind, tx, count)
  \/ LoopStep
  \/ TakeFrameStep
  \/ \E succeeded \in BOOLEAN : CompleteFrameStep(succeeded)
  \/ \E tx \in Transactions, sequence \in 1 .. SequenceModulus - 1,
        status \in AckStatuses : AckStep(tx, sequence, status)
  \/ ResetStep
  \/ Tick

Spec == Init /\ [][Next]_vars

-----------------------------------------------------------------------------
(* Properties                                                              *)

\* The sender record and the two history variables stay in their domains.
TypeOK ==
  /\ sender \in Sender
  /\ confirmed \in SUBSET (0 .. MaxFragments - 1)
  /\ failed \in BOOLEAN

\* The two state machines of sender and delivery never disagree, whatever
\* order the caller uses the methods in: complete_frame and accept_ack write
\* both, loop() re-derives one from the other, and in_flight tells READY from
\* FRAME_IN_FLIGHT.  This is what makes start()'s second admission check
\* (delivery_.start) and both mark_sent checks unreachable failures.
Coherent(s) ==
  /\ s.inFlight <=> s.state = "FRAME_IN_FLIGHT"
  /\ s.delivery = "READY_TO_SEND" <=> s.state \in {"READY", "FRAME_IN_FLIGHT"}
  /\ s.delivery # "READY_TO_SEND" => s.state = s.delivery
  /\ s.delivery # "IDLE" => s.count > 0
  /\ s.delivery = "READY_TO_SEND" =>
       s.attempts < MaxAttempts /\ s.index < s.count

SenderMirrorsDelivery == Coherent(sender)

\* A delivery is given up only after every attempt of the policy had its
\* full ACK window (EspNowReliableDelivery::loop and mark_sent).
Exhausted(s) == s.attempts = MaxAttempts /\ s.age = AckTimeout

GivesUpOnlyWhenExhausted == sender.state = "TIMED_OUT" => Exhausted(sender)

\* An ACK window opens only after the radio confirmed every fragment of the
\* message in this attempt, in order, or reported a failure that ended it
\* (complete_frame's two calls of mark_sent).
WindowCoversMessage ==
  sender.state = "WAITING_FOR_ACK" =>
    failed \/ confirmed = 0 .. sender.count - 1

\* A retry keeps the delivery identity, the destination and the length of the
\* message and never gives attempts back, so the receiver can recognise it
\* ("whole-message retry preserves delivery identity").
RetryPreservesIdentity ==
  [][Active(sender) /\ Active(sender)' =>
       /\ sender'.tx = sender.tx /\ sender'.sequence = sender.sequence
       /\ sender'.peer = sender.peer /\ sender'.kind = sender.kind
       /\ sender'.count = sender.count
       /\ sender'.attempts >= sender.attempts]_vars
=============================================================================
