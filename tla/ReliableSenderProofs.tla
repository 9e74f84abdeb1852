------------------------ MODULE ReliableSenderProofs ------------------------
(***************************************************************************)
(* The sender's type correctness, the agreement of its two state machines, *)
(* the give-up rule, the coverage of an ACK window and the identity of a   *)
(* retry, for every policy, fragment limit and sequence width.             *)
(*                                                                         *)
(* The inductive invariant adds to the checked properties what they need   *)
(* of one another: the confirmed fragments are exactly those below the     *)
(* index while an attempt is under way, and an attempt under way has not   *)
(* failed.                                                                 *)
(***************************************************************************)
EXTENDS ReliableSender, TLAPS

\* A sender record that every method accepts and returns.
WellFormed(s) ==
  /\ s \in Sender
  /\ Coherent(s)
  /\ s.state = "TIMED_OUT" => Exhausted(s)

\* What an attempt under way has confirmed so far.
AttemptProgress ==
  sender.delivery = "READY_TO_SEND" =>
    ~failed /\ confirmed = 0 .. sender.index - 1

SenderInv ==
  /\ TypeOK
  /\ SenderMirrorsDelivery
  /\ GivesUpOnlyWhenExhausted
  /\ WindowCoversMessage
  /\ AttemptProgress

-----------------------------------------------------------------------------
(* The methods, one lemma each                                             *)

\* The names of the states, so that no proof below expands the two sets.
LEMMA StateNames ==
  /\ "IDLE" \in SenderStates /\ "READY" \in SenderStates
  /\ "FRAME_IN_FLIGHT" \in SenderStates /\ "WAITING_FOR_ACK" \in SenderStates
  /\ "ACKNOWLEDGED" \in SenderStates /\ "REJECTED" \in SenderStates
  /\ "TIMED_OUT" \in SenderStates
  /\ "IDLE" \in DeliveryStates /\ "READY_TO_SEND" \in DeliveryStates
  /\ "WAITING_FOR_ACK" \in DeliveryStates /\ "ACKNOWLEDGED" \in DeliveryStates
  /\ "REJECTED" \in DeliveryStates /\ "TIMED_OUT" \in DeliveryStates
BY DEF SenderStates, DeliveryStates

\* The bounds every method starts from.
LEMMA ZeroInRange ==
  /\ 0 \in 0 .. MaxFragments /\ 0 \in 0 .. MaxAttempts
  /\ 0 \in 0 .. AckTimeout
BY PolicyAssumption, SenderAssumption

\* The sequence counter skips zero and never leaves its width.
LEMMA NextSequenceInRange ==
  ASSUME NEW n \in Sequences0
  PROVE  NextSequence(n) \in Sequences0 /\ NextSequence(n) # 0
BY SenderAssumption DEF NextSequence, Sequences0

\* The configured sender, and the one reset() leaves behind.
LEMMA InitialWellFormed == WellFormed(InitialSender)
<1> USE PolicyAssumption, SenderAssumption
<1>1. InitialSender \in Sender
  BY DEF InitialSender, Sender, SenderStates, DeliveryStates, MessageKinds,
         Sequences0
<1>2. Coherent(InitialSender) /\ InitialSender.state # "TIMED_OUT"
  BY DEF InitialSender, Coherent
<1> QED
  BY <1>1, <1>2 DEF WellFormed

\* reset() leads to the initial record with the sequence counter kept, which is
\* well formed.
LEMMA ResetWellFormed ==
  ASSUME NEW s, WellFormed(s)
  PROVE  WellFormed(Reset(s))
<1>1. Reset(s) \in Sender
  BY InitialWellFormed DEF WellFormed, Reset, Sender
<1>2. Coherent(Reset(s)) /\ Reset(s).state # "TIMED_OUT"
  BY DEF Reset, InitialSender, Coherent
<1> QED
  BY <1>1, <1>2 DEF WellFormed

\* start() opens a delivery with a fresh sequence number.
LEMMA StartWellFormed ==
  ASSUME NEW s, WellFormed(s), NEW peer \in Peers, NEW kind \in MessageKinds,
         NEW tx \in Transactions, NEW count \in 1 .. MaxFragments
  PROVE  WellFormed(Start(s, peer, kind, tx, count))
<1> USE PolicyAssumption, SenderAssumption
<1> DEFINE t == Start(s, peer, kind, tx, count)
<1>1. NextSequence(s.sequence) \in Sequences0
  BY NextSequenceInRange DEF WellFormed, Sender
<1>2. t \in Sender
  <2>1. count \in 0 .. MaxFragments
    BY SenderAssumption
  <2> QED
    BY <1>1, <2>1, ZeroInRange, StateNames DEF WellFormed, Start, Sender
<1>3. Coherent(t) /\ t.state # "TIMED_OUT"
  BY DEF WellFormed, Start, Sender, Coherent
<1> QED
  BY <1>2, <1>3 DEF WellFormed

\* take_frame() marks the frame in flight in both places.
LEMMA TakeFrameWellFormed ==
  ASSUME NEW s, WellFormed(s), CanTakeFrame(s)
  PROVE  WellFormed(TakeFrame(s))
<1>1. TakeFrame(s) \in Sender
  BY StateNames DEF WellFormed, TakeFrame, Sender
<1>2. Coherent(TakeFrame(s)) /\ TakeFrame(s).state # "TIMED_OUT"
  BY DEF WellFormed, TakeFrame, CanTakeFrame, Sender, Coherent
<1> QED
  BY <1>1, <1>2 DEF WellFormed

\* complete_frame() either stays in the attempt or opens the ACK window; its
\* mark_sent never refuses.
LEMMA CompleteFrameWellFormed ==
  ASSUME NEW s, WellFormed(s), s.inFlight, NEW ok \in BOOLEAN
  PROVE  /\ WellFormed(CompleteFrame(s, ok))
         /\ IF ok /\ s.index + 1 < s.count
            THEN CompleteFrame(s, ok) =
                   [s EXCEPT !.inFlight = FALSE, !.index = s.index + 1,
                             !.state = "READY"]
            ELSE /\ CompleteFrame(s, ok).state = "WAITING_FOR_ACK"
                 /\ CompleteFrame(s, ok).delivery = "WAITING_FOR_ACK"
                 /\ CompleteFrame(s, ok).count = s.count
                 /\ ok => s.index + 1 = s.count
<1> USE PolicyAssumption, SenderAssumption
<1> DEFINE t == CompleteFrame(s, ok)
           i == IF ok THEN s.index + 1 ELSE s.index
<1>1. /\ s.delivery = "READY_TO_SEND" /\ s.attempts < MaxAttempts
      /\ s.index < s.count /\ s \in Sender
  BY DEF WellFormed, Coherent, Sender
<1>2. CASE ok /\ s.index + 1 < s.count
  <2>1. t = [s EXCEPT !.inFlight = FALSE, !.index = s.index + 1,
                      !.state = "READY"]
    BY <1>1, <1>2 DEF CompleteFrame, Sender
  <2>2. t \in Sender
    <3>1. s.index + 1 \in 0 .. MaxFragments
      BY <1>1, SenderAssumption DEF Sender
    <3> QED
      BY <1>1, <2>1, <3>1, StateNames DEF Sender
  <2>3. Coherent(t) /\ t.state # "TIMED_OUT"
    <3>1. /\ t.state = "READY" /\ t.delivery = "READY_TO_SEND"
          /\ t.attempts = s.attempts /\ t.count = s.count
          /\ t.index = s.index + 1
      BY <1>1, <2>1 DEF Sender
    <3>3. s.count > 0
      BY <1>1, <1>2 DEF Sender
    <3>2. t.inFlight = FALSE
      BY <1>1, <2>1 DEF Sender
    <3> QED
      BY <1>1, <1>2, <3>1, <3>2, <3>3 DEF Coherent
  <2> QED
    BY <1>2, <2>1, <2>2, <2>3 DEF WellFormed
<1>3. CASE ~(ok /\ s.index + 1 < s.count)
  <2>1. t = [s EXCEPT !.inFlight = FALSE, !.index = i,
                      !.delivery = "WAITING_FOR_ACK",
                      !.state = "WAITING_FOR_ACK",
                      !.attempts = s.attempts + 1, !.age = 0]
    <3>1. CASE ok
      BY <1>1, <1>3, <3>1 DEF CompleteFrame, CanMarkSent, MarkSent, Sender
    <3>2. CASE ~ok
      BY <1>1, <1>3, <3>2 DEF CompleteFrame, CanMarkSent, MarkSent, Sender
    <3> QED BY <3>1, <3>2
  <2>2. i \in 0 .. MaxFragments /\ (ok => s.index + 1 = s.count)
    BY <1>1, <1>3 DEF Sender
  <2> HIDE DEF i
  <2>3. t \in Sender
    <3>1. s.attempts + 1 \in 0 .. MaxAttempts
      BY <1>1, PolicyAssumption DEF Sender
    <3> QED
      BY <1>1, <2>1, <2>2, <3>1, ZeroInRange, StateNames, ZenonT(60) DEF Sender
  <2>4. Coherent(t) /\ t.state # "TIMED_OUT"
    BY <1>1, <2>1, <2>2 DEF Coherent, Sender
  <2>5. t.state = "WAITING_FOR_ACK" /\ t.delivery = "WAITING_FOR_ACK"
        /\ t.count = s.count
    BY <1>1, <2>1 DEF Sender
  <2> QED
    BY <1>3, <2>2, <2>3, <2>4, <2>5 DEF WellFormed
<1> QED BY <1>2, <1>3

\* accept_ack() can only turn an open window into a terminal state.
LEMMA AcceptAckWellFormed ==
  ASSUME NEW s, WellFormed(s), NEW tx, NEW sequence, NEW status
  PROVE  /\ WellFormed(AcceptAck(s, tx, sequence, status))
         /\ \/ AcceptAck(s, tx, sequence, status) = s
            \/ AcceptAck(s, tx, sequence, status).state
                 \in {"ACKNOWLEDGED", "REJECTED"}
<1> DEFINE t == AcceptAck(s, tx, sequence, status)
<1>1. CASE ~AckMatches(s, tx, sequence)
  BY <1>1 DEF AcceptAck
<1>2. CASE AckMatches(s, tx, sequence)
  <2>1. PICK o \in {"ACKNOWLEDGED", "REJECTED"} :
          t = [s EXCEPT !.delivery = o, !.state = o]
    BY <1>2 DEF AcceptAck
  <2>2. t \in Sender
    <3>1. o \in SenderStates /\ o \in DeliveryStates
      BY StateNames
    <3> QED
      BY <2>1, <3>1 DEF WellFormed, Sender
  <2>3. Coherent(t) /\ t.state = o
    BY <1>2, <2>1 DEF WellFormed, AckMatches, Coherent, Sender
  <2> QED
    BY <2>2, <2>3 DEF WellFormed
<1> QED BY <1>1, <1>2

\* The passing of time only touches an open window.
LEMMA ElapseWellFormed ==
  ASSUME NEW s, WellFormed(s)
  PROVE  /\ WellFormed(Elapse(s))
         /\ Elapse(s).state = s.state /\ Elapse(s).delivery = s.delivery
         /\ Elapse(s).index = s.index /\ Elapse(s).count = s.count
<1> USE PolicyAssumption
<1>1. CASE s.delivery = "WAITING_FOR_ACK" /\ s.age < AckTimeout
  <2>1. Elapse(s) = [s EXCEPT !.age = s.age + 1]
    BY <1>1 DEF Elapse
  <2>2. Elapse(s) \in Sender
    BY <1>1, <2>1 DEF WellFormed, Sender
  <2>3. Coherent(Elapse(s)) /\ Elapse(s).state = "WAITING_FOR_ACK"
    BY <1>1, <2>1 DEF WellFormed, Coherent, Sender
  <2> QED
    BY <1>1, <2>1, <2>2, <2>3 DEF WellFormed, Sender
<1>2. CASE ~(s.delivery = "WAITING_FOR_ACK" /\ s.age < AckTimeout)
  BY <1>2 DEF Elapse
<1> QED BY <1>1, <1>2

\* loop(): outside a rewind it changes nothing but the state it mirrors; a
\* rewind leaves READY with index zero, an exhausted delivery TIMED_OUT.
LEMMA LoopWellFormed ==
  ASSUME NEW s, WellFormed(s)
  PROVE  /\ WellFormed(Loop(s))
         /\ \/ Loop(s) = s
            \/ /\ s.delivery \in {"READY_TO_SEND", "WAITING_FOR_ACK"}
               /\ ~s.inFlight
               /\ Loop(s) = [s EXCEPT !.delivery = "READY_TO_SEND",
                                      !.index = 0, !.state = "READY"]
            \/ /\ s.delivery = "WAITING_FOR_ACK"
               /\ Loop(s) = [s EXCEPT !.delivery = "TIMED_OUT",
                                      !.state = "TIMED_OUT"]
<1> USE PolicyAssumption, SenderAssumption
<1> DEFINE t == Loop(s)
<1>0. s \in Sender /\ Coherent(s)
  BY DEF WellFormed
<1>1. CASE s.delivery = "WAITING_FOR_ACK" /\ s.age >= AckTimeout
           /\ s.attempts < MaxAttempts
  <2>0. ~s.inFlight
    BY <1>0, <1>1 DEF Coherent, Sender
  <2>1. t = [s EXCEPT !.delivery = "READY_TO_SEND", !.index = 0,
                      !.state = "READY"]
    BY <1>0, <1>1, <2>0 DEF Loop, Mirror, ExpireWindow, Sender
  <2>2. t \in Sender
    BY <1>0, <2>1, ZeroInRange, StateNames DEF Sender
  <2>3. s.count > 0
    BY <1>0, <1>1 DEF Coherent, Sender
  <2>4. Coherent(t) /\ t.state # "TIMED_OUT"
    BY <1>0, <1>1, <2>0, <2>1, <2>3 DEF Coherent, Sender
  <2> QED
    BY <1>1, <2>0, <2>1, <2>2, <2>4 DEF WellFormed
<1>2. CASE s.delivery = "WAITING_FOR_ACK" /\ s.age >= AckTimeout
           /\ ~(s.attempts < MaxAttempts)
  <2>1. t = [s EXCEPT !.delivery = "TIMED_OUT", !.state = "TIMED_OUT"]
    BY <1>0, <1>2 DEF Loop, Mirror, ExpireWindow, Sender
  <2>2. t \in Sender
    BY <1>0, <2>1, ZeroInRange, StateNames DEF Sender
  <2>3. Coherent(t)
    BY <1>0, <1>2, <2>1 DEF Coherent, Sender
  <2>4. Exhausted(t)
    BY <1>0, <1>2, <2>1 DEF Exhausted, Sender
  <2> QED
    BY <1>2, <2>1, <2>2, <2>3, <2>4 DEF WellFormed
<1>3. CASE ~(s.delivery = "WAITING_FOR_ACK" /\ s.age >= AckTimeout)
  <2>1. ExpireWindow(s) = s
    BY <1>3 DEF ExpireWindow
  <2>2. CASE s.delivery = "READY_TO_SEND" /\ ~s.inFlight
    <3>1. t = [s EXCEPT !.delivery = "READY_TO_SEND", !.index = 0,
                        !.state = "READY"]
      BY <1>0, <2>1, <2>2 DEF Loop, Mirror, Sender
    <3>2. t \in Sender
      BY <1>0, <3>1, ZeroInRange, StateNames DEF Sender
    <3>3. Coherent(t) /\ t.state # "TIMED_OUT"
      BY <1>0, <2>2, <3>1 DEF Coherent, Sender
    <3> QED
      BY <2>2, <3>1, <3>2, <3>3 DEF WellFormed
  <2>3. CASE ~(s.delivery = "READY_TO_SEND" /\ ~s.inFlight)
    <3>1. t = s
      <4>1. CASE s.delivery \in {"READY_TO_SEND", "IDLE"}
        BY <2>1, <2>3, <4>1 DEF Loop, Mirror
      <4>2. CASE s.delivery \notin {"READY_TO_SEND", "IDLE"}
        <5>1. s.state = s.delivery
          BY <1>0, <4>2 DEF Coherent
        <5>2. t = [s EXCEPT !.state = s.delivery]
          BY <2>1, <4>2 DEF Loop, Mirror
        <5> QED
          BY <1>0, <5>1, <5>2 DEF Sender
      <4> QED BY <4>1, <4>2
    <3> QED BY <3>1
  <2> QED BY <2>2, <2>3
<1> QED BY <1>1, <1>2, <1>3

-----------------------------------------------------------------------------
(* The specification                                                       *)

\* Nothing is confirmed at the start of an attempt.
LEMMA EmptyRange == ASSUME NEW i, i = 0 PROVE {} = 0 .. i - 1
OBVIOUS

\* The configured, unused sender satisfies the inductive invariant.
LEMMA SenderInitInv == Init => SenderInv
<1> SUFFICES ASSUME Init PROVE SenderInv
  OBVIOUS
<1>1. WellFormed(sender)
  BY InitialWellFormed DEF Init
<1>2. WindowCoversMessage /\ AttemptProgress
  BY DEF Init, InitialSender, WindowCoversMessage, AttemptProgress
<1> QED
  BY <1>1, <1>2, SenderAssumption
     DEF Init, SenderInv, TypeOK, WellFormed, SenderMirrorsDelivery,
         GivesUpOnlyWhenExhausted

\* Every method keeps the invariant, in whatever order they are called.
LEMMA SenderStepInv == SenderInv /\ [Next]_vars => SenderInv'
<1> SUFFICES ASSUME SenderInv, [Next]_vars PROVE SenderInv'
  OBVIOUS
<1> DEFINE HistoryOK ==
             /\ confirmed \in SUBSET (0 .. MaxFragments - 1)
             /\ failed \in BOOLEAN
             /\ WindowCoversMessage
             /\ AttemptProgress
<1>0. WellFormed(sender) /\ HistoryOK
  BY DEF SenderInv, TypeOK, WellFormed, SenderMirrorsDelivery,
         GivesUpOnlyWhenExhausted
<1>q. SUFFICES WellFormed(sender') /\ HistoryOK'
  BY DEF SenderInv, TypeOK, WellFormed, SenderMirrorsDelivery,
         GivesUpOnlyWhenExhausted
<1>1. ASSUME NEW peer \in Peers, NEW kind \in MessageKinds,
             NEW tx \in Transactions, NEW count \in 1 .. MaxFragments,
             StartMessage(peer, kind, tx, count)
      PROVE  WellFormed(sender') /\ HistoryOK'
  <2>1. WellFormed(sender')
    BY <1>0, <1>1, StartWellFormed DEF StartMessage
  <2>2. sender'.state = "READY" /\ sender'.index = 0
    BY <1>0, <1>1 DEF StartMessage, Start, WellFormed, Sender
  <2> QED
    BY <1>1, <2>1, <2>2, EmptyRange
       DEF StartMessage, WindowCoversMessage, AttemptProgress
<1>2. CASE LoopStep
  <2>1. WellFormed(sender')
    BY <1>0, <1>2, LoopWellFormed DEF LoopStep
  <2>2. CASE sender' = sender
    <3>1. CASE confirmed' = confirmed /\ failed' = failed
      BY <1>0, <2>2, <3>1 DEF WindowCoversMessage, AttemptProgress
    <3>2. CASE ~(confirmed' = confirmed /\ failed' = failed)
      <4>1. sender.delivery = "READY_TO_SEND" /\ ~sender.inFlight
            /\ confirmed' = {} /\ failed' = FALSE
        BY <1>2, <2>2, <3>2 DEF LoopStep
      <4>2. sender.state = "READY" /\ sender.index = 0
        <5>1. ExpireWindow(sender) = sender
          BY <4>1 DEF ExpireWindow
        <5>2. sender = [sender EXCEPT !.index = 0, !.state = "READY"]
          BY <1>2, <2>2, <4>1, <5>1 DEF LoopStep, Loop, Mirror
        <5> QED
          BY <1>0, <5>2 DEF WellFormed, Sender
      <4> QED
        BY <1>0, <2>2, <4>1, <4>2, EmptyRange
           DEF WindowCoversMessage, AttemptProgress
    <3> QED BY <3>1, <3>2
  <2>3. CASE /\ sender.delivery \in {"READY_TO_SEND", "WAITING_FOR_ACK"}
             /\ ~sender.inFlight
             /\ sender' = [sender EXCEPT !.delivery = "READY_TO_SEND",
                                         !.index = 0, !.state = "READY"]
    <3>1. /\ sender'.delivery = "READY_TO_SEND" /\ sender'.index = 0
          /\ sender'.state = "READY"
      BY <1>0, <2>3 DEF WellFormed, Sender
    <3>2. confirmed' = {} /\ failed' = FALSE
      BY <1>2, <2>3, <3>1 DEF LoopStep
    <3> QED
      BY <2>1, <3>1, <3>2, EmptyRange
         DEF WindowCoversMessage, AttemptProgress
  <2>4. CASE /\ sender.delivery = "WAITING_FOR_ACK"
             /\ sender' = [sender EXCEPT !.delivery = "TIMED_OUT",
                                         !.state = "TIMED_OUT"]
    <3>1. sender'.delivery = "TIMED_OUT" /\ sender'.state = "TIMED_OUT"
      BY <1>0, <2>4 DEF WellFormed, Sender
    <3>2. confirmed' = confirmed /\ failed' = failed
      BY <1>2, <3>1 DEF LoopStep
    <3> QED
      BY <1>0, <2>1, <3>1, <3>2 DEF WindowCoversMessage, AttemptProgress
  <2> QED
    BY <1>0, <1>2, <2>2, <2>3, <2>4, LoopWellFormed DEF LoopStep
<1>3. CASE TakeFrameStep
  <2>1. WellFormed(sender')
    BY <1>0, <1>3, TakeFrameWellFormed DEF TakeFrameStep
  <2>2. /\ sender'.state = "FRAME_IN_FLIGHT"
        /\ sender'.delivery = sender.delivery /\ sender'.index = sender.index
    BY <1>0, <1>3 DEF TakeFrameStep, TakeFrame, WellFormed, Sender
  <2> QED
    BY <1>0, <1>3, <2>1, <2>2
       DEF TakeFrameStep, WindowCoversMessage, AttemptProgress
<1>4. ASSUME NEW succeeded \in BOOLEAN, CompleteFrameStep(succeeded)
      PROVE  WellFormed(sender') /\ HistoryOK'
  <2>1. /\ WellFormed(sender')
        /\ IF succeeded /\ sender.index + 1 < sender.count
           THEN sender' = [sender EXCEPT !.inFlight = FALSE,
                             !.index = sender.index + 1, !.state = "READY"]
           ELSE /\ sender'.state = "WAITING_FOR_ACK"
                /\ sender'.delivery = "WAITING_FOR_ACK"
                /\ sender'.count = sender.count
                /\ succeeded => sender.index + 1 = sender.count
    BY <1>0, <1>4, CompleteFrameWellFormed DEF CompleteFrameStep
  <2>2. /\ sender.delivery = "READY_TO_SEND" /\ sender.index < sender.count
        /\ sender.index \in 0 .. MaxFragments
        /\ sender.count \in 0 .. MaxFragments
    BY <1>0, <1>4 DEF CompleteFrameStep, WellFormed, Coherent, Sender
  <2>3. confirmed = 0 .. sender.index - 1
    BY <1>0, <2>2 DEF AttemptProgress
  <2>4. ASSUME succeeded
        PROVE  confirmed' = 0 .. sender.index /\ failed' = FALSE
    <3>1. confirmed' = confirmed \cup {sender.index} /\ failed' = FALSE
      BY <1>4, <2>4 DEF CompleteFrameStep
    <3> QED BY <2>2, <2>3, <3>1
  <2>5. ~succeeded => confirmed' = confirmed /\ failed' = TRUE
    BY <1>4 DEF CompleteFrameStep
  <2>6. confirmed' \in SUBSET (0 .. MaxFragments - 1) /\ failed' \in BOOLEAN
    <3>1. CASE succeeded
      BY <2>2, <2>4, <3>1, SenderAssumption
    <3>2. CASE ~succeeded
      BY <1>0, <2>5, <3>2
    <3> QED BY <3>1, <3>2
  <2>7. CASE succeeded /\ sender.index + 1 < sender.count
    <3>1. sender'.state = "READY" /\ sender'.index = sender.index + 1
      BY <1>0, <2>1, <2>7 DEF WellFormed, Sender
    <3>2. sender'.index - 1 = sender.index
      BY <2>2, <3>1
    <3> QED
      BY <2>1, <2>4, <2>6, <2>7, <3>1, <3>2
         DEF WindowCoversMessage, AttemptProgress
  <2>8. CASE ~(succeeded /\ sender.index + 1 < sender.count)
    <3>1. succeeded => sender.count - 1 = sender.index
      BY <2>1, <2>2, <2>8
    <3> QED
      BY <2>1, <2>4, <2>5, <2>6, <2>8, <3>1
         DEF WindowCoversMessage, AttemptProgress
  <2> QED BY <2>7, <2>8
<1>5. ASSUME NEW tx \in Transactions,
             NEW sequence \in 1 .. SequenceModulus - 1,
             NEW status \in AckStatuses, AckStep(tx, sequence, status)
      PROVE  WellFormed(sender') /\ HistoryOK'
  <2>1. /\ WellFormed(sender')
        /\ sender' = sender \/ sender'.state \in {"ACKNOWLEDGED", "REJECTED"}
    BY <1>0, <1>5, AcceptAckWellFormed DEF AckStep
  <2> QED
    BY <1>0, <1>5, <2>1
       DEF AckStep, WindowCoversMessage, AttemptProgress, WellFormed, Coherent
<1>6. CASE ResetStep
  <2>1. WellFormed(sender')
    BY <1>0, <1>6, ResetWellFormed DEF ResetStep
  <2>2. sender'.state = "IDLE" /\ sender'.delivery = "IDLE"
    BY <1>6 DEF ResetStep, Reset, InitialSender
  <2> QED
    BY <1>6, <2>1, <2>2 DEF ResetStep, WindowCoversMessage, AttemptProgress
<1>7. CASE Tick
  BY <1>0, <1>7, ElapseWellFormed
     DEF Tick, WindowCoversMessage, AttemptProgress
<1>8. CASE UNCHANGED vars
  BY <1>0, <1>8 DEF vars, WindowCoversMessage, AttemptProgress
<1> QED
  BY <1>1, <1>2, <1>3, <1>4, <1>5, <1>6, <1>7, <1>8 DEF Next

\* The invariant holds in every state of every call sequence.
THEOREM SenderInvariance == Spec => []SenderInv
<1>1. Init => SenderInv
  BY SenderInitInv
<1>2. SenderInv /\ [Next]_vars => SenderInv'
  BY SenderStepInv
<1> QED
  BY <1>1, <1>2, PTL DEF Spec

\* The sender record never leaves its type, for any caller.
THEOREM SenderTypeCorrect == Spec => []TypeOK
BY SenderInvariance, PTL DEF SenderInv

\* reliable_sender.h and reliability.h never disagree about the message.
THEOREM SenderAgreement == Spec => []SenderMirrorsDelivery
BY SenderInvariance, PTL DEF SenderInv

\* TIMED_OUT is reported only after MaxAttempts full ACK windows.
THEOREM SenderExhausts == Spec => []GivesUpOnlyWhenExhausted
BY SenderInvariance, PTL DEF SenderInv

\* An ACK is awaited only for a message whose fragments were all confirmed,
\* or after a radio failure cut the attempt short.
THEOREM SenderCoverage == Spec => []WindowCoversMessage
BY SenderInvariance, PTL DEF SenderInv

\* Between start and the terminal state no method changes the identity.
THEOREM SenderRetryIdentity == Spec => RetryPreservesIdentity
<1> DEFINE Kept ==
      Active(sender) /\ Active(sender)' =>
        /\ sender'.tx = sender.tx /\ sender'.sequence = sender.sequence
        /\ sender'.peer = sender.peer /\ sender'.kind = sender.kind
        /\ sender'.count = sender.count
        /\ sender'.attempts >= sender.attempts
<1>1. SenderInv /\ [Next]_vars => [Kept]_vars
  <2> USE DEF SenderInv, TypeOK, SenderMirrorsDelivery, Sender, Active
  <2> SUFFICES ASSUME SenderInv, Next PROVE Kept
    OBVIOUS
  <2>1. ASSUME NEW peer \in Peers, NEW kind \in MessageKinds,
               NEW tx \in Transactions, NEW count \in 1 .. MaxFragments,
               StartMessage(peer, kind, tx, count)
        PROVE  Kept
    BY <2>1 DEF StartMessage, CanStart
  <2>2. CASE LoopStep
    BY <2>2 DEF LoopStep, Loop, Mirror, ExpireWindow
  <2>3. CASE TakeFrameStep
    BY <2>3 DEF TakeFrameStep, TakeFrame
  <2>4. ASSUME NEW succeeded \in BOOLEAN, CompleteFrameStep(succeeded)
        PROVE  Kept
    BY <2>4 DEF CompleteFrameStep, CompleteFrame, CanMarkSent, MarkSent
  <2>5. ASSUME NEW tx \in Transactions,
               NEW sequence \in 1 .. SequenceModulus - 1,
               NEW status \in AckStatuses, AckStep(tx, sequence, status)
        PROVE  Kept
    BY <2>5 DEF AckStep, AcceptAck
  <2>6. CASE ResetStep
    BY <2>6 DEF ResetStep, Reset, InitialSender
  <2>7. CASE Tick
    BY <2>7 DEF Tick, Elapse
  <2> QED
    BY <2>1, <2>2, <2>3, <2>4, <2>5, <2>6, <2>7 DEF Next
<1>2. Spec => []SenderInv
  BY SenderInvariance
<1> QED
  BY <1>1, <1>2, PTL DEF Spec, RetryPreservesIdentity, Kept
=============================================================================
