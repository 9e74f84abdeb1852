----------------------------- MODULE ReliableLink -----------------------------
(***************************************************************************)
(* One direction of a link: the endpoint loop of the sending node, reduced *)
(* to the steps that drive its ReliableMessageSender, the radio, and the   *)
(* endpoint loop of the receiving node, reduced to the steps that drive    *)
(* its EspNowProtocolRuntime.  Third nodes also talk to the receiver.      *)
(*                                                                         *)
(* The radio (ESP-NOW, external) delivers a frame to the receive queue of  *)
(* the other node or loses it; a full queue drops it.  The MAC status that *)
(* completes a transmission is independent of the delivery: the MAC ACK    *)
(* may be lost, and a confirmed frame may still be dropped at the queue.   *)
(*                                                                         *)
(* Either node may reboot at any point (a crash, a power cut): everything  *)
(* it holds is in RAM and is gone, and setup() draws a new boot identifier.*)
(* Sequence and transaction numbers start again, so that frames and ACKs   *)
(* from before the reboot differ from later ones in the boot identifier    *)
(* only.  Identifiers are 64 random bits and are taken not to repeat.      *)
(***************************************************************************)
EXTENDS Integers, Sequences, FiniteSets

CONSTANTS
  Deliveries,     \* messages to send, 1 .. N, in the order they are sent
  Fragments,      \* fragments of each of them
  MaxAttempts, AckTimeout,
  CacheCapacity,
  RxCapacity,     \* RX_QUEUE_CAPACITY of both nodes
  OtherMessages,  \* how many messages third nodes send to the receiver between
                  \* the start of message w and of the next, for every w
  MaxReboots,     \* reboots of the two nodes together
  NoMessage, NoAck, NoTransaction

\* Messages are numbered from one and have at least one fragment.
ASSUME LinkAssumption ==
  /\ Deliveries \subseteq Nat \ {0}
  /\ {Fragments, CacheCapacity} \subseteq Nat \ {0} /\ MaxReboots \in Nat
  /\ \A w \in {0} \cup Deliveries : OtherMessages[w] \in Nat

VARIABLES
  sender,      \* node A: the ReliableMessageSender
  step,        \* node A: next step of its loop
  owner,       \* node A: radio_transmission_owner_
  completion,  \* node A: "none", "sent" (outstanding), "ok" or "failed"
  acks,        \* node A: its receive queue, ACK frames only
  boot,        \* node A: local_boot_id_
  offered,     \* history: how many messages were given to the sender
  earlier,     \* history: how many of them before A's last reboot
  outcome,     \* history: terminal state reported per message
  runtime,     \* node B: the EspNowProtocolRuntime
  ackOwner,    \* node B: an ACK frame of its own is in flight
  frames,      \* node B: its receive queue
  others,      \* messages third nodes may send before A's next one starts
  taken,       \* history: how often B accepted each message since it booted
  everTaken,   \* history: messages B ever accepted
  reboots      \* reboots that may still happen

lives == <<boot, offered, earlier, reboots>>
takes == <<taken, everTaken>>
aVars == <<sender, step, owner, completion, acks, outcome, lives>>
bVars == <<runtime, ackOwner, frames, others, takes>>
vars == <<aVars, bVars>>

S == INSTANCE ReliableSender WITH
  Peers <- {"b"}, Transactions <- Deliveries, MaxFragments <- Fragments,
  SequenceModulus <- 100, NoPeer <- "none", confirmed <- {}, failed <- FALSE

R == INSTANCE ProtocolRuntime WITH
  Peers <- {"a", "other"}, NoPeer <- "none", Messages <- {},
  heard <- {}, recent <- <<>>

Init ==
  /\ sender = S!InitialSender /\ step = "completion" /\ owner = "NONE"
  /\ completion = "none" /\ acks = <<>> /\ boot = 1
  /\ offered = 0 /\ earlier = 0
  /\ outcome = [d \in Deliveries |-> "none"]
  /\ runtime = R!InitialRuntime /\ ackOwner = "NONE" /\ frames = <<>>
  /\ others = OtherMessages[0]
  /\ taken = [d \in Deliveries |-> 0] /\ everTaken = {}
  /\ reboots = MaxReboots

-----------------------------------------------------------------------------
(* Node A: the loop, in the order of espnow_net_protocol.cpp:272-300        *)

\* The message the sender works on: transaction numbers count from one in
\* each boot, as next_declarative_transaction_id_ does.
Carried == earlier + sender.tx

\* Between two iterations the application may start the next message.
StartMessage ==
  /\ step = "completion" /\ offered + 1 \in Deliveries
  /\ S!CanStart(sender, "b", offered + 1 - earlier, Fragments)
  /\ sender' = S!Start(sender, "b", "COMMAND", offered + 1 - earlier, Fragments)
  /\ offered' = offered + 1 /\ others' = OtherMessages[offered + 1]
  /\ UNCHANGED <<step, owner, completion, acks, outcome, boot, earlier, reboots,
                 runtime, ackOwner, frames, takes>>

\* process_send_completion_
ProcessSendCompletion ==
  /\ step = "completion" /\ step' = "receive"
  /\ IF completion \in {"ok", "failed"} /\ owner = "SENDER"
     THEN /\ sender' = S!CompleteFrame(sender, completion = "ok")
          /\ owner' = "NONE" /\ completion' = "none"
     ELSE UNCHANGED <<sender, owner, completion>>
  /\ UNCHANGED <<acks, outcome, lives, bVars>>

\* Mutant: the boot identifier of an ACK is not compared.
AcceptAckAnyBoot(key, status) == S!AcceptAck(sender, key.tx, key.sequence, status)

\* accept_ack: the delivery key begins with the boot identifier.
AcceptAck(key, status) ==
  IF key.source = boot THEN S!AcceptAck(sender, key.tx, key.sequence, status)
                       ELSE sender

\* process_received_frame_: an ACK goes straight to the sender.
ProcessReceivedFrame ==
  /\ step = "receive" /\ step' = "loop"
  /\ IF acks # <<>>
     THEN /\ sender' = AcceptAck(Head(acks).key, Head(acks).status)
          /\ acks' = Tail(acks)
     ELSE UNCHANGED <<sender, acks>>
  /\ UNCHANGED <<owner, completion, outcome, lives, bVars>>

\* sender_.loop
SenderLoop ==
  /\ step = "loop" /\ step' = "owned"
  /\ sender' = S!Loop(sender)
  /\ UNCHANGED <<owner, completion, acks, outcome, lives, bVars>>

\* process_owned_sender_completion_
OwnedCompletion ==
  /\ step = "owned" /\ step' = "dispatch"
  /\ IF S!Terminal(sender)
     THEN /\ outcome' = [outcome EXCEPT ![Carried] =
                IF sender.state = "ACKNOWLEDGED" THEN "acknowledged"
                                                 ELSE "failed"]
          /\ sender' = S!Reset(sender)
     ELSE UNCHANGED <<outcome, sender>>
  /\ UNCHANGED <<owner, completion, acks, lives, bVars>>

\* The frame take_frame() encodes from the sender's envelope.
EncodedFrame(s) ==
  [message |-> [kind |-> s.kind, source |-> boot, tx |-> s.tx,
                sequence |-> s.sequence, count |-> s.count,
                ackRequired |-> TRUE, body |-> Carried],
   index |-> s.index, intact |-> TRUE, valid |-> TRUE]

Received(queue, item) ==
  IF Len(queue) < RxCapacity THEN Append(queue, item) ELSE queue

\* dispatch_sender_frame_; the clock may move before the next iteration.
DispatchSenderFrame ==
  /\ step = "dispatch" /\ step' = "completion"
  /\ IF owner = "NONE" /\ S!CanTakeFrame(sender)
     THEN \/ \* esp_now_send refused the frame
             /\ sender' = S!CompleteFrame(S!TakeFrame(sender), FALSE)
             /\ UNCHANGED <<owner, completion, frames>>
          \/ /\ sender' = S!TakeFrame(sender)
             /\ owner' = "SENDER" /\ completion' = "sent"
             /\ frames' \in {frames, Received(frames, <<"a", EncodedFrame(sender)>>)}
     ELSE UNCHANGED <<sender, owner, completion, frames>>
  /\ UNCHANGED <<acks, outcome, lives, runtime, ackOwner, others, takes>>

Tick ==
  /\ step = "completion"
  /\ S!Elapse(sender) # sender
  /\ sender' = S!Elapse(sender)
  /\ UNCHANGED <<step, owner, completion, acks, outcome, lives, bVars>>

\* The Wi-Fi task reports the end of the transmission, either way.
SendCallback ==
  /\ completion = "sent"
  /\ completion' \in {"ok", "failed"}
  /\ UNCHANGED <<sender, step, owner, acks, outcome, lives, bVars>>

-----------------------------------------------------------------------------
(* Node B                                                                  *)

AcceptFrame(peer, f) ==
  /\ runtime' = R!Accept(runtime, peer, f)
  /\ IF runtime'.messageReady /\ ~runtime.messageReady /\ peer = "a"
     THEN /\ taken' = [taken EXCEPT ![f.message.body] = @ + 1]
          /\ everTaken' = everTaken \cup {f.message.body}
     ELSE UNCHANGED takes

\* process_received_frame_
ReceiveAtB ==
  /\ frames # <<>>
  /\ AcceptFrame(Head(frames)[1], Head(frames)[2])
  /\ frames' = Tail(frames)
  /\ UNCHANGED <<aVars, ackOwner, others>>

\* process_application_message_, once the bounded consumer has room.
ConsumeAtB ==
  /\ runtime.messageReady
  /\ runtime' = R!TakeApplicationMessage(runtime)
  /\ UNCHANGED <<aVars, ackOwner, frames, others, takes>>

\* dispatch_application_ack_: the ACK is taken even if the radio refuses it.
AckAtB ==
  /\ runtime.applicationAck # NoAck /\ ackOwner = "NONE"
  /\ runtime' = R!TakeApplicationAck(runtime)
  /\ \/ /\ ackOwner' = "ACK"
        /\ IF runtime.applicationAck.peer = "a"
           THEN acks' \in {acks, Received(acks, runtime.applicationAck)}
           ELSE UNCHANGED acks
     \/ UNCHANGED <<ackOwner, acks>>
  /\ UNCHANGED <<sender, step, owner, completion, outcome, lives, frames,
                 others, takes>>

\* The completion of B's ACK frame, called back and processed.
AckCompleted ==
  /\ ackOwner = "ACK" /\ ackOwner' = "NONE"
  /\ UNCHANGED <<aVars, runtime, frames, others, takes>>

\* A message of a third node, which has a boot identifier of its own, reaches B.
\* No two of these messages have the same key.
OtherTraffic ==
  /\ others > 0 /\ others' = others - 1
  /\ frames' = Received(frames,
       <<"other", [message |-> [kind |-> "RESULT", source |-> MaxReboots + 2,
                                tx |-> others, sequence |-> offered,
                                count |-> 1, ackRequired |-> TRUE,
                                body |-> others],
                   index |-> 0, intact |-> TRUE, valid |-> TRUE]>>)
  /\ UNCHANGED <<aVars, runtime, ackOwner, takes>>

-----------------------------------------------------------------------------
(* Reboots                                                                 *)

\* setup() after a reset of A.  Nobody is told of the message it carried.
RebootA ==
  /\ reboots > 0 /\ reboots' = reboots - 1
  /\ sender' = S!InitialSender /\ step' = "completion" /\ owner' = "NONE"
  /\ completion' = "none" /\ acks' = <<>>
  /\ boot' = boot + 1 /\ earlier' = offered
  /\ outcome' = [d \in Deliveries |->
       IF d <= offered /\ outcome[d] = "none" THEN "abandoned" ELSE outcome[d]]
  /\ UNCHANGED <<offered, bVars>>

\* setup() after a reset of B: the duplicate cache is empty.
RebootB ==
  /\ reboots > 0 /\ reboots' = reboots - 1
  /\ runtime' = R!InitialRuntime /\ ackOwner' = "NONE" /\ frames' = <<>>
  /\ taken' = [d \in Deliveries |-> 0]
  /\ UNCHANGED <<sender, step, owner, completion, acks, outcome, boot, offered,
                 earlier, others, everTaken>>

-----------------------------------------------------------------------------
LoopA ==
  \/ ProcessSendCompletion
  \/ ProcessReceivedFrame
  \/ SenderLoop
  \/ OwnedCompletion
  \/ DispatchSenderFrame

Next ==
  \/ StartMessage
  \/ LoopA
  \/ Tick
  \/ SendCallback
  \/ ReceiveAtB
  \/ ConsumeAtB
  \/ AckAtB
  \/ AckCompleted
  \/ OtherTraffic
  \/ RebootA
  \/ RebootB

\* The main loop of node A runs for ever, its clock advances between
\* iterations (millis() is sampled once per iteration, so Tick is enabled only
\* between two of them and strong fairness is what a running clock means), and
\* the radio driver calls back for every frame it took.  The air and node B owe
\* nothing.
Fairness ==
  /\ WF_vars(LoopA)
  /\ SF_vars(Tick)
  /\ WF_vars(SendCallback)

Spec == Init /\ [][Next]_vars /\ Fairness

-----------------------------------------------------------------------------
(* Properties                                                              *)

\* The link implements the abstract delivery: within one life of the receiver
\* no message is taken twice, success is reported only for a message that was
\* taken, and one message is under way at a time - whatever is lost, repeated
\* or delayed across a reboot ("so the receiver can acknowledge duplicates
\* without executing the command twice").
Delivery == INSTANCE ReliableDelivery WITH offered <- 1 .. offered

ImplementsDelivery == Delivery!Spec

\* Every message given to the sender is eventually reported acknowledged or
\* failed, or is lost in a reboot of the sender, even if the air loses
\* everything.
EveryDeliveryEnds ==
  \A d \in Deliveries : d <= offered ~> outcome[d] # "none"
=============================================================================
