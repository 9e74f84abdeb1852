------------------------------- MODULE Endpoint -------------------------------
(***************************************************************************)
(* EspNowNetProtocolComponent (espnow_net_protocol.cpp/.h): the main loop  *)
(* that drives the reliable sender, the protocol runtime, the outbound     *)
(* command client with its one or two slots, the background result lane,   *)
(* the inbound dispatcher, the single result notification slot and the     *)
(* heartbeat, all on the main task, against a radio whose callbacks run on *)
(* the Wi-Fi task.                                                         *)
(*                                                                         *)
(* Each step function of loop() is one action and `step' names the next    *)
(* one; callbacks and arriving frames interleave anywhere.  Calls of other *)
(* components (start_command, cancel_command, ...) run on the main task    *)
(* between two iterations.  The radio is initialised throughout.           *)
(*                                                                         *)
(* External and therefore free: the remote peer, which may acknowledge     *)
(* whatever was put on the air and send results for commands that were;    *)
(* the air, which may lose anything; the command handler behind the        *)
(* dispatcher.  One frame carries a whole message.                         *)
(***************************************************************************)
EXTENDS Integers, Sequences, FiniteSets

CONSTANTS
  Slots,            \* {0}, or {0, 1} with USE_..._DUAL_COMMAND_CLIENT
  Commands,         \* transaction ids of outbound commands
  Unsolicited,      \* transaction ids of results nobody here asked for
  Inbound,          \* transaction ids of commands the peer sends
  Background,       \* transaction ids of background results
  Raw,              \* transaction ids of messages an API caller sends itself
  ResultStatuses,   \* what the peer's results may say
  PeerAckStatuses,  \* what the peer's delivery ACKs may say
  MaxResults,       \* bound: how many results the peer sends
  MaxRepeats,       \* bound: how often the peer repeats a message in all
  CommandTimeout,   \* NetCommand::timeout_ms, in ticks
  HeartbeatInterval, HeartbeatTimeout, MaxPings, \* see Heartbeat
  PeerPings,        \* sequence numbers of the peer's PINGs
  MaxAttempts, AckTimeout, CacheCapacity,
  RxCapacity,       \* RX_QUEUE_CAPACITY
  CompletionCapacity, \* SEND_COMPLETION_QUEUE_CAPACITY
  DriverCapacity,     \* frames esp_now_send buffers before it refuses (external)
  HasResultObserver,  \* a NetUnsolicitedResultObserver is registered
  CanCancel, CanDisable, CanDefer, \* which calls the other components make
  NoMessage, NoAck, NoTransaction

ASSUME EndpointAssumption ==
  /\ 0 \in Slots /\ Slots \subseteq {0, 1}
  /\ CommandTimeout \in Nat \ {0}
  /\ ResultStatuses \subseteq {"IN_PROGRESS", "SUCCEEDED", "FAILED", "MALFORMED"}
  /\ PeerAckStatuses \subseteq {"ACCEPTED", "DUPLICATE", "REJECTED"}
  /\ HeartbeatTimeout \in Nat \ {0} /\ PeerPings \subseteq Nat \ {0}
  /\ HeartbeatInterval = 0 \/ HeartbeatInterval > HeartbeatTimeout
  /\ CompletionCapacity \in Nat \ {0} /\ CacheCapacity \in Nat \ {0}
  /\ NoTransaction \notin Commands
  /\ NoMessage \notin [tx : Commands, status : ResultStatuses \cup {"FAILED"},
                      started : BOOLEAN]

VARIABLES
  step,          \* next step of loop()
  enabled,       \* runtime_enabled_
  sender,        \* sender_
  messageOwner,  \* reliable_message_owner_
  senderSlot,    \* command_sender_slot_
  radioOwner,    \* radio_transmission_owner_
  clients,       \* command_client_*_: one record per slot
  notification,  \* command_result_notification_, or NoMessage
  lastTerminal,  \* last_terminal_transaction_id_
  mailbox,       \* result_message_ready_
  runtime,       \* runtime_
  dispatcher,    \* command_dispatcher_: state, transaction, kept progress
  background,    \* background_result_*_, and the identifiers that the
                 \* background lane and the API caller have used up
  heart          \* heartbeat_*_

node == <<enabled, sender, messageOwner, senderSlot, radioOwner, clients,
          notification, lastTerminal, mailbox, runtime, dispatcher, background,
          heart>>

VARIABLES
  rx,           \* the radio's receive queue
  airborne,     \* frames handed to the driver, not called back yet
  completions,  \* the radio's send completion queue
  aired,        \* delivery keys put on the air so far
  results,      \* result messages the peer has sent so far
  commands,     \* command messages the peer has sent so far
  repeats,      \* how often it repeated one
  beats,        \* PINGs put on the air and PINGs the peer has answered
  ended,        \* history: how each command ended
  told          \* history: terminal notifications delivered per command

peer == <<results, commands, repeats, beats>>
world == <<rx, airborne, completions, aired, peer>>
history == <<ended, told>>
vars == <<step, node, world, history>>

S == INSTANCE ReliableSender WITH
  Peers <- {"peer"}, Transactions <- Commands \cup Inbound \cup Background \cup Raw,
  MaxFragments <- 1, SequenceModulus <- 100, NoPeer <- "none",
  confirmed <- {}, failed <- FALSE

R == INSTANCE ProtocolRuntime WITH
  Peers <- {"peer"}, NoPeer <- "none", Messages <- {},
  heard <- {}, recent <- <<>>

H == INSTANCE Heartbeat

IdleClient ==
  [state |-> "IDLE", tx |-> NoTransaction, age |-> 0, external |-> FALSE]

IdleDispatcher == [state |-> "IDLE", tx |-> NoTransaction, terminal |-> TRUE]

Init ==
  /\ step = "notify" /\ enabled = TRUE
  /\ sender = S!InitialSender /\ messageOwner = "NONE" /\ senderSlot = 0
  /\ radioOwner = "NONE"
  /\ clients = [s \in Slots |-> IdleClient]
  /\ notification = NoMessage /\ lastTerminal = NoTransaction
  /\ mailbox = FALSE /\ runtime = R!InitialRuntime
  /\ dispatcher = IdleDispatcher
  /\ background = [tx |-> NoTransaction, ready |-> FALSE, used |-> {}]
  /\ rx = <<>> /\ airborne = <<>> /\ completions = <<>>
  /\ heart = H!InitialHeart /\ beats = [pinged |-> {}, answered |-> {}]
  /\ aired = {} /\ results = {} /\ commands = {} /\ repeats = 0
  /\ ended = [c \in Commands |-> "none"]
  /\ told = [c \in Commands |-> 0]

-----------------------------------------------------------------------------
(* The command client                                                      *)

\* Mutant: the newer notification replaces the pending one.
QueueOverwrites(pending, result) == result

\* queue_command_result_notification_ with an observer registered: one slot,
\* and a notification that finds it taken is dropped.
Queue(pending, result) == IF pending # NoMessage THEN pending ELSE result

\* Mutant: the slot is not cleared.
FinishKeepsClient(slot, result, how) ==
  /\ lastTerminal' = clients[slot].tx
  /\ UNCHANGED clients
  /\ notification' = Queue(notification, result)
  /\ ended' = [ended EXCEPT ![clients[slot].tx] = how]

\* finish_command_client_ and clear_command_client_: remember the transaction,
\* free the slot, then queue the terminal notification.
Finish(slot, result, how) ==
  /\ lastTerminal' = clients[slot].tx
  /\ clients' = [clients EXCEPT ![slot] = IdleClient]
  /\ notification' = Queue(notification, result)
  /\ ended' = [ended EXCEPT ![clients[slot].tx] = how]

\* fail_command_client_
Fail(slot) ==
  Finish(slot, [tx |-> clients[slot].tx, status |-> "FAILED",
                started |-> clients[slot].state = "WAITING_FOR_RESULT"],
         "failed")

\* matching_command_client_: only a client already waiting for its result.
Matching(tx) ==
  {s \in Slots : clients[s].state = "WAITING_FOR_RESULT" /\ clients[s].tx = tx}

-----------------------------------------------------------------------------
(* Calls from other components: between two iterations, or from inside the *)
(* observer's on_net_command_result callback, which is where the loop      *)
(* stands once the notification has been dispatched.                       *)

CallSite == step \in {"notify", "completion"}

\* start_command; slot 0 is preferred.
CanStartCommand ==
  /\ enabled
  /\ \E s \in Slots : clients[s].state = "IDLE"
  /\ messageOwner = "NONE" /\ sender.state = "IDLE"

StartCommand(tx) ==
  LET slot == IF clients[0].state = "IDLE" THEN 0 ELSE 1 IN
  /\ CallSite /\ ended[tx] = "none" /\ \A s \in Slots : clients[s].tx # tx
  /\ CanStartCommand
  /\ sender' = S!Start(sender, "peer", "COMMAND", tx, 1)
  /\ clients' = [clients EXCEPT ![slot] =
       [state |-> "WAITING_FOR_DELIVERY_ACK", tx |-> tx, age |-> 0,
        external |-> FALSE]]
  /\ senderSlot' = slot /\ messageOwner' = "COMMAND_CLIENT"
  /\ UNCHANGED <<step, enabled, radioOwner, notification, lastTerminal,
                 mailbox, runtime, dispatcher, background, world, history,
                 heart>>

\* cancel_command: the sender is released only if it works for this slot.
CancelSlot(slot) ==
  /\ IF messageOwner = "COMMAND_CLIENT" /\ senderSlot = slot
     THEN sender' = S!Reset(sender) /\ messageOwner' = "NONE"
     ELSE UNCHANGED <<sender, messageOwner>>
  /\ lastTerminal' = clients[slot].tx
  /\ clients' = [clients EXCEPT ![slot] = IdleClient]
  /\ ended' = [ended EXCEPT ![clients[slot].tx] = "cancelled"]

CancelCommand(slot) ==
  /\ CanCancel /\ CallSite /\ clients[slot].state # "IDLE"
  /\ CancelSlot(slot)
  /\ UNCHANGED <<step, enabled, senderSlot, radioOwner, notification, mailbox,
                 runtime, dispatcher, background, world, told, heart>>

\* use_external_result_deadline
UseExternalDeadline(slot) ==
  /\ CanDefer /\ CallSite /\ clients[slot].state # "IDLE"
  /\ clients' = [clients EXCEPT ![slot].external = TRUE]
  /\ UNCHANGED <<step, enabled, sender, messageOwner, senderSlot, radioOwner,
                 notification, lastTerminal, mailbox, runtime, dispatcher,
                 background, world, history, heart>>

\* start_background_result and take_background_result_completion
StartBackground(tx) ==
  /\ CallSite /\ enabled /\ tx \notin background.used
  /\ messageOwner = "NONE" /\ sender.state = "IDLE" /\ ~background.ready
  /\ sender' = S!Start(sender, "peer", "RESULT", tx, 1)
  /\ messageOwner' = "BACKGROUND_RESULT"
  /\ background' = [background EXCEPT !.tx = tx, !.used = @ \cup {tx}]
  /\ UNCHANGED <<step, enabled, senderSlot, radioOwner, clients, notification,
                 lastTerminal, mailbox, runtime, dispatcher, world, history,
                 heart>>

TakeBackground ==
  /\ CallSite /\ background.ready
  /\ background' = [background EXCEPT !.ready = FALSE, !.tx = NoTransaction]
  /\ UNCHANGED <<step, enabled, sender, messageOwner, senderSlot, radioOwner,
                 clients, notification, lastTerminal, mailbox, runtime,
                 dispatcher, world, history, heart>>

\* start_reliable_message, which does not ask whether the runtime is enabled,
\* and reset_sender, with which the caller releases its own message.  The code
\* does not check whose message it is; callers that reset only their own are
\* assumed.
StartReliable(tx) ==
  /\ CallSite /\ tx \notin background.used
  /\ messageOwner = "NONE" /\ sender.state = "IDLE"
  /\ sender' = S!Start(sender, "peer", "COMMAND", tx, 1)
  /\ messageOwner' = "API_CALLER"
  /\ background' = [background EXCEPT !.used = @ \cup {tx}]
  /\ UNCHANGED <<step, enabled, senderSlot, radioOwner, clients, notification,
                 lastTerminal, mailbox, runtime, dispatcher, world, history,
                 heart>>

ResetSender ==
  /\ CallSite /\ messageOwner = "API_CALLER"
  /\ sender' = S!Reset(sender) /\ messageOwner' = "NONE"
  /\ UNCHANGED <<step, enabled, senderSlot, radioOwner, clients, notification,
                 lastTerminal, mailbox, runtime, dispatcher, background, world,
                 history, heart>>

\* take_application_message: somebody empties the raw result mailbox.
TakeMailbox ==
  /\ CallSite /\ mailbox
  /\ mailbox' = FALSE
  /\ UNCHANGED <<step, enabled, sender, messageOwner, senderSlot, radioOwner,
                 clients, notification, lastTerminal, runtime, dispatcher,
                 background, world, history, heart>>

\* set_runtime_enabled(false): everything the client and the sender hold is
\* dropped, and the radio owner is forgotten even if a frame is in flight.
Disable ==
  LET active == {s \in Slots : clients[s].state # "IDLE"}
      dropped == {clients[s].tx : s \in active}
                   \cup {c \in Commands : notification # NoMessage
                                            /\ notification.tx = c}
  IN
  /\ CanDisable /\ CallSite /\ enabled
  /\ enabled' = FALSE
  /\ sender' = S!Reset(sender) /\ messageOwner' = "NONE"
  /\ lastTerminal' = IF active = {} THEN lastTerminal
                     ELSE clients[CHOOSE s \in active :
                                    \A t \in active : t <= s].tx
  /\ clients' = [s \in Slots |-> IdleClient]
  /\ ended' = [c \in Commands |-> IF c \in dropped THEN "cancelled"
                                                   ELSE ended[c]]
  /\ radioOwner' = "NONE" /\ notification' = NoMessage /\ mailbox' = FALSE
  /\ background' = [background EXCEPT !.tx = NoTransaction, !.ready = FALSE]
  /\ rx' = <<>> /\ completions' = <<>> /\ heart' = H!Abandon(heart)
  /\ UNCHANGED <<step, senderSlot, runtime, dispatcher, airborne, aired, peer,
                 told>>

Enable ==
  /\ CanDisable /\ CallSite /\ ~enabled
  /\ enabled' = TRUE
  /\ UNCHANGED <<step, sender, messageOwner, senderSlot, radioOwner, clients,
                 notification, lastTerminal, mailbox, runtime, dispatcher,
                 background, world, history, heart>>

-----------------------------------------------------------------------------
(* loop()                                                                  *)

\* A disabled runtime only empties the radio queues (discard_radio_events_);
\* heartbeat_tick_ runs too, but has nothing left to expire.
DisabledLoop ==
  /\ step = "notify" /\ ~enabled
  /\ rx' = <<>> /\ completions' = <<>>
  /\ UNCHANGED <<step, node, airborne, aired, peer, history>>

\* heartbeat_tick_, then dispatch_command_result_notification_.
DispatchNotification ==
  /\ step = "notify" /\ enabled /\ step' = "completion"
  /\ heart' = H!TickExpired(heart) /\ notification' = NoMessage
  /\ told' = IF notification # NoMessage /\ notification.status # "IN_PROGRESS"
             THEN [told EXCEPT ![notification.tx] = @ + 1] ELSE told
  /\ UNCHANGED <<enabled, sender, messageOwner, senderSlot, radioOwner,
                 clients, lastTerminal, mailbox, runtime, dispatcher,
                 background, world, ended>>

\* process_send_completion_: a completion with no owner is dropped.
ProcessSendCompletion ==
  /\ step = "completion" /\ step' = "receive"
  /\ IF completions # <<>>
     THEN /\ completions' = Tail(completions)
          /\ sender' = IF radioOwner = "SENDER"
                       THEN S!CompleteFrame(sender, Head(completions).ok)
                       ELSE sender
          /\ radioOwner' = "NONE"
     ELSE UNCHANGED <<completions, sender, radioOwner>>
  /\ UNCHANGED <<enabled, messageOwner, senderSlot, clients, notification,
                 lastTerminal, mailbox, runtime, dispatcher, background, rx,
                 airborne, aired, peer, history, heart>>

\* process_received_frame_: a heartbeat packet never reaches the runtime; any
\* other frame does, and a delivery ACK goes straight on to the sender.
ProcessReceivedFrame ==
  /\ step = "receive" /\ step' = "message"
  /\ IF rx = <<>> THEN UNCHANGED <<rx, runtime, sender, heart>>
     ELSE IF Head(rx).kind # "frame"
     THEN /\ rx' = Tail(rx) /\ heart' = H!Receive(heart, Head(rx))
          /\ UNCHANGED <<runtime, sender>>
     ELSE LET r == R!Accept(runtime, "peer", Head(rx).frame) IN
          /\ rx' = Tail(rx)
          /\ runtime' = R!TakeDeliveryAck(r)
          /\ sender' = IF r.deliveryAck # NoAck
                       THEN S!AcceptAck(sender, r.deliveryAck.tx,
                                        r.deliveryAck.sequence,
                                        r.deliveryAck.status)
                       ELSE sender
          /\ UNCHANGED heart
  /\ UNCHANGED <<enabled, messageOwner, senderSlot, radioOwner, clients,
                 notification, lastTerminal, mailbox, dispatcher, background,
                 airborne, completions, aired, peer, history>>

\* process_application_message_: the message stays in the reassembler until
\* the consumer its kind and transaction select has room.
Held == runtime.buffer.message

MustHold ==
  \/ Held.kind = "COMMAND" /\ dispatcher.state # "IDLE"
  \/ /\ Held.kind = "RESULT" /\ mailbox /\ ~HasResultObserver
     /\ Matching(Held.tx) = {} /\ Held.tx # lastTerminal
  \/ /\ Held.kind = "RESULT" /\ Matching(Held.tx) # {}
     /\ notification # NoMessage

\* process_command_client_result_
ClientResult(slot, status) ==
  CASE status = "MALFORMED" -> Fail(slot)
    [] status = "IN_PROGRESS" ->
         /\ notification' = Queue(notification,
              [tx |-> Held.tx, status |-> status, started |-> TRUE])
         /\ UNCHANGED <<lastTerminal, clients, ended>>
    [] OTHER ->
         Finish(slot, [tx |-> Held.tx, status |-> status, started |-> TRUE],
                "result")

Consume ==
  /\ runtime' = R!TakeApplicationMessage(runtime)
  /\ CASE Held.kind = "COMMAND" ->
            \* the handler starts the command or refuses it at once; a
            \* dispatcher that is not idle would drop it
            /\ IF dispatcher.state = "IDLE"
               THEN \E st \in {"ACTIVE", "RESULT_READY"} : dispatcher' =
                      [state |-> st, tx |-> Held.tx, terminal |-> TRUE]
               ELSE UNCHANGED dispatcher
            /\ UNCHANGED <<lastTerminal, clients, ended, notification, mailbox>>
       [] Held.kind = "RESULT" /\ Matching(Held.tx) # {} ->
            /\ ClientResult(CHOOSE s \in Matching(Held.tx) :
                              \A t \in Matching(Held.tx) : s <= t, Held.body)
            /\ UNCHANGED <<mailbox, dispatcher>>
       [] OTHER ->
            \* late terminal: discarded; otherwise observer or raw mailbox
            /\ mailbox' = (mailbox \/ (Held.tx # lastTerminal
                                         /\ ~HasResultObserver))
            /\ UNCHANGED <<lastTerminal, clients, ended, notification,
                           dispatcher>>

ProcessApplicationMessage ==
  /\ step = "message" /\ step' = "timeout0"
  /\ IF runtime.messageReady /\ ~MustHold THEN Consume
     ELSE UNCHANGED <<runtime, lastTerminal, clients, ended, notification,
                      mailbox, dispatcher>>
  /\ UNCHANGED <<enabled, sender, messageOwner, senderSlot, radioOwner,
                 background, world, told, heart>>

\* Mutant: the deadline is never looked at.
FunctionalTimeoutIgnored(slot, next) ==
  /\ step' = next
  /\ UNCHANGED <<lastTerminal, clients, notification, ended, enabled, sender,
                 messageOwner, senderSlot, radioOwner, mailbox, runtime,
                 dispatcher, background, world, told, heart>>

\* The functional deadline of one slot.
FunctionalTimeout(slot, next) ==
  /\ step' = next
  /\ IF slot \in Slots /\ clients[slot].state = "WAITING_FOR_RESULT"
        /\ ~clients[slot].external /\ clients[slot].age >= CommandTimeout
     THEN Fail(slot)
     ELSE UNCHANGED <<lastTerminal, clients, notification, ended>>
  /\ UNCHANGED <<enabled, sender, messageOwner, senderSlot, radioOwner,
                 mailbox, runtime, dispatcher, background, world, told, heart>>

FunctionalTimeouts ==
  \/ step = "timeout0" /\ FunctionalTimeout(0, "timeout1")
  \/ step = "timeout1" /\ FunctionalTimeout(1, "dispatcher")

\* command_dispatcher_.loop: the handler may report progress once, or finish.
DispatcherLoop ==
  /\ step = "dispatcher" /\ step' = "sender"
  /\ \/ /\ dispatcher.state = "ACTIVE"
        /\ \E terminal \in BOOLEAN :
             /\ ~terminal => dispatcher.terminal
             /\ dispatcher' = [dispatcher EXCEPT !.state = "RESULT_READY",
                                                 !.terminal = terminal]
     \/ UNCHANGED dispatcher
  /\ UNCHANGED <<enabled, sender, messageOwner, senderSlot, radioOwner,
                 clients, notification, lastTerminal, mailbox, runtime,
                 background, world, history, heart>>

\* sender_.loop
SenderLoop ==
  /\ step = "sender" /\ step' = "owned"
  /\ sender' = S!Loop(sender)
  /\ UNCHANGED <<enabled, messageOwner, senderSlot, radioOwner, clients,
                 notification, lastTerminal, mailbox, runtime, dispatcher,
                 background, world, history, heart>>

\* Mutant: the owner is not released with the sender.
OwnedSenderCompletionKeepsOwner ==
  /\ step = "owned" /\ step' = "result"
  /\ sender' = IF S!Terminal(sender) /\ messageOwner \notin {"NONE", "API_CALLER"}
               THEN S!Reset(sender) ELSE sender
  /\ UNCHANGED <<enabled, messageOwner, senderSlot, radioOwner, clients,
                 lastTerminal, notification, mailbox, runtime, dispatcher,
                 background, world, history, heart>>

\* process_owned_sender_completion_ (the radio recovery it requests after a
\* timeout is not part of this module)
OwnedSenderCompletion ==
  /\ step = "owned" /\ step' = "result"
  /\ IF S!Terminal(sender) /\ messageOwner \notin {"NONE", "API_CALLER"}
     THEN sender' = S!Reset(sender) /\ messageOwner' = "NONE"
     ELSE UNCHANGED <<sender, messageOwner>>
  /\ IF S!Terminal(sender) /\ messageOwner = "COMMAND_CLIENT"
     THEN IF sender.state = "ACKNOWLEDGED"
          THEN /\ clients' = [clients EXCEPT ![senderSlot].state =
                                "WAITING_FOR_RESULT"]
               /\ UNCHANGED <<lastTerminal, notification, ended>>
          ELSE Fail(senderSlot)
     ELSE UNCHANGED <<lastTerminal, clients, notification, ended>>
  /\ background' = IF S!Terminal(sender) /\ messageOwner = "BACKGROUND_RESULT"
                   THEN [background EXCEPT !.ready = TRUE] ELSE background
  /\ UNCHANGED <<enabled, senderSlot, radioOwner, mailbox, runtime, dispatcher,
                 world, told, heart>>

\* process_dispatcher_: the result goes out when the sender is free.
ProcessDispatcher ==
  /\ step = "result" /\ step' = "ack"
  /\ IF messageOwner = "NONE" /\ sender.state = "IDLE"
        /\ dispatcher.state = "RESULT_READY"
     THEN /\ sender' = S!Start(sender, "peer", "RESULT", dispatcher.tx, 1)
          /\ messageOwner' = "DISPATCHER_RESULT"
          /\ dispatcher' = IF dispatcher.terminal THEN IdleDispatcher
                           ELSE [dispatcher EXCEPT !.state = "ACTIVE"]
     ELSE UNCHANGED <<sender, messageOwner, dispatcher>>
  /\ UNCHANGED <<enabled, senderSlot, radioOwner, clients, notification,
                 lastTerminal, mailbox, runtime, background, world, history,
                 heart>>

\* esp_now_send accepts a frame; `airborne' lists whose it is.  It may refuse
\* at any time, and does when its buffers are full.
Transmit(who) ==
  /\ Len(airborne) < DriverCapacity
  /\ radioOwner' = who
  /\ airborne' = Append(airborne, who)

\* Mutant: an ACK does not wait for the frame in flight.
DispatchApplicationAckAtOnce ==
  /\ step = "ack" /\ step' = "frame"
  /\ IF runtime.applicationAck # NoAck
     THEN /\ runtime' = R!TakeApplicationAck(runtime)
          /\ Transmit("ACK") \/ UNCHANGED <<radioOwner, airborne>>
     ELSE UNCHANGED <<runtime, radioOwner, airborne>>
  /\ UNCHANGED <<enabled, sender, messageOwner, senderSlot, clients,
                 notification, lastTerminal, mailbox, dispatcher, background,
                 rx, completions, aired, peer, history, heart>>

\* dispatch_application_ack_: a refused ACK frame is not kept.
DispatchApplicationAck ==
  /\ step = "ack" /\ step' = "frame"
  /\ IF radioOwner = "NONE" /\ runtime.applicationAck # NoAck
     THEN /\ runtime' = R!TakeApplicationAck(runtime)
          /\ Transmit("ACK") \/ UNCHANGED <<radioOwner, airborne>>
     ELSE UNCHANGED <<runtime, radioOwner, airborne>>
  /\ UNCHANGED <<enabled, sender, messageOwner, senderSlot, clients,
                 notification, lastTerminal, mailbox, dispatcher, background,
                 rx, completions, aired, peer, history, heart>>

\* dispatch_sender_frame_: a refused frame counts as a failed transmission.
DispatchSenderFrame ==
  /\ step = "frame" /\ step' = "heartbeat"
  /\ IF radioOwner = "NONE" /\ S!CanTakeFrame(sender)
     THEN \/ /\ sender' = S!TakeFrame(sender) /\ Transmit("SENDER")
             /\ aired' = aired \cup
                  {[tx |-> sender.tx, sequence |-> sender.sequence]}
          \/ /\ sender' = S!CompleteFrame(S!TakeFrame(sender), FALSE)
             /\ UNCHANGED <<radioOwner, airborne, aired>>
     ELSE UNCHANGED <<sender, radioOwner, airborne, aired>>
  /\ UNCHANGED <<enabled, messageOwner, senderSlot, clients, notification,
                 lastTerminal, mailbox, runtime, dispatcher, background, rx,
                 completions, peer, history, heart>>

\* Mutant: the heartbeat does not wait for the frame in flight.
DispatchHeartbeatAtOnce ==
  /\ step = "heartbeat" /\ step' = "notify"
  /\ IF messageOwner = "NONE" /\ sender.state = "IDLE" /\ heart.reply # 0
     THEN heart' = H!TakeReply(heart) /\ Transmit("HEARTBEAT")
     ELSE UNCHANGED <<heart, radioOwner, airborne>>
  /\ UNCHANGED <<enabled, sender, messageOwner, senderSlot, clients,
                 notification, lastTerminal, mailbox, runtime, dispatcher,
                 background, rx, completions, aired, peer, history>>

\* dispatch_heartbeat_: only when nothing else wants the radio.  A reply owed
\* goes first; refused by the radio, it is gone and a PING counts as an error.
DispatchHeartbeat ==
  /\ step = "heartbeat" /\ step' = "notify"
  /\ IF radioOwner = "NONE" /\ messageOwner = "NONE" /\ sender.state = "IDLE"
     THEN CASE heart.reply # 0 ->
                 /\ heart' = H!TakeReply(heart)
                 /\ Transmit("HEARTBEAT") \/ UNCHANGED <<radioOwner, airborne>>
                 /\ UNCHANGED beats
            [] H!PingDue(heart) ->
                 \/ /\ Transmit("HEARTBEAT") /\ heart' = H!Pinged(heart)
                    /\ beats' = [beats EXCEPT !.pinged = @ \cup {heart'.pending}]
                 \/ /\ heart' = H!PingRefused(heart)
                    /\ UNCHANGED <<radioOwner, airborne, beats>>
            [] OTHER -> UNCHANGED <<heart, radioOwner, airborne, beats>>
     ELSE UNCHANGED <<heart, radioOwner, airborne, beats>>
  /\ UNCHANGED <<enabled, sender, messageOwner, senderSlot, clients,
                 notification, lastTerminal, mailbox, runtime, dispatcher,
                 background, rx, completions, aired, results, commands,
                 repeats, history>>

\* millis() moves between two iterations.
Older(c) ==
  IF c.state # "IDLE" /\ c.age < CommandTimeout
  THEN [c EXCEPT !.age = @ + 1] ELSE c

Tick ==
  /\ step = "notify"
  /\ sender' = S!Elapse(sender)
  /\ clients' = [s \in Slots |-> Older(clients[s])]
  /\ heart' = H!Elapse(heart)
  /\ <<sender', clients', heart'>> # <<sender, clients, heart>>
  /\ UNCHANGED <<step, enabled, messageOwner, senderSlot, radioOwner,
                 notification, lastTerminal, mailbox, runtime, dispatcher,
                 background, world, history>>

\* A received heartbeat is timed by a new reading of millis(), later than the
\* one heartbeat_tick_ used in this iteration.
LateTick ==
  /\ step = "receive" /\ heart.pending # 0
  /\ heart' = H!Elapse(heart) /\ heart' # heart
  /\ UNCHANGED <<step, enabled, sender, messageOwner, senderSlot, radioOwner,
                 clients, notification, lastTerminal, mailbox, runtime,
                 dispatcher, background, world, history>>

-----------------------------------------------------------------------------
(* The Wi-Fi task, the air and the peer (external)                         *)

\* send_callback_: the oldest frame is done; a full queue drops the event.
SendCallback ==
  /\ airborne # <<>>
  /\ airborne' = Tail(airborne)
  /\ \E ok \in BOOLEAN :
       completions' = IF Len(completions) < CompletionCapacity
                      THEN Append(completions, [for |-> Head(airborne), ok |-> ok])
                      ELSE completions
  /\ UNCHANGED <<step, node, rx, aired, peer, history>>

\* receive_callback_: a frame of the peer reaches the queue.
Arrive(m) ==
  /\ Len(rx) < RxCapacity
  /\ rx' = Append(rx, [kind |-> "frame",
       frame |-> [message |-> m, index |-> 0, intact |-> TRUE, valid |-> TRUE]])

PeerMessage(kind, tx, sequence, body) ==
  [kind |-> kind, source |-> "bootPeer", tx |-> tx, sequence |-> sequence,
   count |-> 1, ackRequired |-> kind # "ACK", body |-> body]

PeerAck ==
  /\ \E key \in aired, status \in PeerAckStatuses :
       Arrive(PeerMessage("ACK", key.tx, 1,
                [tx |-> key.tx, sequence |-> key.sequence, status |-> status]))
  /\ UNCHANGED <<step, node, airborne, completions, aired, peer, history>>

\* A new result for a command that was on the air, or an unsolicited one.
PeerResult ==
  /\ Cardinality(results) < MaxResults
  /\ \E tx \in Unsolicited \cup ({key.tx : key \in aired} \cap Commands),
        status \in ResultStatuses :
       LET m == PeerMessage("RESULT", tx, Cardinality(results) + 1, status)
       IN  Arrive(m) /\ results' = results \cup {m}
  /\ UNCHANGED <<step, node, airborne, completions, aired, commands, repeats,
                 beats, history>>

PeerCommand ==
  /\ \E tx \in Inbound :
       LET m == PeerMessage("COMMAND", tx, 99, "command")
       IN  m \notin commands /\ Arrive(m) /\ commands' = commands \cup {m}
  /\ UNCHANGED <<step, node, airborne, completions, aired, results, repeats,
                 beats, history>>

\* The peer repeats a message whose ACK it missed; its retry policy bounds how
\* often.
PeerRepeat ==
  /\ repeats < MaxRepeats /\ repeats' = repeats + 1
  /\ \E m \in results \cup commands : Arrive(m)
  /\ UNCHANGED <<step, node, airborne, completions, aired, results, commands,
                 beats, history>>

\* The peer pings, answers a PING of this boot that was on the air, perhaps
\* more than once, or answers one of an earlier boot.
PeerHeartbeat ==
  /\ Len(rx) < RxCapacity
  /\ \E packet \in
          [kind : {"PING"}, boot : {"peer"}, sequence : PeerPings]
          \cup [kind : {"PONG"}, boot : {"this"}, sequence : beats.pinged]
          \cup [kind : {"PONG"}, boot : {"earlier"}, sequence : 1 .. MaxPings] :
       /\ rx' = Append(rx, packet)
       /\ beats' = IF packet.boot = "this"
                   THEN [beats EXCEPT !.answered = @ \cup {packet.sequence}]
                   ELSE beats
  /\ UNCHANGED <<step, node, airborne, completions, aired, results, commands,
                 repeats, history>>

-----------------------------------------------------------------------------
LoopStep ==
  \/ DispatchNotification
  \/ ProcessSendCompletion
  \/ ProcessReceivedFrame
  \/ ProcessApplicationMessage
  \/ FunctionalTimeouts
  \/ DispatcherLoop
  \/ SenderLoop
  \/ OwnedSenderCompletion
  \/ ProcessDispatcher
  \/ DispatchApplicationAck
  \/ DispatchSenderFrame
  \/ DispatchHeartbeat

Calls ==
  \/ \E tx \in Commands : StartCommand(tx)
  \/ \E slot \in Slots : CancelCommand(slot) \/ UseExternalDeadline(slot)
  \/ \E tx \in Background : StartBackground(tx)
  \/ TakeBackground
  \/ \E tx \in Raw : StartReliable(tx)
  \/ ResetSender
  \/ TakeMailbox
  \/ Disable
  \/ Enable

Next ==
  \/ LoopStep
  \/ DisabledLoop
  \/ Calls
  \/ Tick
  \/ SendCallback
  \/ PeerAck
  \/ PeerResult
  \/ PeerRepeat
  \/ PeerCommand
  \/ LateTick
  \/ PeerHeartbeat

\* The scheduler keeps calling loop(), millis() keeps advancing between two
\* iterations, and the driver calls back for every frame it accepted.
Fairness == WF_vars(LoopStep) /\ SF_vars(Tick) /\ WF_vars(SendCallback)

Spec == Init /\ [][Next]_vars /\ Fairness

-----------------------------------------------------------------------------
(* Properties                                                              *)

\* The shared sender always works for exactly the party recorded as its owner:
\* a client waiting for a delivery ACK is the one the sender is sending for,
\* and an owner never outlives its message (cpp:129-207, 431-525).
SenderOwnership ==
  /\ messageOwner = "NONE" <=> sender.state = "IDLE"
  /\ \A s \in Slots : clients[s].state = "WAITING_FOR_DELIVERY_ACK" <=>
       messageOwner = "COMMAND_CLIENT" /\ senderSlot = s
         /\ sender.tx = clients[s].tx
  /\ background.ready => messageOwner # "BACKGROUND_RESULT"

\* "one radio frame in flight at a time", and the owner marker names it: a
\* completion is never credited to another frame (cpp:674-745).
OneFrameInFlight ==
  LET outstanding ==
        airborne \o [i \in DOMAIN completions |-> completions[i].for]
  IN  /\ radioOwner = "NONE" => outstanding = <<>>
      /\ radioOwner # "NONE" => outstanding = <<radioOwner>>
      /\ sender.inFlight => radioOwner = "SENDER"

\* Every PING is counted exactly once, whichever of PONG, timeout, refusal and
\* disable comes first, and repeated or late PONGs change nothing
\* (application_heartbeat.cpp:71-82, 126-132, 168-180).
HeartbeatAccounted == H!Balanced(heart)

\* A PING is counted as answered only if the peer answered that very PING: a
\* late PONG of an earlier one, or of an earlier boot, is never credited
\* (application_heartbeat.h:50-56).
HeartbeatGenuine == heart.credited \subseteq beats.answered

Pending(tx) ==
  notification # NoMessage /\ notification.tx = tx
    /\ notification.status # "IN_PROGRESS"

\* A terminal result that arrived and was consumed always reaches the observer:
\* the slot has been emptied when a result is consumed (cpp:272, 337-338), and
\* a failure of the other slot in the same iteration does not displace it
\* (cpp:657).
DecodedResultReported ==
  \A c \in Commands : ended[c] = "result" => told[c] = 1 \/ Pending(c)

\* The observer hears at most one terminal result per command, and only of a
\* command that is over.
OneTerminalReport ==
  \A c \in Commands :
    told[c] + (IF Pending(c) THEN 1 ELSE 0) <= (IF ended[c] = "none" THEN 0 ELSE 1)

\* "delivery rejection, delivery timeout, invalid result and functional timeout
\* are emitted as terminal FAILED results through the same observer".
FailureReported ==
  \A c \in Commands : ended[c] = "failed" => told[c] = 1 \/ Pending(c)

\* "the first correlated terminal result releases the client": consuming a
\* terminal result of a command that is under way ends that command.
TerminalResultReleases ==
  [][\A s \in Slots :
       runtime.messageReady /\ ~runtime'.messageReady
         /\ Held.kind = "RESULT" /\ Held.body # "IN_PROGRESS"
         /\ clients[s].state # "IDLE" /\ Held.tx = clients[s].tx
       => clients'[s].state = "IDLE"]_vars

\* Every command the client admits ends: by a result, a failure or a cancel.
Started(c) == \E s \in Slots : clients[s].tx = c
EveryCommandEnds ==
  \A c \in Commands : Started(c) ~> ended[c] # "none"

\* The heartbeat never gets stuck behind production traffic: an open exchange
\* is answered or expires, and an owed reply is sent or expires.
HeartbeatSettles ==
  /\ heart.pending # 0 ~> heart.pending = 0
  /\ heart.reply # 0 ~> heart.reply = 0
=============================================================================
