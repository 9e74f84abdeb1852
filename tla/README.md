# A TLA+ model of the ESP-NOW net protocol component

The repository (`src/`) is an ESPHome external component that carries commands
and their results between ESP32 nodes over encrypted ESP-NOW. A node sends a
command as one or more radio frames, repeats it until a *delivery ACK* says the
peer's runtime has it, and then waits for a *functional result* that travels back
as a reliable message of its own. This directory models that machinery, checks it
with TLC on small instances, and proves with TLAPS, for every value of the
constants, the safety of the retrying sender, the queue between the two tasks, the
receiving runtime, the radio, the inbound lanes and the endpoint's loop.

## 1. Inventory

### 1.1 Components

| Component | Source (under `src/components/espnow_net_protocol/`) | State it keeps | Operations |
|---|---|---|---|
| Reliable delivery | `reliability.h` `EspNowReliableDelivery` | delivery state, identity, attempts, ACK deadline | `start`, `mark_sent`, `accept_ack`, `loop`, `reset` |
| Reliable message sender | `reliable_sender.h` | sender state, fragment index, in-flight flag, sequence counter | `start`, `loop`, `take_frame`, `complete_frame`, `accept_ack`, `reset` |
| Radio event queue | `radio_queue.h` | ring, `head_`, `tail_` | `push` (Wi-Fi task), `pop` (main task) |
| Protocol runtime | `protocol_runtime.h`, reassembler of `frame.h`, duplicate cache of `reliability.h` | partial message and its peer, held message, held ACKs, eight remembered identities | `accept`, `take_application_message`, `take_application_ack`, `take_delivery_ack` |
| Codecs | `frame.h`, `reliability.h`, `command_codec.h`, `result_codec.h` | none | encode, decode, CRC, consistency |
| Endpoint | `espnow_net_protocol.cpp/.h` | owner of the sender, owner of the radio, one or two command client slots, one notification slot, raw mailbox, background lane | `loop` and its steps, `start_command`, `cancel_command`, background calls, `set_runtime_enabled` |
| Inbound dispatcher | `command_dispatcher.h`, up to three of them: main, parallel and interrupt lane | state, command, deadline, pending result per lane | `accept`, `can_accept_interrupt`, `loop`, `take_result` |
| Declarative handler and probes | `declarative_command_handler.h`, `*_completion_probe.h` | active binding, its deadline, one result | `can_accept`, `start`, `loop`, `take_result`, `cancel` |
| Encrypted radio | `espidf_espnow_encrypted_radio.*` | driver state, channel, peers, two queues | start-up, `send_frame`, callbacks, peer refresh, recovery |
| Wi-Fi arbitration and peer recovery | radio component, `wifi_peer_recovery.cpp`, `docs/wifi-reconnect-arbitration.md` | suppression request, grace and budget timers; attempt under way, recovery queued | request, release; phases of an attempt, reapply the peers |
| Heartbeat | `application_heartbeat.*` | exchange under way, the reply owed, timers, counters | PING, PONG, timeout |
| Interruptible transaction pair | `interruptible_transaction_pair.h` | operation, interrupt, whether the operation was interrupted | begin and finish of each; used by integrations outside the repository |
| Registry, identity, diagnostics, configuration | rest of the directory | tables, counters | lookups, logging, code generation |

`PROJECT.json` lists every component with what is modelled of it and why the rest
is not.

### 1.2 How they interact

Everything except the two radio callbacks runs on ESPHome's main task. The
callbacks run on the Wi-Fi task and communicate only through two single-producer
single-consumer rings: received frames (capacity 3) and send completions
(capacity 4). One iteration of the endpoint's `loop()` does, in this order:
deliver the pending notification to the observer; pop one send completion; pop
and reassemble one received frame; hand a held message to its consumer; check the
functional deadlines; run the dispatcher of each lane; run the sender's `loop`; finish the
sender's owner; start a dispatcher's result; send a held ACK frame; send the
sender's next frame; send a heartbeat. The three kinds of frame share the radio through
`radio_transmission_owner_`; command client, background lane, dispatcher and API
callers share the sender through `reliable_message_owner_`. The observer's
callback may call back into the endpoint, even to disable it.

### 1.3 What is hard

Two tasks meet in lock-free rings; frames, ACKs and results are lost, repeated
and overtake each other; each layer has its own timeout (ACK window, functional
deadline, dispatcher deadline, completion deadline) and they race; single slots
(the sender, the radio, the notification, the reassembly buffer) are shared by
several parties and are full when they are needed; cancelling and disabling cut
exchanges at any point; either node may reboot and start its counters over; an
operation and the stop that interrupts it run on two lanes and finish in either
order. `PROJECT.json` lists these as `hazards`, each at its
source line.

### 1.4 What makes each part correct

* Sender: two state machines never disagree; the policy's attempts are all made,
  each with its full window, before giving up; a retry is recognisable as one.
* Queue: a FIFO, without a torn slot, at every interleaving.
* Runtime: a message is attributed to the peer that sent all of it, is held
  unchanged until taken, is acknowledged only if held, and is delivered once per
  cache window.
* Link: taken at most once per life of the receiver, success only if taken, every
  delivery ends unless its sender reboots.
* Endpoint: sender and radio always work for the recorded owner, at most one
  terminal notification, every command ends.
* Heartbeat: every PING is counted once, a PONG answers only its own PING, the
  exchange settles, production traffic is never disturbed.
* Dispatcher: one outcome per command, said last; handler always freed; no lane
  takes another's result; INTERRUPTED only after a stop that succeeded; every
  acknowledged command answered.
* Codecs: what is sent is what is decoded, up to the size limits and across
  fragments.
* Radio: never restarted under a frame that owns it, and owned only while a
  completion is to come; a due restart waits only while something is under way; no
  reason for a restart is lost; peers are reapplied only between a failed attempt
  and the next; every peer stays reachable; suppression requests are paired with
  releases and Wi-Fi may always reconnect in the end; the radio comes up.

## 2. Modules

| Module | Models | Uses |
|---|---|---|
| `ReliableSender` | `ReliableMessageSender` with the `EspNowReliableDelivery` it owns, as a record and one operator per method; its own specification calls the methods in any order | |
| `ReliableSenderProofs` | theorems about it | `ReliableSender` |
| `SpscQueue` | `EspNowSpscQueue`: `push` and `pop` split into load, slot access, index store | `BoundedFifo` |
| `SpscQueueProofs` | theorems about it, the refinement included | `SpscQueue` |
| `BoundedFifo` | abstract queue | |
| `ProtocolRuntime` | `EspNowProtocolRuntime` with reassembler and duplicate cache | |
| `ProtocolRuntimeProofs` | theorems about it | `ProtocolRuntime` |
| `ReliableLink` | node A's loop around the sender, the lossy air, node B's runtime and ACK path | `ReliableSender`, `ProtocolRuntime`, `ReliableDelivery` |
| `ReliableLinkProofs` | theorems about it, the refinement included | `ReliableLink` |
| `ReliableDelivery` | abstract promise of the link | |
| `Endpoint` | `EspNowNetProtocolComponent::loop` with the single or dual command client, background lane, API sender, heartbeat, observer and runtime switch, against a free peer | `ReliableSender`, `ProtocolRuntime`, `Heartbeat` |
| `EndpointProofs` | theorems about it | `Endpoint` |
| `Heartbeat` | `HeartbeatExchange` and the endpoint's heartbeat fields, as a record and operators | |
| `InboundDispatcher` | the `InboundCommandDispatcher`s of the three lanes and the endpoint's choice between them | `CommandHandlers`, `Codecs` |
| `InboundDispatcherProofs` | theorems about it | `InboundDispatcher`, `CodecProofs` |
| `CommandHandlers` | `DeclarativeCommandHandler`; `InterruptibleTransactionPair` in an application handler | |
| `Codecs` | `EspNowCommandCodec`, `EspNowResultCodec`, `EspNowFrameCodec` with the reassembler, as pure operators | |
| `CodecProofs` | theorems about them | `Codecs` |
| `EncryptedRadio` | `EspIdfEspNowEncryptedRadio`: the poll with association, Wi-Fi arbitration, channel, restart, peer refresh and initialisation, and the endpoint's use of the radio | |
| `EncryptedRadioProofs` | theorems about it | `EncryptedRadio` |
| `MC*` | instances for TLC (message set, symmetry) | |

### 2.1 How state and actions correspond to the code

**ReliableSender.** The record `sender` holds the fields of both classes that
affect control: `state`, `delivery`, identity (`tx`, `sequence`, `kind`, `peer`),
`count`/`index` of fragments, `inFlight`, `attempts`, and `age`, the time since
the ACK window opened, which stands for `deadline_ - now` and saturates at the
timeout it is compared with. The payload is its number of fragments. `confirmed`
and `failed` are history: which fragments of the present attempt the radio has
confirmed and whether it was cut short. The sequence counter wraps at
`SequenceModulus` and skips zero, as the code's does at 2^32.

**SpscQueue.** `PushLoad`, `PushWrite`, `PushPublish` and `PopLoad`, `PopRead`,
`PopRelease` interleave freely. The acquire and release orders of the code make
each index store visible after the slot access that precedes it, which is the
order of the actions. Loading both indexes is one action: an index only the other
task writes can only grow between the two loads, which makes the queue less full
(for `push`) or less empty (for `pop`), so a later load is the more permissive
one and a refusal is an attempt that changes nothing. `IndexModulus` stands for 2^32.

**ProtocolRuntime.** A frame is a message, a fragment index and two flags:
`valid` (header and size checks) and `intact` (its contribution to the message
CRC). The runtime's record holds the assembly (its peer, identity, fragments),
the held message, the held ACKs and the duplicate ring. `heard` and `recent` are
history. `accept` is one operator with its early returns as alternatives, taken
in the code's order.

**ReliableLink.** `step` is A's position in `loop()`, and only the steps that
concern a delivery are kept, in the code's order. The air may lose any frame and
any ACK; a queue that is full drops what arrives, after the MAC has confirmed it;
the MAC may report a failure of a frame that did arrive. A third node's traffic
competes for B's runtime and cache: `OtherMessages[w]` bounds what may arrive
between A's start of message `w` and of the next. Either node may reboot:
`RebootA` is a new boot identity with transaction numbers and sequence starting
over while old frames and ACKs are still under way, `RebootB` an empty cache and
runtime. `ReliableDelivery`, the abstract promise, counts what was taken since the
receiver's last boot, because nothing is persisted.

**Endpoint.** One action per step of `loop()`; `step` names the next one.
`Calls` are the public methods, run between iterations or from the observer's
callback (`CallSite`). The peer is free: it may acknowledge anything that was put
on the air, with any status, and send results for commands that were, in any
order. `ended` and `told` are history. The command handler behind the dispatcher
is free; `InboundDispatcher` models it, with the two optional lanes.

**Heartbeat.** The record `heart` is the endpoint's heartbeat state. Its expiry
(`heartbeat_tick_`) runs in the first step of an iteration, a received packet is
recognised before the runtime sees it and is timed by a second reading of
`millis()` (`LateTick`), and `DispatchHeartbeat` is the last step, taken only when
neither the radio nor the sender is in use. `beats` is the peer's side: which
PINGs were sent, and which it answered.

The guard that keeps a result in the reassembler while a notification is pending
(`espnow_net_protocol.cpp:337-338`) never applies in this loop order: the slot is
emptied first and is filled only after the message step. `DecodedResultReported`
rests on that order and on `queue_command_result_notification_` keeping the older
notification.

**InboundDispatcher.** `Init` chooses the build: the declarative handler on the
main lane, or an application handler on every lane, with any of the optional lanes
switched on. `Arrive` is the runtime completing a command, which stays `held`
until `MayTake`; `TakeMessage` asks the lanes in the code's order; `LaneLoop` is
each dispatcher's `loop` with everything it calls in the handler; `SendResult` is
`process_dispatcher_` when the sender is free. A command is what the code tells
apart: `stop` or not, the peer, device, resource and source it comes from (`Keys`),
and the binding it matches. The probe answers freely. `reports` records what was
handed to the sender, `past` which stops succeeded and at which operation they
were aimed.

**CommandHandlers.** The pair's methods are translated from the source. The
application handler around them is not in this repository: it follows
`docs/interruptible-command-concurrency.md` (an operation announces itself with
IN_PROGRESS, a stop of the same source interrupts it) and overrides
`has_result(transaction_id)`, as a handler on several lanes must.

**Codecs.** A payload is a sequence with one element per header field and one per
byte of text or data; a text ends at its first NUL, as `BoundedText` does. The
size limits are constants in the proportions of the code: the largest command
fills its payload exactly (10+63+63+47+256+9+63 = 511 bytes), the largest result
fits only without its error text, and a message has at most three fragments. The
reassembly buffer keeps what an earlier message left, since the code never clears
it; of several copies to a byte the last one stays. The codecs have no state, so their two properties are asked in the initial
states.

**EncryptedRadio.** One action, `Poll`, is the radio's `loop()` with everything
it calls, in its order; `Tick` is one poll interval, and a poll may come late.
Each `*_ms_` deadline is a countdown that ends at zero (the code's sentinel 0 for
"never" is a countdown that has ended). What ESP-IDF and the Wi-Fi component
answer is free, but failed calls and lost channels are bounded by `MaxTroubles`:
`RadioComesUp` says that the radio comes up once they stop. Losing and regaining
the association is not bounded. The endpoint is reduced to the exchange it works
on, the frame that owns the radio, and the calls that request refresh and
recovery. `recovery` holds the build (with or without a fixed channel, chosen in
`Init`) and the peer recovery of fixed-channel builds: `WiFiPhase` is a phase of a
connection attempt reported by the Wi-Fi component, in any order, and
`PeerRecoveryTick` the endpoint's step that reapplies the peers. `granted` counts
suppression requests on the Wi-Fi component's side and `stale` records that a reason
for a restart came up since the last start.

The runtime switch has a state between on and off. A call of `set_runtime_enabled`
between two iterations disables the runtime at once; a call from an observer or
handler inside `loop()` does not end that iteration, which goes on to send an ACK or
a frame and to own the radio (`leaving`, until `LeaveLoop`). A disabled iteration
gives the radio its turn (`Poll`), throws the completions away and leaves the owner
as it is (`Discard`, for `discard_radio_events_`); `Enable` changes nothing else.
`start_reliable_message` is possible throughout, because it does not ask. `cutOff`
is a history field of the owner: it was left behind when the runtime became disabled.

### 2.2 Assumptions of the models

* The radio is initialised throughout `Endpoint` and `ReliableLink`; start-up and
  recovery are in `EncryptedRadio`, which keeps of the endpoint only what matters
  to the radio.
* `Endpoint` has one peer and messages of one frame; several peers and fragments
  are covered by `ProtocolRuntime`, fragments also by `ReliableSender` and
  `ReliableLink`.
* API callers reset only a message that is their own.
* `millis()` does not move within one iteration, because `loop()` samples it
  once, and the signed comparison of deadlines is exact because `loop()` runs
  more often than every 2^31 ms. Ages therefore replace absolute times.
* Within a run no heartbeat sequence number wraps, and a boot identity is never
  drawn twice.
* `InboundDispatcher` numbers all commands in the order they arrive, while the code
  has a transaction number per sender. The lanes tell commands apart by number and
  sender, and the modelled handlers are asked by the number of a command that a lane
  has, so two senders with equal numbers would add a coincidence that only a handler
  keyed on the number alone could confuse.
* ESP-IDF calls back once for every frame it accepted. The code has no timeout for a
  callback that does not come.
* In the composed modules the sequence counter does not wrap (modulus 100);
  `ReliableSender` checks and proves it with a wrapping one.

## 3. Runs

| Run | Bounds | What it shows |
|---|---|---|
| `sender` | 2 transactions, up to 3 fragments, 3 attempts, window of 2 ticks, sequence modulo 4 | Methods in any order keep both state machines in agreement (`SenderMirrorsDelivery`), give up only when exhausted (`GivesUpOnlyWhenExhausted`), open a window only after a whole or a failed transmission (`WindowCoversMessage`), and never change the identity of a retry (`RetryPreservesIdentity`) |
| `queue` | capacity 4, indexes modulo 8, 2 values | `NoSlotRace`, and `ImplementsFifo`: a bounded FIFO across index wrap |
| `runtime` | 2 peers, 6 messages (a two-fragment one, three that overflow the cache of 2, ACKs, one without the ACK flag), damaged and malformed frames | `AssemblyFlagExact`, `HeldMessageGenuine`, `HeldMessageStable`, `OncePerWindow` |
| `link` | 2 messages, 2 attempts, queues of 2, cache of 2, 1 foreign message before and 1 during the first delivery, 1 reboot of either node | `ImplementsDelivery` (at most once per life of the receiver, success only if taken), and `EveryDeliveryEnds` even if the air loses everything |
| `endpoint_commands` | 2 slots, 2 commands, cancel, external deadline, disable and enable, 1 result, 1 repeat | `SenderOwnership`, `DecodedResultReported`, `OneTerminalReport` |
| `endpoint_lanes` | a background result or an API message, 2 PINGs of its own, 1 of the peer, interval 2, timeout 1, PONGs repeated and from an earlier boot | `OneFrameInFlight`, `HeartbeatAccounted`, `HeartbeatGenuine`, and `HeartbeatSettles`: every PING that is out is answered or given up |
| `endpoint_ends` | 1 command, 1 inbound command with its results, 1 unsolicited result, malformed results, a driver that refuses frames | `OneFrameInFlight`, `EveryCommandEnds` |
| `dispatcher` | 3 commands from 2 sources, every build, dispatcher deadline 2, completion deadline 1; codec limits of 2 or 3 bytes per field and fragments of 9 | `HandlerReleased`, `OutcomeIsLast`, `ProgressFirst`, `NoStolenResult`, `InterruptedAfterStop`, `EveryCommandAnswered`; `CommandRoundTrip` and `ResultRoundTrip` on the shortest and longest value of every field in every combination, from fragments in every order |
| `radio` | both builds, 2 peers, 1 adverse answer of ESP-IDF, 1 frame in the driver, delays of 1 or 2 poll intervals, the runtime disabled and enabled at any time | `OwnerHasFrame` (only a frame of the iteration that disabled the runtime can be left without its completion), `PeersUsable`, `NoStaleEpoch`, `SuppressionPaired`, `ReapplyInWindow`, and the liveness of `ReconnectReopens`, `RadioComesUp` and `DeferredOnlyWhileBusy` (with the same exception, a pending restart is not put off for ever with nothing under way) |
| `link_fragments` | 1 message of 2 fragments | violates `EveryDeliveryEnds`, see finding 1 |
| `endpoint_notification` | 2 slots | violates `FailureReported`, see finding 2 |
| `endpoint_early_result` | 1 slot | violates `TerminalResultReleases`, see finding 3 |

Every property of a passing run has a mutant: an operator next to the definition
it mutates (comment `Mutant:`), a plausible slip in that code that makes the
property fail.

**Why the bounds are enough to be interesting.** Two attempts separate the first
from the last one, three in `sender` add a middle one; three fragments have a
first, middle and last. Two transactions let a stale ACK or result meet the next
exchange. A cache of two with three identities evicts. Queues of one or two
fill up. Two slots are all the build has. Three commands fill the three lanes, or
are an operation, its stop, and what comes after both. Windows of one or two ticks can be
crossed by each event before, at and after the deadline. Ticks are unbounded
(ages saturate), so no behaviour is cut by a clock bound. In `radio` the runtime switch
is free and never bounded, which leaves room for one adverse answer (a failed start, a
failed refresh or a lost channel) and one frame in the driver, next to completions of
earlier frames; the safety properties of that run are proved for every number of
either. The peer's freedom is
bounded by `MaxResults` (results it sends) and `MaxRepeats` (repetitions).

**Fairness.** The main loop keeps running: weak fairness of the loop's steps,
which ESPHome's scheduler gives. `millis()` advances: strong fairness of `Tick`,
because `Tick` is enabled only between two iterations. The driver calls back once
for every frame it accepted: weak fairness of `SendCallback`. In `radio`
an iteration ends (weak fairness of `LeaveLoop`), the radio is polled again and
again (strong fairness of `Poll`, which is not enabled in the middle of an iteration
that disabled the runtime) and the clock runs (weak fairness of `Tick`); nothing is
assumed of who uses the switch. In `dispatcher`,
strong fairness of `SendResult`: the sender is free again and again because each
delivery of one frame ends (`EveryDeliveryEnds`). It is not justified for a result
of several fragments, whose delivery does not end by finding 1, so
`EveryCommandAnswered` is a claim about results of one frame. Nothing is assumed of
the air or the peer.
`EveryCommandEnds` does need the bound `MaxRepeats`: ACK frames go before sender
frames, so a peer that repeated messages for ever could keep the radio busy; a
peer running this code stops after its retry policy.

## 4. Findings

Each is shown by a run that is expected to violate a property.

1. **A message longer than one frame does not get past its first fragment**
   (`link_fragments`). The endpoint runs `sender_.loop` before sending the next
   frame, and that method rewinds to fragment 0 whenever the delivery is ready to
   send with no frame in flight, between two fragments of one attempt as well
   (`reliable_sender.h:66`). While the MAC succeeds, fragment 0 is sent again and
   again.
2. **A failure may go unreported** (`endpoint_notification`). Two slots that fail
   in one iteration share one notification slot and the second is dropped.
3. **An early result does not release the client** (`endpoint_early_result`). A
   terminal result that overtakes the delivery ACK goes to the raw mailbox while
   the client goes on waiting.

Further observations, kept as hazards with a note and without a run of their own:

* **A frame sent by the iteration that disabled the runtime keeps the radio.** The
  observer may disable the runtime at the start of `loop()`; the same iteration still
  sends a held ACK, or a message the observer started, and takes the radio
  (`espnow_net_protocol.cpp:299-300`). The disabled iterations throw its completion
  away (`:266-268`) and enabling does not reset the owner: until the runtime is
  disabled once more no frame is sent, and a restart that is due stays deferred. The
  two properties of `EncryptedRadio` that make an exception for it (`cutOff`) fail
  without the exception.
* Disabling forgets the radio owner while its frame may be with the driver (`:87`). If
  the runtime is enabled again before the driver calls back, a new command's frame
  can be completed by the completion of an old ACK frame, which
  `docs/c9c-radio-runtime-binding.md:9-11` says the owner marker prevents.
* A late result of a cancelled command reaches the raw mailbox once another command
  has ended: only the last terminal transaction is remembered, while the repository's
  README (lines 58-59) says that a late result is discarded.
* A delivery that timed out reports `started = false` although the peer may have taken
  the command (only the ACKs were lost), while the documentation calls a fallback to
  another transport safe then; the dispatcher's timeout reports `started = false` for a
  command whose automation ran.
* A completion timeout of zero, which the configuration accepts, makes the progress
  result inconsistent: a probed command is answered INTERNAL_ERROR and the declarative
  handler stays busy with it (section 5.5).
* The received-frame ring has a capacity (3) that does not divide 2^32, so its slot
  order breaks while the published window straddles the wrap of an index (away from
  there it is proved safe, `QueueKeepsPublished`).
* Traffic of other peers can evict an identity that is still being retried; a message
  taken just before its receiver reboots and retried by a surviving sender is taken
  again.
* A stop that had to use an ordinary lane, because the interrupt lane was busy or
  switched off, may be answered after the operation's INTERRUPTED; a stop whose own
  deadline passes first is reported as timed out although it took effect; an ordinary
  command that waits in the runtime keeps a later stop from being received at all.

## 5. Proofs

Every theorem is about the specification the runs check, for all values of its
constants. In each module one inductive invariant is proved first (`Init` implies
it, every action keeps it) and the properties follow from it; each was checked
with TLC before it was proved. The operators a record is updated with have lemmas
of their own, and the step lemma has one case per action of `Next`. The codecs
(section 5.8) have no state and need no invariant.

### 5.1 The sender (`ReliableSenderProofs`)

Assumed: `PolicyAssumption` (what `EspNowRetryPolicy::valid` demands) and
`SenderAssumption` (a non-zero fragment limit, a counter wide enough to skip zero,
reserved values that are not members).

| Theorem | Statement |
|---|---|
| `SenderInvariance` | `Spec => []SenderInv`, the inductive invariant |
| `SenderTypeCorrect` | `Spec => []TypeOK` |
| `SenderAgreement` | `Spec => []SenderMirrorsDelivery` |
| `SenderExhausts` | `Spec => []GivesUpOnlyWhenExhausted` |
| `SenderCoverage` | `Spec => []WindowCoversMessage` |
| `SenderRetryIdentity` | `Spec => RetryPreservesIdentity` |

`SenderInv` is the conjunction of the four state invariants and
`AttemptProgress`: while an attempt is being transmitted, the confirmed fragments
are exactly those below the fragment index. `WindowCoversMessage` speaks only of
the window, and without `AttemptProgress` the step that opens the window (the
completion of the last fragment) could start from a state in which earlier
fragments were never confirmed. The operators have a lemma each
(`StartWellFormed`, `CompleteFrameWellFormed`, ...) saying that they keep a
record well-formed: typed, coherent and exhausted when timed out.
`SenderRetryIdentity` is an action property and uses the invariant in each case.

### 5.2 The queue (`SpscQueueProofs`)

Assumed: `QueueAssumption` (a non-zero capacity below the index modulus).

| Theorem | Statement |
|---|---|
| `QueueBounded` | `Spec => []RingInv`, the inductive invariant |
| `QueueKeepsPublished` | `Spec => []NoOverwriteInTurn` (while the published window lies on one side of the index wrap, no write lands on a published slot) |
| `QueueNoSlotRace` | if `Aligned`, `Spec => []NoSlotRace` |
| `QueueImplementsFifo` | if `Aligned`, `Spec => ImplementsFifo` |

`RingInv` says what each task may rely on while the other runs: between its load
and its index store a producer still has room and a consumer still has something
to take, because the other task can only make more. `FifoInv` adds what the
refinement needs of the values: the slot the producer wrote and the one the
consumer copied are untouched until their index is stored. With that the two
index stores map to `Push` and `Pop` of `BoundedFifo` and every other step
stutters.

`Aligned` says that the capacity divides the index modulus. It holds of the
completion queue (4 and 2^32), not of the frame queue (3), and the hypothesis is
needed: at capacity 3 the slots of two indexes on either side of the wrap may
coincide. For the frame queue the two unconditional theorems remain.

### 5.3 The receiving runtime (`ProtocolRuntimeProofs`)

Assumed: `RuntimeAssumption` (a cache that is not empty) and `MessagesAssumption`
(what the frame codec checks of every header it accepts: at least one fragment).

| Theorem | Statement |
|---|---|
| `RuntimeInvariance` | `Spec => []RuntimeInv`, the inductive invariant |
| `RuntimeTypeCorrect` | `Spec => []TypeOK` |
| `RuntimeFlagExact` | `Spec => []AssemblyFlagExact` |
| `RuntimeHeldGenuine` | `Spec => []HeldMessageGenuine` |
| `RuntimeOncePerWindow` | `Spec => []OncePerWindow` |
| `RuntimeAckImpliesHeld` | `Spec => []AckImpliesHeld` |
| `RuntimeHeldStable` | `Spec => HeldMessageStable` |

`HeldMessageGenuine` says nothing of an assembly that is not complete, so it
cannot be kept by the frame that completes one: `Provenance` says of every partial
message that each intact fragment in the buffer was heard from the peer the
assembly belongs to. `OncePerWindow` needs the history of held keys to be what the
duplicate ring remembers, which eviction keeps. `AckImpliesHeld` (an ACK is staged only for
a message that was held) is a part of the invariant and is proved only.

### 5.4 The radio (`EncryptedRadioProofs`)

Assumed: `RadioAssumption` (a finite non-empty set of peers, durations that are not
zero).

| Theorem | Statement |
|---|---|
| `RadioInvariance` | `Spec => []RadioInv`, the inductive invariant |
| `RadioSuppressionPaired` | `Spec => []SuppressionPaired` |
| `RadioOwnerHasFrame` | `Spec => []OwnerHasFrame` |
| `RadioPeersUsable` | `Spec => []PeersUsable` |
| `RadioNoStaleEpoch` | `Spec => []NoStaleEpoch` |
| `RadioReapplyInWindow` | `Spec => []ReapplyInWindow` |

All of them hold for either value of `CanDisable`. `OwnerHasFrame` says that whoever
owns the radio has a completion coming, unless its frame was cut off by the iteration
that disabled the runtime, and that even then the radio is up: no restart takes it
away. The exception is what the code does (section 4), and the theorem bounds it: no
cancel, timeout, restart, refresh or other use of the switch can leave an owner behind.

`RadioInv` strengthens three of them. `OwnedWhileDisabled`: whoever owns the radio of a
disabled runtime was cut off. Without it `Discard`, which empties the completion queue,
could take the last completion of an owner that has one to come. `Paired`: the
arbitration holds a suppression exactly in REQUESTING and SUPPRESSED, and is MONITORING whenever it is associated,
unknown or switched off by a fixed channel; otherwise a release could be taken
twice from a state that does not own one. `Current`: a radio that is up is not
recovering, so the early return of a request made during a recovery never meets a
radio that would forget it. `Poll` is proved along the stages of `loop()`.

### 5.5 The inbound lanes (`InboundDispatcherProofs`)

Assumed: `DispatcherAssumption` (a command's timeout is not zero, which `decode`
demands; reserved values that are not members), and in each theorem
`CompletionTimeout > 0`.

| Theorem | Statement |
|---|---|
| `DispatcherInvariance` | `Spec => []DispatcherInv`, the inductive invariant |
| `DispatcherTypeCorrect` | `Spec => []TypeOK` |
| `DispatcherReleases` | `Spec => []HandlerReleased` |
| `DispatcherOneOutcome` | `Spec => []OutcomeIsLast` |
| `DispatcherProgressFirst` | `Spec => []ProgressFirst` |
| `DispatcherNoStolenResult` | `Spec => []NoStolenResult` |
| `DispatcherInterruptedAfterStop` | `Spec => []InterruptedAfterStop` |

The configuration accepts a completion timeout of zero, for which three of these
properties are false (`HandlerReleased`, `ProgressFirst`, `NoStolenResult`). A progress
result with an estimated completion of zero is inconsistent, so the dispatcher reports
INTERNAL_ERROR in its place and is done with the command, while the handler keeps the
binding and stays busy, because no lane calls its `loop` any more. The hypothesis
excludes that setting and nothing else.

`DispatcherInv` has four parts, each resting on the ones before it. `Core` ties the
lanes to the handler: no two lanes have the same command, a command a lane has was
taken from the runtime, and what the handler works on or has a result for belongs
to an open lane in the matching state; it is stated once for the declarative and
once for the application handler (`DeclarativeFits`, `ApplicationFits`). It is what
excludes a result without an owner. `Reporting`: of a command some lane still has,
only progress was reported, so its outcome is the first and last. `Announcing`: a
probed command without a report is on its way to announce itself. `Stopping`: an
operation is marked interrupted, or has INTERRUPTED waiting, only after the stop
aimed at it succeeded, and a stop that succeeded on the interrupt lane has been
answered or is ahead of the operation in the order the lanes are served.

Two definitions were rewritten because the proofs showed them to be ill-defined:
the arbitration's states and the declarative handler's status were CASE
expressions with overlapping guards, of which TLC evaluates the first that holds
and the provers may assume nothing. They now follow the order of the code's `if`s.

### 5.6 The endpoint (`EndpointProofs`)

Assumed: `EndpointAssumption` (one or two slots, timeouts that are not zero, queues
and cache that are not empty, reserved values that are not members).

| Theorem | Statement |
|---|---|
| `EndpointInvariance` | `Spec => []EndpointInv`, the inductive invariant |
| `EndpointSenderOwnership` | `Spec => []SenderOwnership` |
| `EndpointDecodedResultReported` | `Spec => []DecodedResultReported` |
| `EndpointOneTerminalReport` | `Spec => []OneTerminalReport` |
| `EndpointHeartbeatAccounted` | `Spec => []HeartbeatAccounted` |
| `EndpointHeartbeatGenuine` | `Spec => []HeartbeatGenuine` |
| `EndpointOneFrameInFlight` | if not `CanDisable`, `Spec => []OneFrameInFlight` |

The parts of `EndpointInv`: `Owning` (when the sender belongs to a command client it
belongs to the client in `senderSlot`, which waits for the ACK of that very
transaction; without it a cancelled slot might leave the sender to the next one);
`Receiving` (what is queued, held or repeated is a message the peer sent, so a held
result has one of its statuses); `Beating` (a PONG of this boot in the queue was
sent by the peer, which `HeartbeatGenuine` cannot say of a PONG not yet read);
`Reporting` (a busy client works on a command that has not ended, no two on the
same one, so whatever ends it is its first report). `DecodedResultReported` rests on
a result being consumed only while the notification slot is empty.

`OneFrameInFlight` needs a part of its own, `Transmitting`: the frame is with the
driver, or its completion waits, or there is none. It is proved for a runtime that
is never disabled. Disabling resets the radio owner while a frame may be with the
driver (`espnow_net_protocol.cpp:87`), after which the property is false: that is
an observation in section 4, and the runs that check it do not disable either.

### 5.7 The link (`ReliableLinkProofs`)

Assumed: `LinkAssumption` (messages are numbered from one and have a fragment, the
cache is not empty), and in both theorems `QuietNeighbours`: between the start of
one message and of the next, third nodes send fewer messages than the cache has
entries.

| Theorem | Statement |
|---|---|
| `LinkInvariance` | if `QuietNeighbours`, `Spec => []LinkInv`, the inductive invariant |
| `LinkImplementsDelivery` | if `QuietNeighbours`, `Spec => ImplementsDelivery` |

The hypothesis is what the shared cache needs and no more: with `OtherMessages[w]`
equal to `CacheCapacity`, TLC finds a message that is taken, forgotten while its
sender still retries it, and taken again (the hazard at `reliability.h:184`). The
number of messages, fragments, attempts and reboots and the size of the queues are
free.

`LinkInv` follows a message around the loop, because what the abstract delivery says
of A's outcome and B's count is about two nodes that know of each other only through
frames and ACKs that may be from an earlier life. `Sending`: the sender's message
is the one offered last, the only one without an outcome. `Arriving` and `InOrder`:
every frame in B's queue is from this or an earlier life of A, a frame of the current
message has the sender's delivery key, and the queue keeps the order in which
messages were started. `Remembering`: a message that was taken and of which a copy
may still come, queued or retried, is in the cache, at a depth that leaves room for
every foreign message that may arrive before that copy. The depth is a sum over the
frames already queued and those still to be sent (`Remembered`), since either alone
is not kept by the step that turns one into the other. `Vouching`: a key that B has
seen and that has A's present boot identifier is the key of a message that was taken,
so an ACK that A accepts tells the truth; an ACK of an earlier life has another boot
identifier. `StartMessage` maps to `Offer`, the first complete copy to `Take`,
`OwnedCompletion` and a reboot of A to `Report`, a reboot of B to
`ReceiverReboots`, and every other step stutters.

The proof made the model say when foreign traffic comes: a bound on all of it
(the number of a whole run) says nothing about one delivery.

### 5.8 The codecs (`CodecProofs`)

Assumed: `CodecAssumption` (limits that are not zero; the largest command and the
largest two snapshots fit a message, a message fits three fragments, as the code's
numbers do) and `UndecodableAssumption` (the failure of a codec is not a payload).

| Theorem | Statement |
|---|---|
| `CommandsSurvive` | `CommandSurvives(c)` for every `c` in `ValidCommands` |
| `ResultsSurvive` | `ResultSurvives(r)` for every `r` in `ConsistentResults` |
| `DispatcherCommandRoundTrip` | `Spec => []CommandRoundTrip` (in `InboundDispatcherProofs`) |
| `DispatcherResultRoundTrip` | `Spec => []ResultRoundTrip` (in `InboundDispatcherProofs`) |

The run checks the shortest and longest value of every field under one set of
limits; the theorems are about every text without a NUL, every byte string and every
number a field may hold, under all limits. The argument has three parts.
`MessageReassembled`: a message has one, two or three fragments
(`FragmentCountCases`, which does away with the division), each of them passes the
checks of `accept` and carries the bytes of its place, and the places cover the
message; so whichever copy to a byte was the last, the byte is right, and what the
buffer held before is gone. `PartsKept`: a part of a payload stays where it is when
more is appended, so every segment is found again at the sum of the lengths before
it; the same lemma serves both codecs, whose payloads are a header, four segments
and a last part. `CommandDecoded` and `ResultRead`: with the parts in place, every
check of `decode` follows from the validity of what was encoded (a flag is set
exactly when its part is not empty), and the record that `decode` builds is the one
that was encoded.

The proofs need no induction, because the numbers of fields and of fragments are
fixed. For them the reassembly buffer is stated as a function of the fragments
(`Memory`) instead of a fold over them.

### 5.9 Only model-checked

* Every liveness property: `EveryDeliveryEnds`, `EveryCommandEnds`,
  `HeartbeatSettles`, `EveryCommandAnswered`, `ReconnectReopens`, `RadioComesUp`,
  `DeferredOnlyWhileBusy`. Fairness and `ENABLED` are beyond this prover.
* The FIFO of capacity 3 across an index wrap, which is not one.

## 6. Not modelled

Integer byte order and the CRC polynomial (data the properties do not tell apart);
the packet layout of the heartbeat and its once-per-boot trial diagnostics; the
light entity behind a completion probe; peer registry and identity table (filled
at start-up, then read); the recovery history and the other diagnostics (logs and
counters); Python configuration code. Two complete endpoints are not composed:
`Endpoint` is checked against a peer that may do anything the air allows, and
`ReliableLink` composes the two ends of one delivery.

## 7. Plan

Modelled so far: sender, queue, runtime, their composition over a lossy link with
reboots, the endpoint loop with the heartbeat, the inbound lanes with both kinds
of handler, the codecs, and the radio in both builds with arbitration and peer
recovery.

Proved so far: the safety properties of sender, queue, runtime, radio, inbound lanes
and endpoint, the refinement of the abstract delivery by the link, and the round trips
of the codecs. Every invariant that a run checks to hold is stated by a theorem.
