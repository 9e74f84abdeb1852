---------------------------- MODULE EncryptedRadio ----------------------------
(***************************************************************************)
(* EspIdfEspNowEncryptedRadio (espidf_espnow_encrypted_radio.cpp/.h): the  *)
(* poll that watches the Wi-Fi association and the channel, arbitrates with*)
(* the Wi-Fi component, initialises ESP-NOW on a stable channel, refreshes *)
(* peers and restarts the radio, together with what the endpoint above it  *)
(* does to it: frames, the owner of the radio, set_recovery_permitted, and *)
(* the runtime switch, which may be turned in the middle of an iteration.  *)
(* Init chooses the build, with or without USE_WIFI_FIXED_CHANNEL; with it *)
(* the Wi-Fi component keeps its own policy and tells the endpoint about   *)
(* its attempts, after which peers are reapplied (wifi_peer_recovery.cpp). *)
(*                                                                         *)
(* External and therefore free: the answers of ESP-IDF (association,       *)
(* channel, success of esp_now_init, of deleting and adding a peer) and of *)
(* the Wi-Fi component (request accepted, suppression active, fixed-channel*)
(* operation, the order of its attempts).  Every                           *)
(* deadline is a countdown in ticks, at zero once it has passed; jitter is *)
(* a constant of the device and part of the delay it is added to.          *)
(***************************************************************************)
EXTENDS Integers, Sequences, FiniteSets

CONSTANTS
  Peers,             \* indexes of the configured peers
  NoPeer,            \* INVALID_PEER_INDEX
  Stabilization,     \* CHANNEL_STABILIZATION_MS
  InitRetry,         \* INITIALIZATION_RETRY_MS
  RefreshCooldown,   \* PEER_REFRESH_COOLDOWN_MS
  RecoveryDelay,     \* RADIO_RECOVERY_BASE_DELAY_MS and jitter
  RecoveryCooldown,  \* RADIO_RECOVERY_COOLDOWN_MS
  GraceTime,         \* WIFI_RECONNECT_GRACE_BASE_MS and jitter
  HoldTime,          \* WIFI_RECONNECT_HOLD_BASE_MS and jitter
  WindowTime,        \* WIFI_RECONNECT_WINDOW_MS
  RequestRetry,      \* WIFI_RECONNECT_REQUEST_RETRY_MS
  DriverCapacity,    \* frames esp_now_send buffers (external)
  MaxTroubles,       \* bound: how often ESP-IDF gives an adverse answer
  CanDisable         \* whether anybody turns the runtime switch

Durations == {Stabilization, InitRetry, RefreshCooldown, RecoveryDelay,
              RecoveryCooldown, GraceTime, HoldTime, WindowTime, RequestRetry}

ASSUME RadioAssumption ==
  /\ Peers # {} /\ IsFiniteSet(Peers) /\ Peers \subseteq Nat /\ NoPeer \notin Peers
  /\ Durations \subseteq Nat \ {0}
  /\ DriverCapacity \in Nat /\ MaxTroubles \in Nat /\ CanDisable \in BOOLEAN

VARIABLES
  radio,        \* initialisation, channel and recovery fields, and, as
                \* history, whether a reason for a restart came up since the
                \* radio was last started (stale)
  refresh,      \* peer_refresh_*: pending mask and cooldown per peer
  arbitration,  \* wifi_*: association and arbitration fields
  recovery,     \* the build, reconnect_peer_attempt_ and _pending_, and, as
                \* history, whether the last phase reported was a failure
  polled,       \* CHANNEL_POLL_INTERVAL_MS has not passed since the last poll
  exchange,     \* peer of the message or command the endpoint works on
  owner,        \* radio_transmission_owner_ with its peer and, as history,
                \* whether the runtime was disabled since (cutOff)
  runtime,      \* runtime_enabled_; "leaving" from a disable inside loop()
                \* to the end of that iteration, which runs on
  completions,  \* send_completions_: peers, oldest first
  airborne,     \* frames with the driver, by peer, not called back yet
  registered,   \* peers in the driver's table
  troubles      \* adverse answers left

endpoint == <<exchange, owner, runtime>>
vars == <<radio, refresh, arbitration, recovery, polled, endpoint, completions, airborne,
          registered, troubles>>

NoOwner == [for |-> "NONE", peer |-> NoPeer, cutOff |-> FALSE]

Init ==
  /\ radio = [initialized |-> FALSE, stable |-> FALSE, stableIn |-> 0,
              retryIn |-> 0, pending |-> FALSE, dueIn |-> 0,
              inProgress |-> FALSE, cooldown |-> 0, stale |-> FALSE]
  /\ refresh = [pending |-> {}, cooldown |-> [p \in Peers |-> 0]]
  /\ arbitration = [known |-> FALSE, associated |-> FALSE,
                    state |-> "MONITORING", dueIn |-> 0, held |-> FALSE,
                    granted |-> 0]
  /\ recovery \in [fixed : BOOLEAN, attempt : {FALSE}, pending : {FALSE},
                   failed : {FALSE}]
  /\ polled = FALSE /\ exchange = NoPeer /\ owner = NoOwner
  /\ runtime = "enabled"
  /\ completions = <<>> /\ airborne = <<>> /\ registered = {}
  /\ troubles = MaxTroubles

-----------------------------------------------------------------------------
(* Wi-Fi arbitration.  `granted' counts, on the side of the Wi-Fi          *)
(* component, the requests it accepted and was not yet told to release.    *)

\* release_wifi_reconnect_suppression_
Release(a) ==
  IF a.held THEN [a EXCEPT !.held = FALSE, !.granted = @ - 1] ELSE a

\* schedule_wifi_arbitration_grace_
Grace(a) ==
  IF recovery.fixed THEN [Release(a) EXCEPT !.state = "MONITORING"]
  ELSE [Release(a) EXCEPT !.state = "GRACE", !.dueIn = GraceTime]

\* observe_wifi_association_ up to the recovery it schedules
Changed(a, associated) == a.known /\ associated # a.associated

\* Mutant: an association does not release the suppression.
ObserveKeepsSuppression(a, associated) ==
  LET b == [a EXCEPT !.known = TRUE, !.associated = associated]
  IN  IF Changed(a, associated) /\ associated
      THEN [b EXCEPT !.state = "MONITORING", !.dueIn = 0]
      ELSE IF ~associated /\ (~a.known \/ a.associated) THEN Grace(b)
      ELSE b

Observe(a, associated) ==
  LET b == [a EXCEPT !.known = TRUE, !.associated = associated]
  IN  IF Changed(a, associated) /\ associated
      THEN [Release(b) EXCEPT !.state = "MONITORING", !.dueIn = 0]
      ELSE IF ~associated /\ (~a.known \/ a.associated) THEN Grace(b)
      ELSE b

\* process_wifi_arbitration_
Confirms(a, active) ==
  ~recovery.fixed /\ ~a.associated /\ a.state = "REQUESTING" /\ active

\* Mutant: the end of the hold starts another hold.
ArbitrateHoldsOn(a, active, accepted) ==
  CASE recovery.fixed \/ a.associated -> a
    [] Confirms(a, active) ->
         [a EXCEPT !.state = "SUPPRESSED", !.dueIn = HoldTime]
    [] ~Confirms(a, active) /\ ~a.associated /\ a.dueIn > 0 -> a
    [] OTHER ->
         CASE a.state = "MONITORING" -> Grace(a)
           [] a.state \in {"GRACE", "RECONNECT_WINDOW"} ->
                IF accepted
                THEN [a EXCEPT !.state = "REQUESTING", !.dueIn = RequestRetry,
                               !.held = TRUE, !.granted = @ + 1]
                ELSE [a EXCEPT !.dueIn = RequestRetry]
           [] a.state = "REQUESTING" ->
                [Release(a) EXCEPT !.state = "RECONNECT_WINDOW",
                                   !.dueIn = WindowTime]
           [] a.state = "SUPPRESSED" -> [a EXCEPT !.dueIn = HoldTime]

Arbitrate(a, active, accepted) ==
  CASE recovery.fixed -> Release(a)
    [] ~recovery.fixed /\ a.associated -> a
    [] Confirms(a, active) ->
         [a EXCEPT !.state = "SUPPRESSED", !.dueIn = HoldTime]
    [] ~recovery.fixed /\ ~Confirms(a, active) /\ ~a.associated
         /\ a.dueIn > 0 -> a
    [] OTHER ->
         CASE a.state = "MONITORING" -> Grace(a)
           [] a.state \in {"GRACE", "RECONNECT_WINDOW"} ->
                IF accepted
                THEN [a EXCEPT !.state = "REQUESTING", !.dueIn = RequestRetry,
                               !.held = TRUE, !.granted = @ + 1]
                ELSE [a EXCEPT !.dueIn = RequestRetry]
           [] a.state \in {"REQUESTING", "SUPPRESSED"} ->
                [Release(a) EXCEPT !.state = "RECONNECT_WINDOW",
                                   !.dueIn = WindowTime]

-----------------------------------------------------------------------------
(* Recovery, initialisation and peer refresh                               *)

\* schedule_radio_recovery_
Schedule(r) ==
  IF r.pending \/ r.inProgress THEN r
  ELSE [r EXCEPT !.pending = TRUE, !.dueIn = RecoveryDelay]

\* The condition loop() passes to set_recovery_permitted.
Permitted == owner = NoOwner /\ exchange = NoPeer

\* Mutant: recovery_permitted_ is not looked at.
RestartDueUnasked(r) == r.pending /\ r.dueIn = 0 /\ r.cooldown = 0

\* The early returns of process_radio_recovery_.
RestartDue(r) == r.pending /\ Permitted /\ r.dueIn = 0 /\ r.cooldown = 0

\* process_radio_recovery_ and shutdown_radio_.  A send callback on the Wi-Fi
\* task that had read instance_ before may still push after the drain.
Restart(r) ==
  /\ radio' = [r EXCEPT !.pending = FALSE, !.inProgress = TRUE,
                        !.cooldown = RecoveryCooldown, !.initialized = FALSE,
                        !.stable = FALSE, !.retryIn = 0]
  /\ refresh' = [pending |-> {}, cooldown |-> [p \in Peers |-> 0]]
  /\ registered' = {} /\ airborne' = <<>>
  /\ completions' \in {<<>>} \cup {<<airborne[i]>> : i \in DOMAIN airborne \cap {1}}
  /\ UNCHANGED troubles

\* Mutant: the recovery is never marked as finished.
InitializedKeepsRecovery(r) == [r EXCEPT !.initialized = TRUE]

\* initialize_ once every call succeeded
Initialized(r) == [r EXCEPT !.initialized = TRUE, !.inProgress = FALSE]

\* Mutant: initialisation waits for recovery_permitted_ as well.
MayInitializeIdle(r) == ~r.initialized /\ r.retryIn = 0 /\ Permitted

MayInitialize(r) == ~r.initialized /\ r.retryIn = 0

\* initialize_: a call that fails is rolled back with esp_now_deinit.
Initialize(r) ==
  /\ \/ /\ radio' = [Initialized(r) EXCEPT !.retryIn = InitRetry,
                                           !.stale = FALSE]
        /\ registered' = Peers
        /\ UNCHANGED troubles
     \/ /\ troubles > 0 /\ troubles' = troubles - 1
        /\ radio' = [r EXCEPT !.retryIn = InitRetry]
        /\ registered' = {}
  /\ UNCHANGED <<refresh, completions, airborne>>

Refreshable == {p \in refresh.pending : refresh.cooldown[p] = 0}

\* Mutant: a refresh that failed is forgotten.
RefreshFailedForgets(p) ==
  /\ troubles > 0 /\ troubles' = troubles - 1
  /\ registered' \in {registered, registered \ {p}}
  /\ refresh' = [refresh EXCEPT !.pending = @ \ {p},
                                !.cooldown[p] = RefreshCooldown]

\* esp_now_del_peer fails, or removes the peer and esp_now_add_peer fails.
RefreshFailed(p) ==
  /\ troubles > 0 /\ troubles' = troubles - 1
  /\ registered' \in {registered, registered \ {p}}
  /\ refresh' = [refresh EXCEPT !.cooldown[p] = RefreshCooldown]

\* process_peer_refresh_ and refresh_peer_: one peer per poll, in order.
RefreshPeer(r) ==
  /\ radio' = r
  /\ \E p \in Refreshable :
       /\ \A q \in Refreshable : p <= q
       /\ \/ /\ refresh' = [refresh EXCEPT !.pending = @ \ {p},
                                           !.cooldown[p] = RefreshCooldown]
             /\ registered' = registered \cup {p}
             /\ UNCHANGED troubles
          \/ RefreshFailed(p)
  /\ UNCHANGED <<completions, airborne>>

Quiet(r) ==
  /\ radio' = r
  /\ UNCHANGED <<refresh, registered, completions, airborne, troubles>>

\* esp_wifi_get_channel fails or reports another channel.
ChannelLost(r) ==
  /\ troubles > 0 /\ troubles' = troubles - 1
  /\ \/ radio' = [r EXCEPT !.stable = FALSE]
     \/ /\ r.initialized
        /\ radio' = Schedule([r EXCEPT !.stable = FALSE, !.stale = TRUE])
  /\ UNCHANGED <<refresh, registered, completions, airborne>>

\* The rest of loop() once the channel is the expected one.
ChannelMatches(r) ==
  \/ /\ ~r.stable
     /\ Quiet([r EXCEPT !.stable = TRUE, !.stableIn = Stabilization])
  \/ r.stable /\ r.stableIn > 0 /\ Quiet(r)
  \/ /\ r.stable /\ r.stableIn = 0
     /\ \/ RestartDue(r) /\ Restart(r)
        \/ /\ ~RestartDue(r)
           /\ \/ r.initialized /\ Refreshable # {} /\ RefreshPeer(r)
              \/ MayInitialize(r) /\ Initialize(r)
              \/ ~(r.initialized /\ Refreshable # {}) /\ ~MayInitialize(r)
                   /\ Quiet(r)

\* Mutant: the disabled runtime returns before the radio's turn.
TurnOfRadioEnabled == runtime = "enabled"

\* The endpoint's loop() calls the radio's first, and whether the runtime is
\* enabled or not.
TurnOfRadio == runtime # "leaving"

\* loop() when the poll is due: association, arbitration, channel, and then
\* at most one of restart, refresh and initialisation.
Poll ==
  /\ TurnOfRadio /\ ~polled /\ polled' = TRUE
  /\ \E associated, active, accepted, operating \in BOOLEAN :
       LET seen == Observe(arbitration, associated)
           scheduled == IF Changed(arbitration, associated) /\ ~operating
                        THEN Schedule([radio EXCEPT !.stale = TRUE]) ELSE radio
           r == IF Confirms(seen, active)
                THEN [scheduled EXCEPT !.stable = FALSE] ELSE scheduled
       IN  \* what each build asks: in fixed-channel operation another
           \* association is no reason for a restart
           /\ IF recovery.fixed THEN ~active /\ ~accepted ELSE ~operating
           /\ arbitration' = Arbitrate(seen, active, accepted)
           /\ ChannelMatches(r) \/ ChannelLost(r)
  /\ UNCHANGED <<recovery, endpoint>>

-----------------------------------------------------------------------------
(* The endpoint: one exchange (a command until its result, or another      *)
(* reliable message) and one frame at a time; delivery ACKs go out between.*)

\* start_reliable_message does not ask whether the runtime is enabled.
StartExchange(p) ==
  /\ exchange = NoPeer /\ exchange' = p
  /\ UNCHANGED <<radio, refresh, arbitration, recovery, polled, owner, runtime,
                 completions, airborne, registered, troubles>>

\* send_frame, called by dispatch_sender_frame_ or dispatch_application_ack_,
\* which the iteration that disabled the runtime still reaches; a refusal leaves
\* everything as it was.
SendFrame(for, p) ==
  /\ runtime # "disabled" /\ radio.initialized /\ owner = NoOwner
  /\ for = "SENDER" => exchange = p
  /\ p \in registered /\ Len(airborne) < DriverCapacity
  /\ airborne' = Append(airborne, p)
  /\ owner' = [for |-> for, peer |-> p, cutOff |-> FALSE]
  /\ UNCHANGED <<radio, refresh, arbitration, recovery, polled, exchange, runtime,
                 completions, registered, troubles>>

\* send_callback_
SendCallback ==
  /\ airborne # <<>> /\ airborne' = Tail(airborne)
  /\ completions' = Append(completions, Head(airborne))
  /\ UNCHANGED <<radio, refresh, arbitration, recovery, polled, endpoint, registered,
                 troubles>>

\* Mutant: the completion of an ACK frame does not release the radio.
OwnerAfterSenderOnly(p) ==
  IF owner.peer = p /\ owner.for = "SENDER" THEN NoOwner ELSE owner

\* A completion of another peer releases nobody.
OwnerAfter(p) == IF owner.peer = p THEN NoOwner ELSE owner

\* process_send_completion_, which comes before the frames of its iteration.
ProcessSendCompletion ==
  /\ runtime = "enabled" \/ (runtime = "leaving" /\ owner = NoOwner)
  /\ radio.initialized /\ completions # <<>>
  /\ completions' = Tail(completions)
  /\ owner' = OwnerAfter(Head(completions))
  /\ UNCHANGED <<radio, refresh, arbitration, recovery, polled, exchange, runtime,
                 airborne, registered, troubles>>

\* The exchange ends in success, rejection, a functional timeout or a cancel.
EndExchange ==
  /\ exchange # NoPeer /\ exchange' = NoPeer
  /\ UNCHANGED <<radio, refresh, arbitration, recovery, polled, owner, runtime,
                 completions, airborne, registered, troubles>>

\* process_owned_sender_completion_ on TIMED_OUT: request_peer_refresh and
\* request_radio_recovery.  A disable resets the sender, so none follows it in
\* the same iteration.
DeliveryTimeout ==
  /\ runtime = "enabled"
  /\ radio.initialized /\ exchange # NoPeer /\ owner.for # "SENDER"
  /\ refresh' = [refresh EXCEPT !.pending = @ \cup {exchange}]
  /\ radio' = Schedule([radio EXCEPT !.stale = TRUE])
  /\ exchange' = NoPeer
  /\ UNCHANGED <<arbitration, recovery, polled, owner, runtime, completions,
                 airborne, registered, troubles>>

-----------------------------------------------------------------------------
(* The runtime switch.  set_runtime_enabled may be called between two      *)
(* iterations, or by an observer or handler inside one.                    *)

\* Mutant: disabling does not give the radio back.
DisableKeepsOwner ==
  /\ CanDisable /\ runtime = "enabled" /\ runtime' \in {"leaving", "disabled"}
  /\ exchange' = NoPeer /\ completions' = <<>>
  /\ UNCHANGED <<radio, refresh, arbitration, recovery, polled, owner, airborne,
                 registered, troubles>>

\* set_runtime_enabled(false), with a frame possibly still with the driver.
Disable ==
  /\ CanDisable /\ runtime = "enabled" /\ runtime' \in {"leaving", "disabled"}
  /\ exchange' = NoPeer /\ owner' = NoOwner /\ completions' = <<>>
  /\ UNCHANGED <<radio, refresh, arbitration, recovery, polled, airborne, registered,
                 troubles>>

\* The iteration that disabled the runtime returns.
LeaveLoop ==
  /\ runtime = "leaving" /\ runtime' = "disabled"
  /\ owner' = IF owner = NoOwner THEN owner ELSE [owner EXCEPT !.cutOff = TRUE]
  /\ UNCHANGED <<radio, refresh, arbitration, recovery, polled, exchange,
                 completions, airborne, registered, troubles>>

\* loop() of a disabled runtime: discard_radio_events_ empties the queue and
\* leaves the owner as it is.
Discard ==
  /\ runtime = "disabled" /\ radio.initialized
  /\ completions # <<>> /\ completions' = <<>>
  /\ UNCHANGED <<radio, refresh, arbitration, recovery, polled, endpoint, airborne,
                 registered, troubles>>

\* set_runtime_enabled(true)
Enable ==
  /\ runtime # "enabled" /\ runtime' = "enabled"
  /\ UNCHANGED <<radio, refresh, arbitration, recovery, polled, exchange, owner,
                 completions, airborne, registered, troubles>>

-----------------------------------------------------------------------------
(* wifi_peer_recovery.cpp: once an attempt to associate has failed, the    *)
(* peers the driver knows are written to it again in the first idle moment *)
(* before the next attempt.                                                *)

\* Mutant: a new attempt leaves the pending recovery alone.
PhaseLeavesPending(r, phase) ==
  CASE phase = "wifi_connected" ->
         [r EXCEPT !.attempt = FALSE, !.pending = FALSE, !.failed = FALSE]
    [] phase = "before_attempt" ->
         [r EXCEPT !.attempt = TRUE, !.failed = FALSE]
    [] phase = "retry_after_disconnect" ->
         [r EXCEPT !.attempt = FALSE, !.pending = @ \/ r.attempt,
                   !.failed = TRUE]

\* reconnect_peer_recovery_phase
Phase(r, phase) ==
  CASE phase = "wifi_connected" ->
         [r EXCEPT !.attempt = FALSE, !.pending = FALSE, !.failed = FALSE]
    [] phase = "before_attempt" ->
         [r EXCEPT !.attempt = TRUE, !.pending = FALSE, !.failed = FALSE]
    [] phase = "retry_after_disconnect" ->
         [r EXCEPT !.attempt = FALSE, !.pending = @ \/ r.attempt,
                   !.failed = TRUE]

WiFiPhase ==
  /\ recovery.fixed
  /\ \E phase \in {"wifi_connected", "before_attempt",
                   "retry_after_disconnect"} :
       recovery' = Phase(recovery, phase)
  /\ UNCHANGED <<radio, refresh, arbitration, polled, endpoint, completions,
                 airborne, registered, troubles>>

\* reconnect_peer_recovery_tick_: without fixed-channel operation everything
\* is forgotten; otherwise diagnostic_reapply_peer modifies the peers that are
\* in the driver's table and adds none, unless the runtime is disabled.
PeerRecoveryTick ==
  /\ recovery.fixed /\ TurnOfRadio
  /\ \/ recovery' = [recovery EXCEPT !.attempt = FALSE, !.pending = FALSE]
     \/ /\ runtime = "enabled" /\ radio.initialized /\ recovery.pending /\ Permitted
        /\ recovery' = [recovery EXCEPT !.pending = FALSE]
  /\ UNCHANGED <<radio, refresh, arbitration, polled, endpoint, completions,
                 airborne, registered, troubles>>

-----------------------------------------------------------------------------
Less(n) == IF n > 0 THEN n - 1 ELSE 0

\* millis() advances by one poll interval.
Tick ==
  /\ polled' = FALSE
  /\ radio' = [radio EXCEPT !.stableIn = Less(@), !.retryIn = Less(@),
                            !.dueIn = Less(@), !.cooldown = Less(@)]
  /\ refresh' = [refresh EXCEPT !.cooldown = [p \in Peers |-> Less(@[p])]]
  /\ arbitration' = [arbitration EXCEPT !.dueIn = Less(@)]
  /\ UNCHANGED <<recovery, endpoint, completions, airborne, registered, troubles>>

Next ==
  \/ Poll
  \/ \E p \in Peers : StartExchange(p)
  \/ \E for \in {"SENDER", "ACK"}, p \in Peers : SendFrame(for, p)
  \/ SendCallback
  \/ ProcessSendCompletion
  \/ EndExchange
  \/ DeliveryTimeout
  \/ Disable
  \/ LeaveLoop
  \/ Discard
  \/ Enable
  \/ WiFiPhase
  \/ PeerRecoveryTick
  \/ Tick

\* Iterations end, the main loop keeps polling at their start, and the clock keeps
\* running.  Strong, because Poll is not enabled in the middle of an iteration.
Fairness == WF_vars(LeaveLoop) /\ SF_vars(Poll) /\ WF_vars(Tick)

Spec == Init /\ [][Next]_vars /\ Fairness

-----------------------------------------------------------------------------
(* Properties                                                              *)

Outstanding == {airborne[i] : i \in DOMAIN airborne}
                 \cup {completions[i] : i \in DOMAIN completions}

\* Whoever owns the radio has a completion coming that will release it: neither
\* a restart nor the switch takes it away, except from a frame that the very
\* iteration that disabled the runtime sent and left behind; and even that one
\* keeps its radio (set_recovery_permitted; cpp:87, 266-268, 299-300).
OwnerHasFrame ==
  owner # NoOwner => /\ radio.initialized
                     /\ owner.peer \in Outstanding \/ owner.cutOff

\* While the radio is up, every configured peer is in the driver's table or
\* waits for a refresh that will put it there, also after refreshes that
\* removed it and failed to add it (process_peer_refresh_).
PeersUsable ==
  radio.initialized => Peers \subseteq registered \cup refresh.pending

\* No reason for a restart is lost: while the radio runs on a start that came
\* before an association change, a channel change or a delivery timeout, a
\* recovery is pending, although schedule_radio_recovery_ ignores requests.
NoStaleEpoch ==
  radio.stale /\ radio.initialized => radio.pending

\* "Every accepted suppression request is paired with exactly one release",
\* and "an established WiFi connection immediately ends arbitration".
SuppressionPaired ==
  LET a == arbitration
  IN  a.granted = IF a.state \in {"REQUESTING", "SUPPRESSED"} /\ ~a.associated
                  THEN 1 ELSE 0

\* Peers are only ever about to be reapplied between a failed attempt and what
\* Wi-Fi does next: not once it is connected, and not while it tries again,
\* however long the radio was busy (wifi_peer_recovery.cpp:24-39).
ReapplyInWindow ==
  recovery.pending => recovery.failed /\ ~recovery.attempt

\* "restart is deferred while a command or reliable result owns the radio": it
\* is not deferred for ever with nothing under way, no exchange, no frame with
\* the driver and no completion to come.  The one exception is a radio left behind
\* by the iteration that disabled the runtime (cpp:266-268, 299-300).
DeferredOnlyWhileBusy ==
  []<>(radio.pending =>
         exchange # NoPeer \/ Outstanding # {} \/ owner.cutOff)

\* Wi-Fi is never kept from reconnecting for ever, whatever it answers.
ReconnectReopens == []<>(arbitration.granted = 0)

\* Once ESP-IDF has no more adverse answers the radio is up again and again,
\* whatever the endpoint is busy with and however often Wi-Fi comes and goes.
RadioComesUp == []<>radio.initialized
=============================================================================
