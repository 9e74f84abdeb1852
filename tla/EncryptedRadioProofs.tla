------------------------- MODULE EncryptedRadioProofs -------------------------
(***************************************************************************)
(* The radio for every set of peers, every timing and every number of      *)
(* adverse answers of ESP-IDF: Wi-Fi suppression is paired, the radio is   *)
(* not restarted under a frame, no reason for a restart is lost, peers stay*)
(* usable, and peers are reapplied only between two Wi-Fi attempts.        *)
(*                                                                         *)
(* Each property is strengthened by what its own fields need: the side of  *)
(* the radio knows what Wi-Fi granted, and only by `held'; a radio that is *)
(* up has no recovery in progress, which is why schedule_radio_recovery_   *)
(* may ignore a request then.                                              *)
(***************************************************************************)
EXTENDS EncryptedRadio, TLAPS

ArbitrationStates ==
  {"MONITORING", "GRACE", "REQUESTING", "SUPPRESSED", "RECONNECT_WINDOW"}

RadioRecords ==
  [initialized : BOOLEAN, stable : BOOLEAN, stableIn : Nat, retryIn : Nat,
   pending : BOOLEAN, dueIn : Nat, inProgress : BOOLEAN, cooldown : Nat,
   stale : BOOLEAN]

ArbitrationRecords ==
  [known : BOOLEAN, associated : BOOLEAN, state : ArbitrationStates,
   dueIn : Nat, held : BOOLEAN, granted : Nat]

Owners ==
  [for : {"SENDER", "ACK"}, peer : Peers, cutOff : BOOLEAN] \cup {NoOwner}

Runtimes == {"enabled", "leaving", "disabled"}

Types ==
  /\ radio \in RadioRecords
  /\ refresh \in [pending : SUBSET Peers, cooldown : [Peers -> Nat]]
  /\ arbitration \in ArbitrationRecords
  /\ recovery \in [fixed : BOOLEAN, attempt : BOOLEAN, pending : BOOLEAN,
                   failed : BOOLEAN]
  /\ exchange \in Peers \cup {NoPeer}
  /\ owner \in Owners /\ runtime \in Runtimes
  /\ completions \in Seq(Peers) /\ airborne \in Seq(Peers)
  /\ registered \in SUBSET Peers

\* The suppression the radio believes it holds is the one Wi-Fi granted, and
\* the state tells which.
Paired(a) ==
  /\ a.granted = IF a.held THEN 1 ELSE 0
  /\ a.held <=> a.state \in {"REQUESTING", "SUPPRESSED"}
  /\ a.associated \/ ~a.known \/ recovery.fixed => a.state = "MONITORING"

\* A radio that is up is not recovering, and has every reason for a restart
\* on record.
Current(r) ==
  r.initialized => ~r.inProgress /\ (r.stale => r.pending)

\* A disabled runtime sends nothing: whoever owns the radio then took it before
\* the iteration that disabled the runtime returned.
OwnedWhileDisabled ==
  runtime = "disabled" /\ owner # NoOwner => owner.cutOff

-----------------------------------------------------------------------------
(* Wi-Fi arbitration                                                       *)

\* The two fields of a grant change together, and no other field with them.
LEMMA GrantFields ==
  ASSUME NEW a \in ArbitrationRecords, NEW b
  PROVE  /\ b = [a EXCEPT !.held = FALSE, !.granted = 0] =>
              /\ b \in ArbitrationRecords /\ b.held = FALSE /\ b.granted = 0
              /\ b.associated = a.associated /\ b.known = a.known
              /\ b.state = a.state
         /\ b = [a EXCEPT !.held = TRUE, !.granted = 1] =>
              /\ b \in ArbitrationRecords /\ b.held = TRUE /\ b.granted = 1
              /\ b.associated = a.associated /\ b.known = a.known
              /\ b.state = a.state
<1>1. ASSUME b = [a EXCEPT !.held = FALSE, !.granted = 0]
      PROVE  /\ b \in ArbitrationRecords /\ b.held = FALSE /\ b.granted = 0
             /\ b.associated = a.associated /\ b.known = a.known
             /\ b.state = a.state
  BY <1>1 DEF ArbitrationRecords
<1>2. ASSUME b = [a EXCEPT !.held = TRUE, !.granted = 1]
      PROVE  /\ b \in ArbitrationRecords /\ b.held = TRUE /\ b.granted = 1
             /\ b.associated = a.associated /\ b.known = a.known
             /\ b.state = a.state
  BY <1>2 DEF ArbitrationRecords
<1> QED BY <1>1, <1>2

\* Releasing gives the grant back exactly when it is held.
LEMMA ReleasePairs ==
  ASSUME NEW a \in ArbitrationRecords, a.granted = IF a.held THEN 1 ELSE 0
  PROVE  /\ Release(a) \in ArbitrationRecords
         /\ Release(a).granted = 0 /\ Release(a).held = FALSE
         /\ Release(a).associated = a.associated
         /\ Release(a).known = a.known /\ Release(a).state = a.state
<1>1. CASE a.held
  <2>1. Release(a) = [a EXCEPT !.held = FALSE, !.granted = 0]
    BY <1>1 DEF Release, ArbitrationRecords
  <2> QED BY <2>1, GrantFields
<1>2. CASE ~a.held
  <2>1. Release(a) = a /\ a.held = FALSE /\ a.granted = 0
    BY <1>2 DEF Release, ArbitrationRecords
  <2> QED BY <2>1
<1> QED BY <1>1, <1>2

\* A grace period starts without a suppression, and not in the build that
\* leaves Wi-Fi its own policy.
LEMMA GracePairs ==
  ASSUME NEW a \in ArbitrationRecords, a.granted = IF a.held THEN 1 ELSE 0,
         a.known, ~a.associated, RadioAssumption
  PROVE  /\ Grace(a) \in ArbitrationRecords /\ Paired(Grace(a))
         /\ Grace(a).associated = a.associated /\ Grace(a).known
<1> DEFINE b == Release(a)
<1>1. /\ b \in ArbitrationRecords /\ b.granted = 0 /\ b.held = FALSE
      /\ b.associated = a.associated /\ b.known = a.known
  BY ReleasePairs
<1>2. GraceTime \in Nat
  BY DEF RadioAssumption, Durations
<1>3. Grace(a) = IF recovery.fixed THEN [b EXCEPT !.state = "MONITORING"]
                 ELSE [b EXCEPT !.state = "GRACE", !.dueIn = GraceTime]
  BY DEF Grace
<1> HIDE DEF b
<1> QED
  BY <1>1, <1>2, <1>3, ZenonT(60) DEF Paired, ArbitrationRecords, ArbitrationStates

\* Seeing the association, or the lack of it, keeps the pairing.
LEMMA ObservePairs ==
  ASSUME NEW a \in ArbitrationRecords, Paired(a), NEW seen \in BOOLEAN,
         RadioAssumption
  PROVE  /\ Observe(a, seen) \in ArbitrationRecords
         /\ Paired(Observe(a, seen))
         /\ Observe(a, seen).known = TRUE
         /\ Observe(a, seen).associated = seen
<1> DEFINE b == [a EXCEPT !.known = TRUE, !.associated = seen]
<1>1. /\ b \in ArbitrationRecords /\ b.granted = a.granted /\ b.held = a.held
      /\ b.state = a.state /\ b.associated = seen /\ b.known = TRUE
      /\ b.granted = IF b.held THEN 1 ELSE 0
  BY DEF ArbitrationRecords, Paired
<1>2. Observe(a, seen) =
        IF Changed(a, seen) /\ seen
        THEN [Release(b) EXCEPT !.state = "MONITORING", !.dueIn = 0]
        ELSE IF ~seen /\ (~a.known \/ a.associated) THEN Grace(b)
        ELSE b
  BY DEF Observe
<1> HIDE DEF b
<1>3. CASE Changed(a, seen) /\ seen
  <2>1. /\ Release(b) \in ArbitrationRecords /\ Release(b).granted = 0
        /\ Release(b).held = FALSE /\ Release(b).associated = seen
        /\ Release(b).known = TRUE
    BY <1>1, ReleasePairs
  <2> QED
    BY <1>2, <1>3, <2>1, ZenonT(60) DEF ArbitrationRecords, ArbitrationStates, Paired
<1>4. CASE ~seen /\ (~a.known \/ a.associated)
  BY <1>1, <1>2, <1>4, GracePairs
<1>5. CASE ~(Changed(a, seen) /\ seen) /\ ~(~seen /\ (~a.known \/ a.associated))
  <2>1. Observe(a, seen) = b
    BY <1>2, <1>5
  <2>2. seen => a.state = "MONITORING"
    BY <1>5 DEF Changed, Paired, ArbitrationRecords
  <2>3. recovery.fixed => a.state = "MONITORING"
    BY DEF Paired
  <2>4. b.held <=> b.state \in {"REQUESTING", "SUPPRESSED"}
    BY <1>1 DEF Paired
  <2> QED BY <1>1, <2>1, <2>2, <2>3, <2>4 DEF Paired
<1> QED BY <1>2, <1>3, <1>4, <1>5

\* The arbitration step keeps the pairing, whatever Wi-Fi answers.
LEMMA ArbitratePairs ==
  ASSUME NEW a \in ArbitrationRecords, Paired(a), a.known = TRUE,
         NEW active \in BOOLEAN, NEW accepted \in BOOLEAN, RadioAssumption
  PROVE  /\ Arbitrate(a, active, accepted) \in ArbitrationRecords
         /\ Paired(Arbitrate(a, active, accepted))
<1> DEFINE b == Arbitrate(a, active, accepted)
<1>0. /\ GraceTime \in Nat /\ HoldTime \in Nat /\ WindowTime \in Nat
      /\ RequestRetry \in Nat
  BY DEF RadioAssumption, Durations
<1>a. a.granted = IF a.held THEN 1 ELSE 0
  BY DEF Paired
<1>1. CASE recovery.fixed
  <2>1. b = Release(a)
    BY <1>1 DEF Arbitrate, Confirms
  <2> QED BY <1>1, <1>a, <2>1, ReleasePairs DEF Paired
<1>2. CASE ~recovery.fixed /\ a.associated
  <2>1. b = a
    BY <1>2 DEF Arbitrate, Confirms
  <2> QED BY <2>1
<1>3. CASE Confirms(a, active)
  <2>1. b = [a EXCEPT !.state = "SUPPRESSED", !.dueIn = HoldTime]
    BY <1>3 DEF Arbitrate, Confirms
  <2> QED
    BY <1>0, <1>3, <2>1
       DEF Confirms, Paired, ArbitrationRecords, ArbitrationStates
<1>4. CASE ~recovery.fixed /\ ~Confirms(a, active) /\ ~a.associated
           /\ a.dueIn > 0
  <2>1. b = a
    BY <1>4 DEF Arbitrate
  <2> QED BY <2>1
<1>5. CASE ~recovery.fixed /\ ~Confirms(a, active) /\ ~a.associated
           /\ ~(a.dueIn > 0)
  <2>0. b = CASE a.state = "MONITORING" -> Grace(a)
              [] a.state \in {"GRACE", "RECONNECT_WINDOW"} ->
                   IF accepted
                   THEN [a EXCEPT !.state = "REQUESTING",
                                  !.dueIn = RequestRetry,
                                  !.held = TRUE, !.granted = @ + 1]
                   ELSE [a EXCEPT !.dueIn = RequestRetry]
              [] a.state \in {"REQUESTING", "SUPPRESSED"} ->
                   [Release(a) EXCEPT !.state = "RECONNECT_WINDOW",
                                      !.dueIn = WindowTime]
    BY <1>5 DEF Arbitrate
  <2>1. CASE a.state = "MONITORING"
    <3>1. b = Grace(a)
      BY <2>0, <2>1
    <3> QED BY <1>5, <1>a, <3>1, GracePairs
  <2>2. CASE a.state \in {"GRACE", "RECONNECT_WINDOW"} /\ accepted
    <3>1. b = [a EXCEPT !.state = "REQUESTING", !.dueIn = RequestRetry,
                        !.held = TRUE, !.granted = a.granted + 1]
      BY <2>0, <2>2
    <3>2. a.granted = 0
      BY <2>2 DEF Paired
    <3>3. /\ b \in ArbitrationRecords /\ b.granted = 1 /\ b.held = TRUE
          /\ b.state = "REQUESTING" /\ b.associated = a.associated
          /\ b.known = TRUE
      <4> DEFINE c == [a EXCEPT !.state = "REQUESTING", !.dueIn = RequestRetry]
      <4>1. /\ c \in ArbitrationRecords /\ c.state = "REQUESTING"
            /\ c.associated = a.associated /\ c.known = a.known
        BY <1>0 DEF ArbitrationRecords, ArbitrationStates
      <4>2. b = [c EXCEPT !.held = TRUE, !.granted = 1]
        BY <3>1, <3>2
      <4> HIDE DEF b, c
      <4> QED BY <4>1, <4>2, GrantFields
    <3> QED BY <1>5, <3>3 DEF Paired
  <2>3. CASE a.state \in {"GRACE", "RECONNECT_WINDOW"} /\ ~accepted
    <3>1. b = [a EXCEPT !.dueIn = RequestRetry]
      BY <2>0, <2>3
    <3> QED
      BY <1>0, <2>3, <3>1 DEF Paired, ArbitrationRecords
  <2>4. CASE a.state \in {"REQUESTING", "SUPPRESSED"}
    <3>1. b = [Release(a) EXCEPT !.state = "RECONNECT_WINDOW",
                                 !.dueIn = WindowTime]
      BY <2>0, <2>4
    <3>2. /\ Release(a) \in ArbitrationRecords /\ Release(a).granted = 0
          /\ Release(a).held = FALSE /\ Release(a).associated = a.associated
          /\ Release(a).known = a.known
      BY <1>a, ReleasePairs
    <3> QED
      BY <1>0, <1>5, <3>1, <3>2
         DEF Paired, ArbitrationRecords, ArbitrationStates
  <2>5. a.state \in ArbitrationStates
    BY DEF ArbitrationRecords
  <2> QED BY <2>1, <2>2, <2>3, <2>4, <2>5 DEF ArbitrationStates
<1> QED BY <1>1, <1>2, <1>3, <1>4, <1>5

-----------------------------------------------------------------------------
(* Recovery, initialisation and peer refresh                               *)

\* Scheduling a recovery leaves a radio that is up with a recovery pending: the
\* request is ignored only when one is pending already.
LEMMA ScheduleCurrent ==
  ASSUME NEW r \in RadioRecords, r.initialized => ~r.inProgress, RadioAssumption
  PROVE  /\ Schedule(r) \in RadioRecords /\ Current(Schedule(r))
         /\ Schedule(r).initialized = r.initialized
<1>0. RecoveryDelay \in Nat
  BY DEF RadioAssumption, Durations
<1>1. CASE r.pending \/ r.inProgress
  BY <1>1 DEF Schedule, Current, RadioRecords
<1>2. CASE ~(r.pending \/ r.inProgress)
  <2>1. PICK q : q = [r EXCEPT !.pending = TRUE, !.dueIn = RecoveryDelay]
    OBVIOUS
  <2>2. q \in RadioRecords /\ q.pending = TRUE
    BY <1>0, <2>1 DEF RadioRecords
  <2>3. q.initialized = r.initialized /\ q.inProgress = r.inProgress
    BY <2>1 DEF RadioRecords
  <2>4. Schedule(r) = q
    BY <1>2, <2>1 DEF Schedule
  <2> QED BY <2>2, <2>3, <2>4 DEF Current
<1> QED BY <1>1, <1>2

\* The record loop() works on after it has looked at Wi-Fi.
LEMMA StaleScheduled ==
  ASSUME NEW r \in RadioRecords, Current(r), RadioAssumption
  PROVE  /\ Schedule([r EXCEPT !.stale = TRUE]) \in RadioRecords
         /\ Current(Schedule([r EXCEPT !.stale = TRUE]))
         /\ Schedule([r EXCEPT !.stale = TRUE]).initialized = r.initialized
<1>1. PICK q : q = [r EXCEPT !.stale = TRUE]
  OBVIOUS
<1>2. q \in RadioRecords
  BY <1>1 DEF RadioRecords
<1>3. q.initialized = r.initialized /\ q.inProgress = r.inProgress
  BY <1>1 DEF RadioRecords
<1>4. q.initialized => ~q.inProgress
  BY <1>3 DEF Current
<1> QED BY <1>1, <1>2, <1>3, <1>4, ScheduleCurrent

\* A channel that is not stable yet is no reason for anything else.
LEMMA UnstableCurrent ==
  ASSUME NEW r \in RadioRecords, Current(r)
  PROVE  /\ [r EXCEPT !.stable = FALSE] \in RadioRecords
         /\ Current([r EXCEPT !.stable = FALSE])
         /\ [r EXCEPT !.stable = FALSE].initialized = r.initialized
<1>1. PICK q : q = [r EXCEPT !.stable = FALSE]
  OBVIOUS
<1>2. q \in RadioRecords
  BY <1>1 DEF RadioRecords
<1>3. /\ q.initialized = r.initialized /\ q.inProgress = r.inProgress
      /\ q.stale = r.stale /\ q.pending = r.pending
  BY <1>1 DEF RadioRecords
<1> QED BY <1>1, <1>2, <1>3 DEF Current

\* What one poll may do once it has looked at Wi-Fi.
PollOutcome ==
  /\ radio' \in RadioRecords /\ Current(radio')
  /\ refresh' \in [pending : SUBSET Peers, cooldown : [Peers -> Nat]]
  /\ completions' \in Seq(Peers) /\ airborne' \in Seq(Peers)
  /\ registered' \in SUBSET Peers
  /\ PeersUsable'
  /\ owner # NoOwner =>
       radio'.initialized /\ completions' = completions /\ airborne' = airborne

\* Nothing but the radio's own fields changes.
LEMMA QuietOutcome ==
  ASSUME Types, PeersUsable, OwnerHasFrame,
         NEW r \in RadioRecords, Current(r), r.initialized = radio.initialized,
         radio' = r,
         UNCHANGED <<refresh, registered, completions, airborne>>
  PROVE  PollOutcome
BY DEF PollOutcome, Types, PeersUsable, OwnerHasFrame

\* A restart happens only when nobody owns the radio, and leaves it down.
LEMMA RestartOutcome ==
  ASSUME Types, NEW r \in RadioRecords, RestartDue(r), Restart(r),
         RadioAssumption
  PROVE  PollOutcome
<1>1. owner = NoOwner
  BY DEF RestartDue, Permitted
<1>2. radio' \in RadioRecords /\ radio'.initialized = FALSE
  <2>1. RecoveryCooldown \in Nat
    BY DEF RadioAssumption, Durations
  <2> QED BY <2>1 DEF Restart, RadioRecords
<1>3. refresh' \in [pending : SUBSET Peers, cooldown : [Peers -> Nat]]
  <2>1. [p \in Peers |-> 0] \in [Peers -> Nat]
    OBVIOUS
  <2> QED BY <2>1 DEF Restart
<1>4. completions' \in Seq(Peers)
  <2>1. PICK i \in DOMAIN airborne \cup {0} :
          completions' = <<>> \/ (i \in DOMAIN airborne /\ completions' = <<airborne[i]>>)
    BY DEF Restart
  <2>2. airborne \in Seq(Peers)
    BY DEF Types
  <2>3. CASE completions' = <<>>
    BY <2>3
  <2>4. CASE i \in DOMAIN airborne /\ completions' = <<airborne[i]>>
    <3>1. airborne[i] \in Peers
      BY <2>2, <2>4
    <3> QED BY <2>4, <3>1
  <2> QED BY <2>1, <2>3, <2>4
<1>5. airborne' \in Seq(Peers) /\ registered' \in SUBSET Peers
  BY DEF Restart
<1> QED
  BY <1>1, <1>2, <1>3, <1>4, <1>5 DEF PollOutcome, Current, PeersUsable

\* A successful start registers every peer, a failed one leaves the radio down.
LEMMA InitializeOutcome ==
  ASSUME Types, OwnerHasFrame, NEW r \in RadioRecords, Current(r),
         r.initialized = radio.initialized,
         MayInitialize(r), Initialize(r), RadioAssumption
  PROVE  PollOutcome
<1>0. InitRetry \in Nat
  BY DEF RadioAssumption, Durations
<1>1. ~r.initialized /\ owner = NoOwner
  BY DEF MayInitialize, OwnerHasFrame, Types
<1>2. UNCHANGED <<refresh, completions, airborne>>
  BY DEF Initialize
<1>3. CASE radio' = [Initialized(r) EXCEPT !.retryIn = InitRetry,
                                           !.stale = FALSE]
           /\ registered' = Peers
  <2>1. /\ radio' \in RadioRecords /\ radio'.inProgress = FALSE
        /\ radio'.stale = FALSE
    BY <1>0, <1>3 DEF Initialized, RadioRecords
  <2>2. Current(radio')
    BY <2>1 DEF Current
  <2>3. PeersUsable'
    BY <1>3 DEF PeersUsable
  <2> QED BY <1>1, <1>2, <1>3, <2>1, <2>2, <2>3 DEF PollOutcome, Types
<1>4. CASE radio' = [r EXCEPT !.retryIn = InitRetry] /\ registered' = {}
  <2>1. radio' \in RadioRecords /\ radio'.initialized = r.initialized
    BY <1>0, <1>4 DEF RadioRecords
  <2>2. Current(radio') /\ PeersUsable'
    BY <1>1, <2>1 DEF Current, PeersUsable
  <2> QED BY <1>1, <1>2, <1>4, <2>1, <2>2 DEF PollOutcome, Types
<1> QED BY <1>3, <1>4 DEF Initialize

\* A refresh that fails keeps the peer pending.
LEMMA RefreshOutcome ==
  ASSUME Types, PeersUsable, OwnerHasFrame, NEW r \in RadioRecords, Current(r),
         r.initialized = radio.initialized, RefreshPeer(r), RadioAssumption
  PROVE  PollOutcome
<1>0. RefreshCooldown \in Nat
  BY DEF RadioAssumption, Durations
<1>1. PICK p \in Refreshable :
        \/ /\ refresh' = [refresh EXCEPT !.pending = @ \ {p},
                                         !.cooldown[p] = RefreshCooldown]
           /\ registered' = registered \cup {p}
        \/ RefreshFailed(p)
  BY DEF RefreshPeer
<1>2. p \in refresh.pending /\ p \in Peers
  BY DEF Refreshable, Types
<1>3. /\ refresh' \in [pending : SUBSET Peers, cooldown : [Peers -> Nat]]
      /\ registered' \in SUBSET Peers
      /\ registered \cup refresh.pending
           \subseteq registered' \cup refresh'.pending
  <2>1. CASE /\ refresh' = [refresh EXCEPT !.pending = @ \ {p},
                                           !.cooldown[p] = RefreshCooldown]
             /\ registered' = registered \cup {p}
    BY <1>0, <1>2, <2>1 DEF Types
  <2>2. CASE RefreshFailed(p)
    BY <1>0, <1>2, <2>2 DEF Types, RefreshFailed
  <2> QED BY <1>1, <2>1, <2>2
<1>4. radio' = r /\ completions' = completions /\ airborne' = airborne
  BY DEF RefreshPeer
<1>5. PeersUsable'
  BY <1>3, <1>4 DEF PeersUsable
<1> QED BY <1>3, <1>4, <1>5 DEF PollOutcome, Types, OwnerHasFrame

\* A channel that is lost or another one at most schedules a recovery.
LEMMA ChannelLostOutcome ==
  ASSUME Types, PeersUsable, OwnerHasFrame, NEW r \in RadioRecords, Current(r),
         r.initialized = radio.initialized, ChannelLost(r), RadioAssumption
  PROVE  PollOutcome
<1>1. UNCHANGED <<refresh, registered, completions, airborne>>
  BY DEF ChannelLost
<1>2. CASE radio' = [r EXCEPT !.stable = FALSE]
  <2>1. PICK q : q = [r EXCEPT !.stable = FALSE]
    OBVIOUS
  <2>2. q \in RadioRecords /\ Current(q) /\ q.initialized = r.initialized
    BY <2>1, UnstableCurrent
  <2> QED BY <1>1, <1>2, <2>1, <2>2, QuietOutcome
<1>3. CASE radio' = Schedule([r EXCEPT !.stable = FALSE, !.stale = TRUE])
  <2>1. PICK u : u = [r EXCEPT !.stable = FALSE]
    OBVIOUS
  <2>2. u \in RadioRecords /\ Current(u) /\ u.initialized = r.initialized
    BY <2>1, UnstableCurrent
  <2>3. PICK q : q = Schedule([u EXCEPT !.stale = TRUE])
    OBVIOUS
  <2>4. q \in RadioRecords /\ Current(q) /\ q.initialized = r.initialized
    BY <2>2, <2>3, StaleScheduled
  <2>5. radio' = q
    BY <1>3, <2>1, <2>3
  <2> QED BY <1>1, <2>4, <2>5, QuietOutcome
<1> QED BY <1>2, <1>3 DEF ChannelLost

\* On the expected channel loop() does one of four things.
LEMMA ChannelMatchesOutcome ==
  ASSUME Types, PeersUsable, OwnerHasFrame, NEW r \in RadioRecords, Current(r),
         r.initialized = radio.initialized, ChannelMatches(r), RadioAssumption
  PROVE  PollOutcome
<1>1. CASE Quiet([r EXCEPT !.stable = TRUE, !.stableIn = Stabilization])
  <2>1. PICK q : q = [r EXCEPT !.stable = TRUE, !.stableIn = Stabilization]
    OBVIOUS
  <2>2. q \in RadioRecords
    <3>1. Stabilization \in Nat
      BY DEF RadioAssumption, Durations
    <3> QED BY <2>1, <3>1 DEF RadioRecords
  <2>3. /\ q.initialized = r.initialized /\ q.inProgress = r.inProgress
        /\ q.stale = r.stale /\ q.pending = r.pending
    BY <2>1 DEF RadioRecords
  <2> QED BY <1>1, <2>1, <2>2, <2>3, QuietOutcome DEF Quiet, Current
<1>2. CASE Quiet(r)
  BY <1>2, QuietOutcome DEF Quiet
<1>3. CASE RestartDue(r) /\ Restart(r)
  BY <1>3, RestartOutcome
<1>4. CASE RefreshPeer(r)
  BY <1>4, RefreshOutcome
<1>5. CASE MayInitialize(r) /\ Initialize(r)
  BY <1>5, InitializeOutcome
<1> QED BY <1>1, <1>2, <1>3, <1>4, <1>5 DEF ChannelMatches

-----------------------------------------------------------------------------
(* The specification                                                       *)

RadioInv ==
  /\ Types
  /\ Paired(arbitration)
  /\ Current(radio)
  /\ PeersUsable
  /\ OwnerHasFrame
  /\ OwnedWhileDisabled
  /\ ReapplyInWindow

\* The radio as it boots, in either build.
LEMMA RadioInitInv == Init => RadioInv
<1> SUFFICES ASSUME Init PROVE RadioInv
  OBVIOUS
<1>1. radio \in RadioRecords /\ Current(radio) /\ PeersUsable
  BY DEF Init, RadioRecords, Current, PeersUsable
<1>2. arbitration \in ArbitrationRecords /\ Paired(arbitration)
  BY DEF Init, ArbitrationRecords, ArbitrationStates, Paired
<1>3. /\ recovery \in [fixed : BOOLEAN, attempt : BOOLEAN, pending : BOOLEAN,
                       failed : BOOLEAN]
      /\ ReapplyInWindow
  BY DEF Init, ReapplyInWindow
<1>4. refresh \in [pending : SUBSET Peers, cooldown : [Peers -> Nat]]
  BY DEF Init
<1>5. /\ exchange \in Peers \cup {NoPeer} /\ owner \in Owners /\ owner = NoOwner
      /\ runtime \in Runtimes
      /\ completions \in Seq(Peers) /\ airborne \in Seq(Peers)
      /\ registered \in SUBSET Peers
  BY DEF Init, Owners, Runtimes
<1> QED
  BY <1>1, <1>2, <1>3, <1>4, <1>5
     DEF RadioInv, Types, OwnerHasFrame, OwnedWhileDisabled

\* loop() with a due poll.
LEMMA PollInv == RadioInv /\ Poll => RadioInv'
<1> SUFFICES ASSUME RadioInv, Poll PROVE RadioInv'
  OBVIOUS
<1> USE RadioAssumption
<1>1. PICK associated \in BOOLEAN, active \in BOOLEAN, accepted \in BOOLEAN,
           operating \in BOOLEAN :
        LET seen == Observe(arbitration, associated)
            scheduled == IF Changed(arbitration, associated) /\ ~operating
                         THEN Schedule([radio EXCEPT !.stale = TRUE])
                         ELSE radio
            r == IF Confirms(seen, active)
                 THEN [scheduled EXCEPT !.stable = FALSE] ELSE scheduled
        IN  /\ IF recovery.fixed THEN ~active /\ ~accepted ELSE ~operating
            /\ arbitration' = Arbitrate(seen, active, accepted)
            /\ ChannelMatches(r) \/ ChannelLost(r)
  BY Zenon DEF Poll
<1>2. PICK seen : seen = Observe(arbitration, associated)
  OBVIOUS
<1>3. PICK scheduled :
        scheduled = IF Changed(arbitration, associated) /\ ~operating
                    THEN Schedule([radio EXCEPT !.stale = TRUE]) ELSE radio
  OBVIOUS
<1>4. PICK r : r = IF Confirms(seen, active)
                   THEN [scheduled EXCEPT !.stable = FALSE] ELSE scheduled
  OBVIOUS
<1>5. /\ arbitration' = Arbitrate(seen, active, accepted)
      /\ ChannelMatches(r) \/ ChannelLost(r)
  BY <1>1, <1>2, <1>3, <1>4
<1>6. /\ UNCHANGED <<recovery, exchange, owner, runtime>>
  BY DEF Poll, endpoint
<1>7. arbitration' \in ArbitrationRecords /\ Paired(arbitration')
  <2>1. seen \in ArbitrationRecords /\ Paired(seen) /\ seen.known = TRUE
    BY <1>2, ObservePairs DEF RadioInv, Types
  <2> QED BY <1>5, <2>1, ArbitratePairs
<1>8. scheduled \in RadioRecords /\ Current(scheduled)
      /\ scheduled.initialized = radio.initialized
  BY <1>3, StaleScheduled DEF RadioInv, Types
<1>9. r \in RadioRecords /\ Current(r) /\ r.initialized = radio.initialized
  BY <1>4, <1>8, UnstableCurrent
<1>10. PollOutcome
  BY <1>5, <1>9, ChannelMatchesOutcome, ChannelLostOutcome DEF RadioInv
<1>11. Types'
  BY <1>6, <1>7, <1>10 DEF RadioInv, Types, PollOutcome
<1>12. Paired(arbitration)'
  BY <1>6, <1>7 DEF Paired
<1>13. OwnerHasFrame' /\ OwnedWhileDisabled'
  BY <1>6, <1>10
     DEF RadioInv, OwnerHasFrame, OwnedWhileDisabled, Outstanding, PollOutcome
<1>14. ReapplyInWindow'
  BY <1>6 DEF RadioInv, ReapplyInWindow
<1> QED
  BY <1>10, <1>11, <1>12, <1>13, <1>14 DEF RadioInv, PollOutcome, Current

\* What frames, callbacks and completions touch.
LEMMA FrameStepInv ==
  ASSUME RadioInv, OwnerHasFrame', OwnedWhileDisabled', owner' \in Owners,
         runtime' \in Runtimes,
         completions' \in Seq(Peers), airborne' \in Seq(Peers),
         exchange' \in Peers \cup {NoPeer},
         UNCHANGED <<radio, refresh, arbitration, recovery, registered>>
  PROVE  RadioInv'
BY DEF RadioInv, Types, Paired, Current, PeersUsable, ReapplyInWindow

\* The peers of a sequence, and what appending and removing do to them.
Items(s) == {s[i] : i \in DOMAIN s}

LEMMA ItemsAppend ==
  ASSUME NEW s \in Seq(Peers), NEW p \in Peers
  PROVE  Append(s, p) \in Seq(Peers) /\ Items(Append(s, p)) = Items(s) \cup {p}
<1>1. /\ DOMAIN s = 1 .. Len(s) /\ Len(s) \in Nat
      /\ DOMAIN Append(s, p) = 1 .. Len(s) + 1
      /\ \A i \in 1 .. Len(s) : Append(s, p)[i] = s[i]
      /\ Append(s, p)[Len(s) + 1] = p
  OBVIOUS
<1> QED BY <1>1 DEF Items

LEMMA ItemsTail ==
  ASSUME NEW s \in Seq(Peers), s # <<>>
  PROVE  /\ Head(s) \in Peers /\ Tail(s) \in Seq(Peers)
         /\ Items(s) = Items(Tail(s)) \cup {Head(s)}
<1>1. /\ DOMAIN s = 1 .. Len(s) /\ Len(s) \in Nat \ {0}
      /\ Tail(s) \in Seq(Peers) /\ DOMAIN Tail(s) = 1 .. Len(s) - 1
      /\ \A i \in 1 .. Len(s) - 1 : Tail(s)[i] = s[i + 1]
      /\ Head(s) = s[1] /\ Head(s) \in Peers
  OBVIOUS
<1>2. ASSUME NEW x \in Items(s) PROVE x \in Items(Tail(s)) \cup {Head(s)}
  <2>1. PICK i \in 1 .. Len(s) : x = s[i]
    BY <1>1, <1>2 DEF Items
  <2>2. CASE i = 1
    BY <1>1, <2>1, <2>2
  <2>3. CASE i # 1
    <3>1. i - 1 \in DOMAIN Tail(s) /\ x = Tail(s)[i - 1]
      BY <1>1, <2>1, <2>3
    <3> QED BY <3>1 DEF Items
  <2> QED BY <2>2, <2>3
<1>3. ASSUME NEW x \in Items(Tail(s)) PROVE x \in Items(s)
  <2>1. PICK i \in 1 .. Len(s) - 1 : x = Tail(s)[i]
    BY <1>1, <1>3 DEF Items
  <2>2. i + 1 \in DOMAIN s /\ x = s[i + 1]
    BY <1>1, <2>1
  <2> QED BY <2>2 DEF Items
<1>4. Head(s) \in Items(s)
  BY <1>1 DEF Items
<1> QED BY <1>1, <1>2, <1>3, <1>4

\* No handler, callback or tick breaks the invariant.
LEMMA RadioStepInv == RadioInv /\ [Next]_vars => RadioInv'
<1> SUFFICES ASSUME RadioInv, [Next]_vars PROVE RadioInv'
  OBVIOUS
<1> USE RadioAssumption
<1>0. Types
  BY DEF RadioInv
<1>o. /\ Outstanding = Items(airborne) \cup Items(completions)
      /\ Outstanding' = Items(airborne') \cup Items(completions')
  BY DEF Outstanding, Items
<1>1. CASE Poll
  BY <1>1, PollInv
<1>2. ASSUME NEW p \in Peers, StartExchange(p) PROVE RadioInv'
  BY <1>0, <1>2, FrameStepInv
     DEF StartExchange, Types, RadioInv, OwnerHasFrame, OwnedWhileDisabled,
         Outstanding
<1>3. ASSUME NEW for \in {"SENDER", "ACK"}, NEW p \in Peers, SendFrame(for, p)
      PROVE  RadioInv'
  <2>1. /\ runtime # "disabled"
        /\ radio' = radio /\ radio.initialized /\ completions' = completions
        /\ airborne' = Append(airborne, p)
        /\ owner' = [for |-> for, peer |-> p, cutOff |-> FALSE]
        /\ UNCHANGED <<refresh, arbitration, recovery, registered, exchange,
                       runtime>>
    BY <1>3 DEF SendFrame
  <2>2. airborne' \in Seq(Peers) /\ p \in Outstanding'
    BY <1>0, <1>o, <2>1, ItemsAppend DEF Types
  <2>3. OwnerHasFrame' /\ OwnedWhileDisabled' /\ owner' \in Owners
    BY <2>1, <2>2 DEF OwnerHasFrame, OwnedWhileDisabled, Owners
  <2> QED BY <1>0, <2>1, <2>2, <2>3, FrameStepInv DEF Types
<1>4. CASE SendCallback
  <2>1. /\ airborne # <<>> /\ airborne' = Tail(airborne)
        /\ completions' = Append(completions, Head(airborne))
        /\ UNCHANGED <<radio, refresh, arbitration, recovery, registered,
                       exchange, owner, runtime>>
    BY <1>4 DEF SendCallback, endpoint
  <2>2. /\ airborne' \in Seq(Peers) /\ completions' \in Seq(Peers)
        /\ Outstanding' = Outstanding
    <3>1. /\ Head(airborne) \in Peers /\ airborne' \in Seq(Peers)
          /\ Items(airborne) = Items(airborne') \cup {Head(airborne)}
      BY <1>0, <2>1, ItemsTail DEF Types
    <3>2. /\ completions' \in Seq(Peers)
          /\ Items(completions') = Items(completions) \cup {Head(airborne)}
      BY <1>0, <2>1, <3>1, ItemsAppend DEF Types
    <3> QED BY <1>o, <3>1, <3>2
  <2>3. OwnerHasFrame' /\ OwnedWhileDisabled'
    BY <2>1, <2>2 DEF RadioInv, OwnerHasFrame, OwnedWhileDisabled
  <2> QED BY <1>0, <2>1, <2>2, <2>3, FrameStepInv DEF Types
<1>5. CASE ProcessSendCompletion
  <2>1. /\ completions # <<>> /\ completions' = Tail(completions)
        /\ owner' = OwnerAfter(Head(completions))
        /\ UNCHANGED <<radio, refresh, arbitration, recovery, registered,
                       exchange, runtime, airborne>>
    BY <1>5 DEF ProcessSendCompletion
  <2>2. completions' \in Seq(Peers)
        /\ Outstanding = Outstanding' \cup {Head(completions)}
    BY <1>0, <1>o, <2>1, ItemsTail DEF Types
  <2>3. OwnerHasFrame' /\ OwnedWhileDisabled' /\ owner' \in Owners
    BY <1>0, <2>1, <2>2
       DEF RadioInv, OwnerHasFrame, OwnedWhileDisabled, Types, Owners, OwnerAfter
  <2> QED BY <1>0, <2>1, <2>2, <2>3, FrameStepInv DEF Types
<1>6. CASE EndExchange
  BY <1>0, <1>6, FrameStepInv
     DEF EndExchange, Types, RadioInv, OwnerHasFrame, OwnedWhileDisabled,
         Outstanding
<1>7. CASE DeliveryTimeout
  <2>1. /\ radio' = Schedule([radio EXCEPT !.stale = TRUE])
        /\ refresh' = [refresh EXCEPT !.pending = @ \cup {exchange}]
        /\ exchange # NoPeer /\ exchange' = NoPeer
        /\ UNCHANGED <<arbitration, recovery, registered, owner, runtime,
                       completions, airborne>>
    BY <1>7 DEF DeliveryTimeout
  <2>2. /\ radio' \in RadioRecords /\ Current(radio')
        /\ radio'.initialized = radio.initialized
    BY <1>0, <2>1, StaleScheduled DEF RadioInv, Types
  <2>3. /\ refresh' \in [pending : SUBSET Peers, cooldown : [Peers -> Nat]]
        /\ refresh.pending \subseteq refresh'.pending
    BY <1>0, <2>1 DEF Types
  <2>4. Types' /\ PeersUsable'
    BY <1>0, <2>1, <2>2, <2>3 DEF Types, RadioInv, PeersUsable
  <2>5. OwnerHasFrame' /\ OwnedWhileDisabled'
    BY <2>1, <2>2 DEF RadioInv, OwnerHasFrame, OwnedWhileDisabled, Outstanding
  <2> QED
    BY <2>1, <2>2, <2>4, <2>5
       DEF RadioInv, Paired, Current, ReapplyInWindow
<1>8. CASE Disable
  <2>1. /\ OwnerHasFrame' /\ OwnedWhileDisabled'
        /\ owner' \in Owners /\ completions' \in Seq(Peers)
    BY <1>8 DEF Disable, OwnerHasFrame, OwnedWhileDisabled, Owners
  <2>2. runtime' \in Runtimes
    BY <1>8 DEF Disable, Runtimes
  <2> QED BY <1>0, <1>8, <2>1, <2>2, FrameStepInv DEF Disable, Types
<1>9. CASE LeaveLoop
  <2>1. /\ runtime' \in Runtimes
        /\ owner' = IF owner = NoOwner THEN owner
                    ELSE [owner EXCEPT !.cutOff = TRUE]
        /\ UNCHANGED <<radio, refresh, arbitration, recovery, registered,
                       exchange, completions, airborne>>
    BY <1>9 DEF LeaveLoop, Runtimes
  <2>2. owner' \in Owners
    BY <1>0, <2>1 DEF Types, Owners
  <2>3. OwnerHasFrame' /\ OwnedWhileDisabled'
    <3>1. CASE owner = NoOwner
      BY <2>1, <3>1 DEF OwnerHasFrame, OwnedWhileDisabled
    <3>2. CASE owner # NoOwner
      <4>1. owner' = [owner EXCEPT !.cutOff = TRUE] /\ radio.initialized
        BY <2>1, <3>2 DEF RadioInv, OwnerHasFrame
      <4>2. owner \in [for : {"SENDER", "ACK"}, peer : Peers, cutOff : BOOLEAN]
        BY <1>0, <3>2 DEF Types, Owners
      <4>3. owner'.cutOff = TRUE
        BY <4>1, <4>2
      <4> QED BY <2>1, <4>1, <4>3 DEF OwnerHasFrame, OwnedWhileDisabled
    <3> QED BY <3>1, <3>2
  <2> QED BY <1>0, <2>1, <2>2, <2>3, FrameStepInv DEF Types
<1>10. CASE Discard
  <2>1. /\ runtime = "disabled" /\ completions' = <<>>
        /\ UNCHANGED <<radio, refresh, arbitration, recovery, registered,
                       exchange, owner, runtime, airborne>>
    BY <1>10 DEF Discard, endpoint
  <2>2. OwnerHasFrame' /\ OwnedWhileDisabled'
    BY <2>1 DEF RadioInv, OwnedWhileDisabled, OwnerHasFrame
  <2> QED BY <1>0, <2>1, <2>2, FrameStepInv DEF Types
<1>11. CASE Enable
  <2>1. /\ runtime' = "enabled"
        /\ UNCHANGED <<radio, refresh, arbitration, recovery, registered,
                       exchange, owner, completions, airborne>>
    BY <1>11 DEF Enable
  <2>2. OwnerHasFrame' /\ OwnedWhileDisabled' /\ runtime' \in Runtimes
    BY <2>1 DEF RadioInv, OwnerHasFrame, OwnedWhileDisabled, Outstanding, Runtimes
  <2> QED BY <1>0, <2>1, <2>2, FrameStepInv DEF Types
<1>12. CASE WiFiPhase \/ PeerRecoveryTick
  <2>1. UNCHANGED <<radio, refresh, arbitration, exchange, owner, runtime,
                    completions, airborne, registered>>
    BY <1>12 DEF WiFiPhase, PeerRecoveryTick, endpoint
  <2>2. /\ recovery' \in [fixed : BOOLEAN, attempt : BOOLEAN,
                          pending : BOOLEAN, failed : BOOLEAN]
        /\ recovery'.fixed = recovery.fixed
        /\ ReapplyInWindow'
    <3>1. CASE WiFiPhase
      <4>1. PICK phase \in {"wifi_connected", "before_attempt",
                            "retry_after_disconnect"} :
              recovery' = Phase(recovery, phase)
        BY <3>1 DEF WiFiPhase
      <4>2. CASE phase = "wifi_connected"
        BY <1>0, <4>1, <4>2 DEF Phase, Types, ReapplyInWindow
      <4>3. CASE phase = "before_attempt"
        BY <1>0, <4>1, <4>3 DEF Phase, Types, ReapplyInWindow
      <4>4. CASE phase = "retry_after_disconnect"
        BY <1>0, <4>1, <4>4 DEF Phase, Types, ReapplyInWindow
      <4> QED BY <4>2, <4>3, <4>4
    <3>2. CASE PeerRecoveryTick
      BY <1>0, <3>2 DEF PeerRecoveryTick, RadioInv, Types, ReapplyInWindow
    <3> QED BY <1>12, <3>1, <3>2
  <2>3. Paired(arbitration)'
    BY <2>1, <2>2 DEF RadioInv, Paired
  <2> QED
    BY <2>1, <2>2, <2>3
       DEF RadioInv, Types, Current, PeersUsable, OwnerHasFrame,
           OwnedWhileDisabled, Outstanding
<1>13. CASE Tick
  <2>1. UNCHANGED <<recovery, exchange, owner, runtime, completions, airborne,
                    registered>>
    BY <1>13 DEF Tick, endpoint
  <2>0. \A n \in Nat : Less(n) \in Nat
    BY DEF Less
  <2>2. /\ radio' \in RadioRecords
        /\ radio'.initialized = radio.initialized
        /\ radio'.inProgress = radio.inProgress
        /\ radio'.stale = radio.stale /\ radio'.pending = radio.pending
    BY <1>0, <1>13, <2>0 DEF Tick, Types, RadioRecords
  <2>3. /\ refresh' \in [pending : SUBSET Peers, cooldown : [Peers -> Nat]]
        /\ refresh'.pending = refresh.pending
    <3>1. [p \in Peers |-> Less(refresh.cooldown[p])] \in [Peers -> Nat]
      BY <1>0, <2>0 DEF Types
    <3> QED BY <1>0, <1>13, <3>1 DEF Tick, Types
  <2>4. /\ arbitration' \in ArbitrationRecords
        /\ Paired(arbitration)'
    <3>1. PICK b : b = [arbitration EXCEPT !.dueIn = Less(arbitration.dueIn)]
      OBVIOUS
    <3>2. arbitration' = b
      BY <1>13, <3>1 DEF Tick
    <3>3. b \in ArbitrationRecords
      BY <1>0, <2>0, <3>1 DEF Types, ArbitrationRecords
    <3>4. /\ b.granted = arbitration.granted /\ b.held = arbitration.held
          /\ b.state = arbitration.state /\ b.known = arbitration.known
          /\ b.associated = arbitration.associated
      BY <1>0, <3>1 DEF Types, ArbitrationRecords
    <3> QED BY <2>1, <3>2, <3>3, <3>4 DEF RadioInv, Paired
  <2> QED
    BY <2>1, <2>2, <2>3, <2>4
       DEF RadioInv, Types, Current, PeersUsable, OwnerHasFrame,
           OwnedWhileDisabled, Outstanding, ReapplyInWindow
<1>14. CASE UNCHANGED vars
  BY <1>14
     DEF vars, endpoint, RadioInv, Types, Paired, Current, PeersUsable,
         OwnerHasFrame, OwnedWhileDisabled, Outstanding, ReapplyInWindow
<1> QED
  BY <1>1, <1>2, <1>3, <1>4, <1>5, <1>6, <1>7, <1>8, <1>9, <1>10, <1>11, <1>12,
     <1>13, <1>14 DEF Next

\* The inductive invariant holds in every reachable state, whatever ESP-IDF and
\* the Wi-Fi component answer.
THEOREM RadioInvariance == Spec => []RadioInv
<1>1. Init => RadioInv
  BY RadioInitInv
<1>2. RadioInv /\ [Next]_vars => RadioInv'
  BY RadioStepInv
<1> QED BY <1>1, <1>2, PTL DEF Spec

\* Every accepted suppression request is released exactly once, and an
\* association ends arbitration.
THEOREM RadioSuppressionPaired == Spec => []SuppressionPaired
<1>1. RadioInv => SuppressionPaired
  BY DEF RadioInv, Paired, SuppressionPaired
<1> QED BY <1>1, RadioInvariance, PTL

\* The radio is not restarted under a frame, and whoever owns it has a completion
\* coming unless the runtime was disabled right after the frame was sent.
THEOREM RadioOwnerHasFrame == Spec => []OwnerHasFrame
BY RadioInvariance, PTL DEF RadioInv

\* Every configured peer of a radio that is up is in the driver's table or
\* waits for a refresh.
THEOREM RadioPeersUsable == Spec => []PeersUsable
BY RadioInvariance, PTL DEF RadioInv

\* No reason for a restart is lost, although requests are ignored while one is
\* pending or in progress.
THEOREM RadioNoStaleEpoch == Spec => []NoStaleEpoch
<1>1. RadioInv => NoStaleEpoch
  BY DEF RadioInv, Current, NoStaleEpoch
<1> QED BY <1>1, RadioInvariance, PTL

\* Peers are reapplied only between a failed attempt and the next one.
THEOREM RadioReapplyInWindow == Spec => []ReapplyInWindow
BY RadioInvariance, PTL DEF RadioInv
=============================================================================
