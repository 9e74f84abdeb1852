-------------------------- MODULE InboundDispatcher --------------------------
(***************************************************************************)
(* The inbound side of a device: the InboundCommandDispatchers             *)
(* (command_dispatcher.h) of the main lane and of the optional parallel    *)
(* and interrupt lanes, the command the runtime holds for them, and the    *)
(* one handler behind them (CommandHandlers), as the endpoint's loop calls *)
(* them: a held message, each lane's loop and one result per iteration,    *)
(* with `now_ms' sampled once per iteration.                               *)
(*                                                                         *)
(* Which lanes a build has and which handler it registers is chosen in     *)
(* Init.  Results are statuses, and fit the result codec (Codecs), so      *)
(* complete_result_'s encoding fallback is not taken.  External: when the  *)
(* shared reliable sender is free.                                         *)
(***************************************************************************)
EXTENDS CommandHandlers, Codecs

CONSTANTS
  CommandTimeout,     \* NetCommand::timeout_ms in ticks; decode requires > 0
  NoMessage

Lanes == {"main", "parallel", "interrupt"}

Statuses == {"IN_PROGRESS", "SUCCEEDED", "FAILED", "INTERRUPTED", "TIMED_OUT",
             "REFUSED", "INVALID"}

ASSUME DispatcherAssumption ==
  /\ CommandTimeout \in Nat \ {0}
  /\ NoResult \notin Statuses
  /\ NoMessage \notin [tx : Commands, command : NetCommands \cup {Foreign, Empty}]

VARIABLES
  step,      \* next step of the endpoint's loop
  optional,  \* the optional lanes of this build that are enabled
  lanes,     \* command_dispatcher_, parallel_dispatcher_, interrupt_dispatcher_
  handler,   \* the handler behind the lanes
  held,      \* the command the runtime holds, already acknowledged ACCEPTED
  arrived,   \* history: how many commands have arrived
  reports,   \* history: results handed to the reliable sender, per command
  past       \* history: which commands were probed, which operation a stop was
             \* aimed at, which stops succeeded, which took the interrupt lane

vars == <<step, optional, lanes, handler, held, arrived, reports, past>>

-----------------------------------------------------------------------------
(* InboundCommandDispatcher                                                *)

IdleLane ==
  [state |-> "IDLE", tx |-> NoTransaction, command |-> Empty, age |-> 0,
   pending |-> NoResult]

\* stage_result_
Stage(d, status) == [d EXCEPT !.state = "RESULT_READY", !.pending = status]

\* configure_declarative_inbound registers the handler on the main lane only,
\* set_command_handler on every lane.
Registered(lane) == handler.kind = "application" \/ lane = "main"

\* accept(): a command that is not started is answered at once.
StartedOn(lane, message) ==
  /\ message.command # Empty /\ Registered(lane)
  /\ StartStatus(handler, message.tx, message.command) = "STARTED"

Accepted(lane, message) ==
  LET taken == [IdleLane EXCEPT !.tx = message.tx, !.command = message.command]
  IN IF StartedOn(lane, message) THEN [taken EXCEPT !.state = "ACTIVE"]
     ELSE Stage(taken, "REFUSED")

\* can_accept_interrupt
CanAcceptInterrupt(command, operation) ==
  /\ lanes["interrupt"].state = "IDLE" /\ lanes[operation].state = "ACTIVE"
  /\ command.name = "stop" /\ command.key = lanes[operation].command.key

\* loop(): the command's deadline is looked at before the handler is, and
\* expiry cancels the handler.
Expired(d) == d.age >= CommandTimeout

\* NetResult::consistent, for the results built here: an IN_PROGRESS result
\* must carry a non-zero estimated completion.
Consistent(status) == status = "IN_PROGRESS" => CompletionTimeout > 0

\* A result was offered: take_result and the checks on it.
Collected(d, tx, status) ==
  IF tx = d.tx /\ Consistent(status) THEN Stage(d, status)
  ELSE Stage(d, "INVALID")

\* Mutant: an outcome leaves the command active.
DispatcherTakeKeepsActive(d) ==
  [d EXCEPT !.state = "ACTIVE", !.pending = NoResult]

\* take_result(): progress keeps the command active, an outcome ends it.
DispatcherTake(d) ==
  IF d.pending = "IN_PROGRESS"
  THEN [d EXCEPT !.state = "ACTIVE", !.pending = NoResult]
  ELSE IdleLane

-----------------------------------------------------------------------------
Init ==
  /\ \/ handler = IdleDeclarative /\ optional \in SUBSET {"interrupt"}
     \/ handler = IdleApplication /\ optional \in SUBSET {"parallel", "interrupt"}
  /\ step = "message" /\ lanes = [l \in Lanes |-> IdleLane]
  /\ held = NoMessage /\ arrived = 0
  /\ reports = [c \in Commands |-> <<>>]
  /\ past = [probed |-> {}, stopped |-> {}, express |-> {},
             aim |-> [c \in Commands |-> NoTransaction]]

\* The runtime completes a command; it is the first of its kind, and the
\* runtime takes no other frame while it holds one.
CommandsFor(h) ==
  {Empty} \cup IF h.kind = "declarative" THEN NetCommands \cup {Foreign}
               ELSE { c \in NetCommands : c.kind = "plain" }

Arrive(command) ==
  /\ step = "message" /\ held = NoMessage /\ arrived + 1 \in Commands
  /\ held' = [tx |-> arrived + 1, command |-> command]
  /\ arrived' = arrived + 1
  /\ UNCHANGED <<step, optional, lanes, handler, reports, past>>

ParallelAvailable ==
  "parallel" \in optional /\ lanes["parallel"].state = "IDLE"

IsInterrupt(command) ==
  /\ "interrupt" \in optional
  /\ \E operation \in {"main"} \cup (optional \ {"interrupt"}) :
       CanAcceptInterrupt(command, operation)

\* Mutant: any command is taken when the interrupt lane is free.
MayTakeUnpeeked(command) ==
  \/ lanes["main"].state = "IDLE" \/ ParallelAvailable
  \/ "interrupt" \in optional /\ lanes["interrupt"].state = "IDLE"

\* process_application_message_ leaves a command in the runtime until a lane
\* can take it; it peeks before it uses the interrupt lane.
MayTake(command) ==
  \/ lanes["main"].state = "IDLE" \/ ParallelAvailable
  \/ IsInterrupt(command)

\* The lanes are asked in this order; a command none takes is dropped.
LaneFor(command) ==
  CASE IsInterrupt(command) -> "interrupt"
    [] ~IsInterrupt(command) /\ lanes["main"].state = "IDLE" -> "main"
    [] ~IsInterrupt(command) /\ lanes["main"].state # "IDLE"
         /\ ParallelAvailable -> "parallel"
    [] OTHER -> "none"

TakeMessage ==
  /\ step = "message" /\ step' = "main"
  /\ held # NoMessage /\ MayTake(held.command) /\ held' = NoMessage
  /\ LET lane == LaneFor(held.command)
         tx == held.tx
         command == held.command
     IN IF lane = "none" THEN UNCHANGED <<lanes, handler, past>>
        ELSE LET started == StartedOn(lane, held)
                 interrupts == /\ started /\ handler.kind = "application"
                               /\ Interrupts(handler, command) IN
             /\ lanes' = [lanes EXCEPT ![lane] = Accepted(lane, held)]
             /\ handler' = IF started THEN Start(handler, tx, command) ELSE handler
             /\ past' =
                  [past EXCEPT
                     !.probed = IF started /\ command.kind = "probed"
                                THEN @ \cup {tx} ELSE @,
                     !.express = IF lane = "interrupt" THEN @ \cup {tx} ELSE @,
                     !.aim[tx] = IF interrupts THEN handler.pair.operation ELSE @]
  /\ UNCHANGED <<optional, arrived, reports>>

NoMessageNow ==
  /\ step = "message" /\ step' = "main"
  /\ held # NoMessage => ~MayTake(held.command)
  /\ UNCHANGED <<optional, lanes, handler, held, arrived, reports, past>>

\* The dispatcher loops of the lanes, in this order.
NextStep ==
  [main |-> "parallel", parallel |-> "interrupt", interrupt |-> "result"]

LaneLoop(lane) ==
  /\ step = lane /\ step' = NextStep[lane]
  /\ LET d == lanes[lane] IN
     IF d.state # "ACTIVE" THEN UNCHANGED <<lanes, handler, past>>
     ELSE IF Expired(d)
     THEN /\ lanes' = [lanes EXCEPT ![lane] = Stage(d, "TIMED_OUT")]
          /\ handler' = Cancel(handler, d.tx)
          /\ UNCHANGED past
     ELSE \E h \in Loops(handler) :
            /\ past' = [past EXCEPT !.stopped =
                          @ \cup { s \in Commands : /\ h.kind = "application"
                                                    /\ handler.pair.interrupt = s
                                                    /\ h.results[s] = "SUCCEEDED" }]
            /\ \/ /\ ResultFor(h, d.tx) = {}
                  /\ handler' = h /\ UNCHANGED lanes
               \/ \E tx \in ResultFor(h, d.tx) :
                    /\ handler' = Take(h, tx)
                    /\ lanes' = [lanes EXCEPT ![lane] =
                                   Collected(d, tx, ResultOf(h, tx))]
  /\ UNCHANGED <<optional, held, arrived, reports>>

\* Mutant: the interrupt lane waits for the others.
ResultLaneStopLast ==
  CASE lanes["main"].state = "RESULT_READY" -> "main"
    [] lanes["main"].state # "RESULT_READY"
         /\ lanes["parallel"].state = "RESULT_READY" -> "parallel"
    [] OTHER -> "interrupt"

\* process_dispatcher_: the interrupt's result goes first, then the main lane's.
ResultLane ==
  CASE lanes["interrupt"].state = "RESULT_READY" -> "interrupt"
    [] lanes["interrupt"].state # "RESULT_READY"
         /\ lanes["main"].state # "RESULT_READY"
         /\ lanes["parallel"].state = "RESULT_READY" -> "parallel"
    [] OTHER -> "main"

\* The sender is free ...
SendResult ==
  LET lane == ResultLane
      d == lanes[lane] IN
  /\ step = "result" /\ step' = "message"
  /\ d.state = "RESULT_READY"
  /\ reports' = [reports EXCEPT ![d.tx] = Append(@, d.pending)]
  /\ lanes' = [lanes EXCEPT ![lane] = DispatcherTake(d)]
  /\ UNCHANGED <<optional, handler, held, arrived, past>>

\* ... or busy, or there is nothing to send.
NoResultNow ==
  /\ step = "result" /\ step' = "message"
  /\ UNCHANGED <<optional, lanes, handler, held, arrived, reports, past>>

\* millis() advances between two iterations; each age saturates at the only
\* value it is compared with.
AgedLane(d) ==
  IF d.state # "IDLE" /\ d.age < CommandTimeout THEN [d EXCEPT !.age = @ + 1]
  ELSE d

Tick ==
  /\ step = "message"
  /\ lanes' = [l \in Lanes |-> AgedLane(lanes[l])]
  /\ handler' = AgedHandler(handler)
  /\ <<lanes', handler'>> # <<lanes, handler>>
  /\ UNCHANGED <<step, optional, held, arrived, reports, past>>

Next ==
  \/ \E command \in CommandsFor(handler) : Arrive(command)
  \/ TakeMessage
  \/ NoMessageNow
  \/ \E lane \in Lanes : LaneLoop(lane)
  \/ SendResult
  \/ NoResultNow
  \/ Tick

\* The loop keeps running, the clock keeps moving, and the reliable sender is
\* free again and again, as every delivery of a single frame ends: results are
\* taken to fit one (ReliableLink says what becomes of longer ones).
Fairness ==
  /\ WF_vars(\/ TakeMessage \/ NoMessageNow \/ NoResultNow
             \/ \E lane \in Lanes : LaneLoop(lane))
  /\ SF_vars(Tick) /\ SF_vars(SendResult)

Spec == Init /\ [][Next]_vars /\ Fairness

-----------------------------------------------------------------------------
(* Properties                                                              *)

AnyLane ==
  [state : {"IDLE", "ACTIVE", "RESULT_READY"},
   tx : Commands \cup {NoTransaction}, age : 0 .. CommandTimeout,
   command : NetCommands \cup {Foreign, Empty},
   pending : Statuses \cup {NoResult}]

\* The lanes, the handler and the held command stay in their types.
TypeOK ==
  /\ step \in {"message", "result"} \cup Lanes
  /\ lanes \in [Lanes -> AnyLane]
  /\ handler \in AnyHandler
  /\ held \in [tx : Commands, command : CommandsFor(handler)] \cup {NoMessage}

\* The handler works only on commands a lane still has open: after a timeout,
\* an outcome or an invalid result its slot is free again, so no later command
\* is answered BUSY for ever.
HandlerReleased ==
  \A tx \in Working(handler) : \E l \in Lanes :
    lanes[l].tx = tx /\ lanes[l].state # "IDLE"

\* A command is answered by at most one outcome, after which nothing more is
\* said about it, whichever of dispatcher timeout, completion timeout and
\* completion comes first.
OutcomeIsLast ==
  \A c \in Commands : \A i \in 1 .. Len(reports[c]) - 1 :
    reports[c][i] = "IN_PROGRESS"

\* Who asked for a probed command hears IN_PROGRESS before its outcome
\* ("the handler ... reports IN_PROGRESS, observes LightState").
ProgressFirst ==
  \A c \in past.probed : reports[c] # <<>> => reports[c][1] = "IN_PROGRESS"

\* No lane takes a result that belongs to another one ("without either
\* dispatcher stealing a result"): the check that would turn it into an
\* internal error never fires.
NoStolenResult ==
  \A c \in Commands : \A i \in 1 .. Len(reports[c]) : reports[c][i] # "INVALID"

\* An operation is reported INTERRUPTED only because a stop aimed at it
\* succeeded; and when that stop used the interrupt lane, whoever asked for it
\* has been answered first, although the main lane's loop runs before.
Outcome(c) == reports[c] # <<>> /\ reports[c][Len(reports[c])] # "IN_PROGRESS"

InterruptedAfterStop ==
  \A c \in Commands :
    Outcome(c) /\ reports[c][Len(reports[c])] = "INTERRUPTED" =>
      \E s \in past.stopped :
        past.aim[s] = c /\ (s \in past.express => Outcome(s))

\* The codecs hold no state, so it is enough to ask before the first command
\* arrives.  Every valid command can be encoded, the largest one included, and
\* the device decodes what was sent, with and without a source identity,
\* whatever the order its fragments arrive in and whatever an earlier message
\* left in the reassembly buffer.
CommandRoundTrip ==
  arrived = 0 /\ step = "message" /\ optional = {} =>
    \A c \in SampleCommands : CommandSurvives(c)

\* Every consistent result without an error can be encoded, so progress and
\* success are never replaced by complete_result_'s encoding fallback; and the
\* client decodes what was encoded, from fragments in any order.
ResultRoundTrip ==
  arrived = 0 /\ step = "message" /\ optional = {} =>
    \A r \in SampleResults : ResultSurvives(r)

\* Every acknowledged command is answered with an outcome: it is not dropped
\* between the lanes, and it does not wait for ever behind a running one.
EveryCommandAnswered ==
  \A c \in Commands : arrived >= c ~> Outcome(c)
=============================================================================
