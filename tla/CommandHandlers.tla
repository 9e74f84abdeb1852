--------------------------- MODULE CommandHandlers ---------------------------
(***************************************************************************)
(* The two kinds of NetCommandHandler an inbound dispatcher drives:        *)
(* DeclarativeCommandHandler (declarative_command_handler.h) of the YAML   *)
(* bindings, and an application handler that keeps an operation and its    *)
(* interrupt in an InterruptibleTransactionPair.  The pair is this         *)
(* repository's; the handler around it is external, modelled by the        *)
(* interface it implements and by docs/interruptible-command-concurrency.  *)
(*                                                                         *)
(* A handler is a record and its methods are operators on it.  A result is *)
(* its status; texts, latency and snapshots are left out.  External too:   *)
(* the light behind the completion probe.                                  *)
(***************************************************************************)
EXTENDS Integers, Sequences

CONSTANTS
  MaxCommands,        \* bound: inbound commands, numbered as they arrive
  Keys,               \* peer, device, resource, source id and source boot
  CompletionTimeout,  \* the binding's completion timeout; 0 is accepted
  NoResult

ASSUME HandlerAssumption == CompletionTimeout \in Nat /\ MaxCommands \in Nat

Commands == 1 .. MaxCommands
NoTransaction == 0

\* A decoded NetCommand: a `stop' or something else, from and for whom, and
\* whether the device has a binding for it, with or without a probe; or one
\* addressed to another device.  A payload that cannot be decoded leaves the
\* empty command.
NetCommands ==
  [kind : {"unbound", "plain", "probed"}, name : {"stop", "move"}, key : Keys]
Foreign == [kind |-> "foreign", name |-> "move", key |-> "foreign"]
Empty == [kind |-> "malformed", name |-> "none", key |-> "none"]

-----------------------------------------------------------------------------
(* DeclarativeCommandHandler                                               *)

IdleDeclarative ==
  [kind |-> "declarative", binding |-> "none", tx |-> NoTransaction,
   age |-> 0, result |-> NoResult]

\* Mutant: the device id of the request is not compared.
DeclarativeStatusAnyDevice(h, command) ==
  IF h.result # NoResult \/ h.binding # "none" THEN "BUSY"
  ELSE IF command.kind = "unbound" THEN "INVALID_COMMAND" ELSE "STARTED"

DeclarativeStatus(h, command) ==
  IF h.result # NoResult \/ h.binding # "none" THEN "BUSY"
  ELSE CASE command.kind = "foreign" -> "REJECTED"
         [] command.kind = "unbound" -> "INVALID_COMMAND"
         [] OTHER -> "STARTED"

\* Mutant: no progress is reported.
DeclarativeStartSilent(h, tx, command) ==
  [h EXCEPT !.binding = command.kind, !.tx = tx, !.age = 0,
            !.result = IF command.kind = "plain" THEN "SUCCEEDED" ELSE NoResult]

\* start(): the automation is triggered; without a probe that is success, with
\* one it is progress.
DeclarativeStart(h, tx, command) ==
  [h EXCEPT !.binding = command.kind, !.tx = tx, !.age = 0,
            !.result = IF command.kind = "plain" THEN "SUCCEEDED"
                                                 ELSE "IN_PROGRESS"]

\* loop(): the probe is asked before the completion timeout is looked at.
DeclarativeLoop(h, completed) ==
  IF h.binding # "probed" \/ h.result # NoResult THEN h
  ELSE IF completed THEN [h EXCEPT !.result = "SUCCEEDED"]
  ELSE IF h.age >= CompletionTimeout THEN [h EXCEPT !.result = "FAILED"]
  ELSE h

\* take_result(): a terminal result releases the binding.
DeclarativeTake(h) ==
  IF h.result = "IN_PROGRESS" THEN [h EXCEPT !.result = NoResult]
  ELSE IdleDeclarative

-----------------------------------------------------------------------------
(* InterruptibleTransactionPair                                            *)

IdlePair ==
  [operation |-> NoTransaction, interrupt |-> NoTransaction,
   interrupted |-> FALSE]

\* Mutant: an operation may begin while an interrupt of the last one is open.
MayBeginOperationBesideStop(p) == p.operation = NoTransaction

\* begin_operation
MayBeginOperation(p) ==
  p.operation = NoTransaction /\ p.interrupt = NoTransaction
BeginOperation(p, tx) ==
  [p EXCEPT !.operation = tx, !.interrupted = FALSE]

\* begin_interrupt
MayBeginInterrupt(p, tx) ==
  p.operation \notin {NoTransaction, tx} /\ p.interrupt = NoTransaction
BeginInterrupt(p, tx) == [p EXCEPT !.interrupt = tx]

\* finish_interrupt and finish_operation leave the pair alone when the slot
\* holds another transaction.
FinishInterrupt(p, tx, stopped) ==
  IF tx # p.interrupt THEN p
  ELSE [p EXCEPT !.interrupt = NoTransaction,
                 !.interrupted = @ \/ (stopped /\ p.operation # NoTransaction)]
FinishOperation(p, tx) ==
  IF tx # p.operation THEN p
  ELSE [p EXCEPT !.operation = NoTransaction, !.interrupted = FALSE]

-----------------------------------------------------------------------------
(* The application handler around the pair                                 *)

IdleApplication ==
  [kind |-> "application", pair |-> IdlePair, key |-> "none",
   results |-> [c \in Commands |-> NoResult]]

\* A stop of the running operation interrupts it; anything else is an
\* operation of its own.
Interrupts(h, command) ==
  /\ h.pair.operation # NoTransaction
  /\ command.name = "stop" /\ command.key = h.key

ApplicationStatus(h, tx, command) ==
  IF \/ Interrupts(h, command) /\ MayBeginInterrupt(h.pair, tx)
     \/ ~Interrupts(h, command) /\ MayBeginOperation(h.pair)
  THEN "STARTED" ELSE "BUSY"

\* An operation announces itself with IN_PROGRESS.
ApplicationStart(h, tx, command) ==
  IF Interrupts(h, command)
  THEN [h EXCEPT !.pair = BeginInterrupt(@, tx)]
  ELSE [h EXCEPT !.pair = BeginOperation(@, tx), !.key = command.key,
                 !.results[tx] = "IN_PROGRESS"]

\* The stop succeeds or fails; the operation ends, as INTERRUPTED when it was.
StopEnds(h, stopped) ==
  LET tx == h.pair.interrupt IN
  [h EXCEPT !.results[tx] = IF stopped THEN "SUCCEEDED" ELSE "FAILED",
            !.pair = FinishInterrupt(@, tx, stopped)]
OperationEnds(h) ==
  LET tx == h.pair.operation IN
  [h EXCEPT !.results[tx] = IF h.pair.interrupted THEN "INTERRUPTED"
                                                  ELSE "SUCCEEDED",
            !.pair = FinishOperation(@, tx)]

ApplicationLoop(h) ==
  {h}
  \cup { StopEnds(h, stopped) : stopped \in
           IF h.pair.interrupt = NoTransaction THEN {} ELSE BOOLEAN }
  \cup IF \/ h.pair.operation = NoTransaction
          \/ h.results[h.pair.operation] # NoResult
       THEN {} ELSE { OperationEnds(h) }

-----------------------------------------------------------------------------
(* The interface NetCommandHandler                                         *)

StartStatus(h, tx, command) ==
  IF h.kind = "declarative" THEN DeclarativeStatus(h, command)
  ELSE ApplicationStatus(h, tx, command)

Start(h, tx, command) ==
  IF h.kind = "declarative" THEN DeclarativeStart(h, tx, command)
  ELSE ApplicationStart(h, tx, command)

\* What loop() may leave behind.
Loops(h) ==
  IF h.kind = "declarative"
  THEN { DeclarativeLoop(h, completed) : completed \in BOOLEAN }
  ELSE ApplicationLoop(h)

\* Mutant: has_result(transaction_id) as the base class has it, ignoring the
\* identifier.
ResultForAny(h, tx) ==
  IF h.kind = "declarative"
  THEN IF h.result = NoResult THEN {} ELSE {h.tx}
  ELSE { c \in Commands : h.results[c] # NoResult }

\* has_result(transaction_id): whose result the asking lane would be given.
\* The declarative handler inherits the default, which ignores the identifier.
ResultFor(h, tx) ==
  IF h.kind = "declarative"
  THEN IF h.result = NoResult THEN {} ELSE {h.tx}
  ELSE IF h.results[tx] = NoResult THEN {} ELSE {tx}

ResultOf(h, tx) == IF h.kind = "declarative" THEN h.result ELSE h.results[tx]

Take(h, tx) ==
  IF h.kind = "declarative" THEN DeclarativeTake(h)
  ELSE [h EXCEPT !.results[tx] = NoResult]

\* Mutant: cancel has no effect.
CancelNothing(h, tx) == h

Cancel(h, tx) ==
  CASE h.kind = "declarative" /\ h.tx = tx -> IdleDeclarative
    [] h.kind = "declarative" /\ h.tx # tx -> h
    [] OTHER -> [h EXCEPT !.results[tx] = NoResult,
                          !.pair = FinishOperation(
                                     FinishInterrupt(@, tx, FALSE), tx)]

\* The transactions a handler is still working on.
Working(h) ==
  (IF h.kind = "declarative" THEN {h.tx}
   ELSE {h.pair.operation, h.pair.interrupt}) \ {NoTransaction}

\* A tick of the clock, up to the only age the handler compares with.
AgedHandler(h) ==
  IF h.kind = "declarative" /\ h.binding # "none" /\ h.age < CompletionTimeout
  THEN [h EXCEPT !.age = @ + 1] ELSE h

DeclarativeHandlers ==
  [kind : {"declarative"}, binding : {"none", "plain", "probed"},
   tx : Commands \cup {NoTransaction}, age : 0 .. CompletionTimeout,
   result : {"IN_PROGRESS", "SUCCEEDED", "FAILED", NoResult}]
ApplicationHandlers ==
  [kind : {"application"}, key : Keys \cup {"none", "foreign"},
   pair : [operation : Commands \cup {NoTransaction},
           interrupt : Commands \cup {NoTransaction}, interrupted : BOOLEAN],
   results : [Commands -> {"IN_PROGRESS", "SUCCEEDED", "FAILED",
                           "INTERRUPTED", NoResult}]]
AnyHandler == DeclarativeHandlers \cup ApplicationHandlers
=============================================================================
