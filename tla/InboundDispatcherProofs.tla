----------------------- MODULE InboundDispatcherProofs -----------------------
(***************************************************************************)
(* The inbound lanes and the handler behind them, for every number of      *)
(* commands, every set of sources and every pair of deadlines.             *)
(*                                                                         *)
(* The invariant has four parts.  Core: each command is in at most one     *)
(* lane, and the handler's operation, interrupt or binding is one that a   *)
(* lane has open.  Reporting: what was reported of a command that a lane   *)
(* still has is progress only.  Announcing: a probed command of which      *)
(* nothing was reported has its progress collected or about to be.         *)
(* Stopping: a stop that succeeded on the interrupt lane is answered, or   *)
(* its answer is staged before the next result is sent.                    *)
(***************************************************************************)
EXTENDS InboundDispatcher, CodecProofs, TLAPS

-----------------------------------------------------------------------------
(* The declarative handler                                                 *)

\* An idle declarative handler that starts a command works on that command; a
\* probed one announces it at once.
LEMMA DeclarativeStarts ==
  ASSUME NEW tx \in Commands,
         NEW command \in NetCommands \cup {Foreign},
         DeclarativeStatus(IdleDeclarative, command) = "STARTED",
         NEW g, g = DeclarativeStart(IdleDeclarative, tx, command)
  PROVE  /\ g \in DeclarativeHandlers
         /\ g.tx = tx /\ g.binding = command.kind /\ g.binding # "none"
         /\ command.kind = "probed" => g.result = "IN_PROGRESS"
<1>1. command.kind \in {"plain", "probed"}
  BY DispatcherAssumption
  DEF DeclarativeStatus, IdleDeclarative, NetCommands, Foreign
<1>2. 0 \in 0 .. CompletionTimeout
  BY HandlerAssumption
<1>3. IdleDeclarative \in DeclarativeHandlers
  BY <1>2 DEF IdleDeclarative, DeclarativeHandlers
<1>4. PICK r : r = IF command.kind = "plain" THEN "SUCCEEDED" ELSE "IN_PROGRESS"
  OBVIOUS
<1>5. /\ r \in {"SUCCEEDED", "IN_PROGRESS"}
      /\ command.kind = "probed" => r = "IN_PROGRESS"
  BY <1>4
<1>6. g = [IdleDeclarative EXCEPT !.binding = command.kind, !.tx = tx, !.age = 0,
                                  !.result = r]
  BY <1>4 DEF DeclarativeStart
<1> QED
  BY <1>1, <1>2, <1>3, <1>5, <1>6 DEF DeclarativeHandlers

\* The loop of a declarative handler keeps its command, and leaves a result
\* that waits alone.
LEMMA DeclarativeLoops ==
  ASSUME NEW h \in DeclarativeHandlers, NEW completed \in BOOLEAN
  PROVE  LET g == DeclarativeLoop(h, completed) IN
         /\ g \in DeclarativeHandlers
         /\ g.tx = h.tx /\ g.binding = h.binding
         /\ h.result # NoResult => g = h
BY DEF DeclarativeLoop, DeclarativeHandlers

\* Taking progress keeps the command, taking an outcome releases it.
LEMMA DeclarativeTakes ==
  ASSUME NEW h \in DeclarativeHandlers
  PROVE  LET g == DeclarativeTake(h) IN
         /\ g \in DeclarativeHandlers
         /\ IF h.result = "IN_PROGRESS"
            THEN g.tx = h.tx /\ g.binding = h.binding
            ELSE g = IdleDeclarative
BY HandlerAssumption
DEF DeclarativeTake, DeclarativeHandlers, IdleDeclarative, NoTransaction

-----------------------------------------------------------------------------
(* The application handler                                                 *)

\* From h to g the command tx began to interrupt the operation, or to be it.
StopBegun(h, g, tx) ==
  /\ h.pair.operation # NoTransaction /\ h.pair.interrupt = NoTransaction
  /\ g.pair.operation = h.pair.operation /\ g.pair.interrupt = tx
  /\ g.pair.interrupted = h.pair.interrupted
  /\ g.results = h.results
OperationBegun(h, g, tx) ==
  /\ h.pair.operation = NoTransaction /\ h.pair.interrupt = NoTransaction
  /\ g.pair.operation = tx /\ g.pair.interrupt = NoTransaction
  /\ g.pair.interrupted = FALSE
  /\ g.results = [h.results EXCEPT ![tx] = "IN_PROGRESS"]

\* What a started command changes.
LEMMA ApplicationStarts ==
  ASSUME NEW h \in ApplicationHandlers, NEW tx \in Commands,
         NEW command \in NetCommands,
         ApplicationStatus(h, tx, command) = "STARTED",
         NEW g, g = ApplicationStart(h, tx, command)
  PROVE  /\ g \in ApplicationHandlers
         /\ IF Interrupts(h, command) THEN StopBegun(h, g, tx)
                                      ELSE OperationBegun(h, g, tx)
<1>1. CASE Interrupts(h, command)
  <2>1. MayBeginInterrupt(h.pair, tx)
    BY <1>1 DEF ApplicationStatus
  <2>2. g = [h EXCEPT !.pair = BeginInterrupt(@, tx)]
    BY <1>1 DEF ApplicationStart
  <2>3. PICK p : p = BeginInterrupt(h.pair, tx)
    OBVIOUS
  <2>4. /\ p \in [operation : Commands \cup {NoTransaction},
                  interrupt : Commands \cup {NoTransaction}, interrupted : BOOLEAN]
        /\ p.operation = h.pair.operation /\ p.interrupt = tx
        /\ p.interrupted = h.pair.interrupted
    BY <2>3 DEF BeginInterrupt, ApplicationHandlers
  <2> QED
    BY <1>1, <2>1, <2>2, <2>3, <2>4
    DEF ApplicationHandlers, Interrupts, MayBeginInterrupt, StopBegun
<1>2. CASE ~Interrupts(h, command)
  <2>1. MayBeginOperation(h.pair)
    BY <1>2 DEF ApplicationStatus
  <2>2. g = [h EXCEPT !.pair = BeginOperation(@, tx), !.key = command.key,
                      !.results[tx] = "IN_PROGRESS"]
    BY <1>2 DEF ApplicationStart
  <2>3. PICK p : p = BeginOperation(h.pair, tx)
    OBVIOUS
  <2>4. /\ p \in [operation : Commands \cup {NoTransaction},
                  interrupt : Commands \cup {NoTransaction}, interrupted : BOOLEAN]
        /\ p.operation = tx /\ p.interrupt = h.pair.interrupt
        /\ p.interrupted = FALSE
    BY <2>3 DEF BeginOperation, ApplicationHandlers
  <2>5. command.key \in Keys
    BY DEF NetCommands
  <2>6. g = [kind |-> h.kind, key |-> command.key, pair |-> p,
             results |-> [h.results EXCEPT ![tx] = "IN_PROGRESS"]]
    BY <2>2, <2>3 DEF ApplicationHandlers
  <2>7. [h.results EXCEPT ![tx] = "IN_PROGRESS"]
          \in [Commands -> {"IN_PROGRESS", "SUCCEEDED", "FAILED", "INTERRUPTED",
                            NoResult}]
    BY DEF ApplicationHandlers
  <2>8. g \in ApplicationHandlers
    BY <2>4, <2>5, <2>6, <2>7 DEF ApplicationHandlers
  <2> QED
    BY <1>2, <2>1, <2>4, <2>6, <2>8 DEF MayBeginOperation, OperationBegun
<1> QED
  BY <1>1, <1>2

Pairs ==
  [operation : Commands \cup {NoTransaction},
   interrupt : Commands \cup {NoTransaction}, interrupted : BOOLEAN]
HandlerResults == {"IN_PROGRESS", "SUCCEEDED", "FAILED", "INTERRUPTED", NoResult}

\* A handler with another well-formed pair and another result is a handler.
Updated(h, tx, r, p) == [h EXCEPT !.results[tx] = r, !.pair = p]

LEMMA ApplicationUpdated ==
  ASSUME NEW h \in ApplicationHandlers, NEW p \in Pairs, NEW tx \in Commands,
         NEW r \in HandlerResults
  PROVE  /\ Updated(h, tx, r, p) \in ApplicationHandlers
         /\ Updated(h, tx, r, p).pair = p
         /\ Updated(h, tx, r, p).results = [h.results EXCEPT ![tx] = r]
<1> DEFINE g == Updated(h, tx, r, p)
<1>1. [h.results EXCEPT ![tx] = r] \in [Commands -> HandlerResults]
  BY DEF ApplicationHandlers, HandlerResults
<1>2. g = [h EXCEPT !.results = [h.results EXCEPT ![tx] = r], !.pair = p]
  BY DEF ApplicationHandlers, Updated
<1> QED
  BY <1>1, <1>2 DEF ApplicationHandlers, Pairs, HandlerResults

\* From h to g the interrupt ended, or the operation did.
StopEnded(h, g, stopped) ==
  /\ h.pair.interrupt # NoTransaction
  /\ g.pair.operation = h.pair.operation /\ g.pair.interrupt = NoTransaction
  /\ g.pair.interrupted <=>
       h.pair.interrupted \/ (stopped /\ h.pair.operation # NoTransaction)
  /\ g.results = [h.results EXCEPT ![h.pair.interrupt] =
                    IF stopped THEN "SUCCEEDED" ELSE "FAILED"]
OperationEnded(h, g) ==
  /\ h.pair.operation # NoTransaction
  /\ h.results[h.pair.operation] = NoResult
  /\ g.pair.operation = NoTransaction
  /\ g.pair.interrupt = h.pair.interrupt /\ ~g.pair.interrupted
  /\ g.results = [h.results EXCEPT ![h.pair.operation] =
                    IF h.pair.interrupted THEN "INTERRUPTED" ELSE "SUCCEEDED"]

LEMMA ApplicationLoops ==
  ASSUME NEW h \in ApplicationHandlers, NEW g \in ApplicationLoop(h)
  PROVE  /\ g \in ApplicationHandlers
         /\ \/ g = h
            \/ \E stopped \in BOOLEAN : StopEnded(h, g, stopped)
            \/ OperationEnded(h, g)
<1>1. /\ h.pair \in Pairs
      /\ h.pair.operation \in Commands \cup {NoTransaction}
      /\ h.pair.interrupt \in Commands \cup {NoTransaction}
  BY DEF ApplicationHandlers, Pairs
<1>2. \/ g = h
      \/ /\ h.pair.interrupt # NoTransaction
         /\ \E stopped \in BOOLEAN : g = StopEnds(h, stopped)
      \/ /\ h.pair.operation # NoTransaction
         /\ h.results[h.pair.operation] = NoResult
         /\ g = OperationEnds(h)
  BY DEF ApplicationLoop
<1>3. ASSUME h.pair.interrupt # NoTransaction, NEW stopped \in BOOLEAN,
             g = StopEnds(h, stopped)
      PROVE  g \in ApplicationHandlers /\ StopEnded(h, g, stopped)
  <2>1. PICK p : p = FinishInterrupt(h.pair, h.pair.interrupt, stopped)
    OBVIOUS
  <2>2. p = [h.pair EXCEPT !.interrupt = NoTransaction,
                           !.interrupted = @ \/ (stopped /\ h.pair.operation # NoTransaction)]
    BY <2>1 DEF FinishInterrupt
  <2>3. /\ p \in Pairs /\ p.operation = h.pair.operation
        /\ p.interrupt = NoTransaction
    BY <1>1, <2>2 DEF Pairs
  <2>4. p.interrupted <=>
          h.pair.interrupted \/ (stopped /\ h.pair.operation # NoTransaction)
    BY <1>1, <2>2 DEF Pairs
  <2>5. PICK r : r = IF stopped THEN "SUCCEEDED" ELSE "FAILED"
    OBVIOUS
  <2>6. r \in HandlerResults
    BY <2>5 DEF HandlerResults
  <2>7. g = Updated(h, h.pair.interrupt, r, p)
    BY <1>3, <2>1, <2>5 DEF StopEnds, ApplicationHandlers, Updated
  <2>8. /\ g \in ApplicationHandlers /\ g.pair = p
        /\ g.results = [h.results EXCEPT ![h.pair.interrupt] = r]
    BY <1>1, <1>3, <2>3, <2>6, <2>7, ApplicationUpdated
  <2> QED
    BY <1>3, <2>3, <2>4, <2>5, <2>8 DEF StopEnded
<1>4. ASSUME h.pair.operation # NoTransaction, g = OperationEnds(h),
             h.results[h.pair.operation] = NoResult
      PROVE  g \in ApplicationHandlers /\ OperationEnded(h, g)
  <2>1. PICK p : p = FinishOperation(h.pair, h.pair.operation)
    OBVIOUS
  <2>2. p = [h.pair EXCEPT !.operation = NoTransaction, !.interrupted = FALSE]
    BY <2>1 DEF FinishOperation
  <2>3. /\ p \in Pairs /\ p.operation = NoTransaction
        /\ p.interrupt = h.pair.interrupt /\ p.interrupted = FALSE
    BY <1>1, <2>2 DEF Pairs
  <2>4. PICK r : r = IF h.pair.interrupted THEN "INTERRUPTED" ELSE "SUCCEEDED"
    OBVIOUS
  <2>5. r \in HandlerResults
    BY <2>4 DEF HandlerResults
  <2>6. g = Updated(h, h.pair.operation, r, p)
    BY <1>4, <2>1, <2>4 DEF OperationEnds, ApplicationHandlers, Updated
  <2>7. /\ g \in ApplicationHandlers /\ g.pair = p
        /\ g.results = [h.results EXCEPT ![h.pair.operation] = r]
    BY <1>1, <1>4, <2>3, <2>5, <2>6, ApplicationUpdated
  <2> QED
    BY <1>4, <2>3, <2>4, <2>7 DEF OperationEnded
<1> QED
  BY <1>2, <1>3, <1>4

\* Taking a result leaves the pair alone.
LEMMA ApplicationTakes ==
  ASSUME NEW h \in ApplicationHandlers, NEW tx \in Commands, NEW g,
         g = Take(h, tx)
  PROVE  /\ g \in ApplicationHandlers
         /\ g.pair = h.pair /\ g.results = [h.results EXCEPT ![tx] = NoResult]
<1>1. g = [h EXCEPT !.results[tx] = NoResult]
  BY DEF Take, ApplicationHandlers
<1>2. g = Updated(h, tx, NoResult, h.pair)
  BY <1>1 DEF ApplicationHandlers, Updated
<1>3. h.pair \in Pairs
  BY DEF ApplicationHandlers, Pairs
<1>4. NoResult \in HandlerResults
  BY DEF HandlerResults
<1> QED
  BY <1>2, <1>3, <1>4, ApplicationUpdated

\* Cancelling a transaction takes it out of the pair and drops its result.
Without(tx, other) == IF other = tx THEN NoTransaction ELSE other

LEMMA ApplicationCancels ==
  ASSUME NEW h \in ApplicationHandlers, NEW tx \in Commands, NEW g,
         g = Cancel(h, tx)
  PROVE  /\ g \in ApplicationHandlers
         /\ g.pair.operation = Without(tx, h.pair.operation)
         /\ g.pair.interrupt = Without(tx, h.pair.interrupt)
         /\ g.pair.interrupted => h.pair.interrupted /\ h.pair.operation # tx
         /\ g.results = [h.results EXCEPT ![tx] = NoResult]
<1>1. h.pair \in Pairs
  BY DEF ApplicationHandlers, Pairs
<1>2. PICK p : p = FinishInterrupt(h.pair, tx, FALSE)
  OBVIOUS
<1>3. /\ p \in Pairs /\ p.operation = h.pair.operation
      /\ p.interrupt = Without(tx, h.pair.interrupt)
  <2>1. CASE tx # h.pair.interrupt
    BY <1>1, <1>2, <2>1 DEF FinishInterrupt, Without
  <2>2. CASE tx = h.pair.interrupt
    BY <1>1, <1>2, <2>2 DEF FinishInterrupt, Without, Pairs
  <2> QED
    BY <2>1, <2>2
<1>4. p.interrupted <=> h.pair.interrupted
  BY <1>1, <1>2 DEF FinishInterrupt, Pairs
<1>5. PICK q : q = FinishOperation(p, tx)
  OBVIOUS
<1>6. /\ q \in Pairs /\ q.interrupt = p.interrupt
      /\ q.operation = Without(tx, p.operation)
  BY <1>3, <1>5 DEF FinishOperation, Without, Pairs
<1>7. q.interrupted => p.interrupted /\ p.operation # tx
  <2>1. CASE tx # p.operation
    BY <1>5, <2>1 DEF FinishOperation
  <2>2. CASE tx = p.operation
    <3>1. q.interrupted = FALSE
      BY <1>3, <1>5, <2>2 DEF FinishOperation, Pairs
    <3> QED
      BY <3>1
  <2> QED
    BY <2>1, <2>2
<1>8. g = Updated(h, tx, NoResult, q)
  BY <1>2, <1>5 DEF Cancel, ApplicationHandlers, Updated
<1>9. NoResult \in HandlerResults
  BY DEF HandlerResults
<1>10. /\ g \in ApplicationHandlers /\ g.pair = q
       /\ g.results = [h.results EXCEPT ![tx] = NoResult]
  BY <1>6, <1>8, <1>9, ApplicationUpdated
<1> QED
  BY <1>3, <1>4, <1>6, <1>7, <1>10

-----------------------------------------------------------------------------
(* The lanes.  T is the set of commands that have left the runtime.        *)

\* A command is open while its lane waits for the handler, or for the sender to
\* take its progress.
Open(d) ==
  \/ d.state = "ACTIVE"
  \/ d.state = "RESULT_READY" /\ d.pending = "IN_PROGRESS"

LaneOK(d, T) ==
  /\ d \in AnyLane
  /\ d.state = "IDLE" => d.tx = NoTransaction /\ d.pending = NoResult
  /\ d.state # "IDLE" => d.tx \in T
  /\ d.state = "ACTIVE" => d.pending = NoResult
  /\ d.state = "RESULT_READY" => d.pending \in Statuses \ {"INVALID"}

\* No two lanes have the same command.
LanesOK(L, T) ==
  /\ L \in [Lanes -> AnyLane]
  /\ T \subseteq Commands
  /\ \A l \in Lanes : LaneOK(L[l], T)
  /\ \A l, m \in Lanes : L[l].tx = L[m].tx /\ L[l].tx # NoTransaction => l = m

LEMMA IdleLaneOK == ASSUME NEW T PROVE LaneOK(IdleLane, T)
<1>1. 0 \in 0 .. CommandTimeout
  BY DispatcherAssumption
<1> QED
  BY <1>1 DEF LaneOK, IdleLane, AnyLane

\* A lane that has a command goes on with it or becomes idle.
LEMMA LaneUpdated ==
  ASSUME NEW T, NEW L, LanesOK(L, T), NEW lane \in Lanes, NEW a, LaneOK(a, T),
         a.tx \in {L[lane].tx, NoTransaction}
  PROVE  LanesOK([L EXCEPT ![lane] = a], T)
<1> DEFINE M == [L EXCEPT ![lane] = a]
<1>1. M \in [Lanes -> AnyLane] /\ \A l \in Lanes : LaneOK(M[l], T)
  BY DEF LanesOK, LaneOK
<1>2. ASSUME NEW l \in Lanes, NEW m \in Lanes, M[l].tx = M[m].tx,
             M[l].tx # NoTransaction
      PROVE  l = m
  <2>1. L[l].tx = M[l].tx /\ L[m].tx = M[m].tx
    BY <1>2 DEF LanesOK
  <2> QED
    BY <1>2, <2>1 DEF LanesOK
<1> QED
  BY <1>1, <1>2 DEF LanesOK

\* An idle lane takes a command that was still in the runtime.
LEMMA LaneTakes ==
  ASSUME NEW T, NEW L, LanesOK(L, T), NEW lane \in Lanes,
         L[lane].state = "IDLE", NEW tx \in Commands \ T,
         NEW a, LaneOK(a, T \cup {tx}), a.tx = tx
  PROVE  LanesOK([L EXCEPT ![lane] = a], T \cup {tx})
<1> DEFINE M == [L EXCEPT ![lane] = a]
<1>1. M \in [Lanes -> AnyLane] /\ \A l \in Lanes : LaneOK(M[l], T \cup {tx})
  BY DEF LanesOK, LaneOK
<1>2. \A l \in Lanes \ {lane} : M[l] = L[l] /\ L[l].tx \in T \cup {NoTransaction}
  <2>1. \A d : LaneOK(d, T) => d.tx \in T \cup {NoTransaction}
    BY DEF LaneOK
  <2> QED
    BY <2>1 DEF LanesOK
<1>3. M[lane].tx = tx /\ tx \notin T \cup {NoTransaction}
  BY HandlerAssumption DEF LanesOK, Commands, NoTransaction
<1>4. ASSUME NEW l \in Lanes, NEW m \in Lanes, M[l].tx = M[m].tx,
             M[l].tx # NoTransaction
      PROVE  l = m
  BY <1>2, <1>3, <1>4 DEF LanesOK
<1> QED
  BY <1>1, <1>4 DEF LanesOK

\* stage_result_ keeps the command of the lane.
LEMMA StageOK ==
  ASSUME NEW T, NEW d, LaneOK(d, T), d.state # "IDLE", NEW status \in Statuses,
         NEW a, a = Stage(d, status)
  PROVE  /\ a \in AnyLane /\ a.state = "RESULT_READY" /\ a.pending = status
         /\ a.tx = d.tx /\ a.tx \in T
         /\ status # "INVALID" => LaneOK(a, T)
<1>1. a.state = "RESULT_READY" /\ a.pending = status /\ a.tx = d.tx
  BY DEF LaneOK, AnyLane, Stage
<1>2. a \in AnyLane
  BY DEF LaneOK, AnyLane, Stage
<1> QED
  BY <1>1, <1>2 DEF LaneOK

\* take_result keeps an open command and ends any other.
LEMMA TakeOK ==
  ASSUME NEW T, NEW d, LaneOK(d, T), d.state = "RESULT_READY",
         NEW a, a = DispatcherTake(d)
  PROVE  /\ LaneOK(a, T)
         /\ Open(d) <=> Open(a)
         /\ Open(d) => a.tx = d.tx /\ a.state = "ACTIVE"
         /\ ~Open(d) => a = IdleLane /\ a.tx = NoTransaction
<1>1. CASE d.pending = "IN_PROGRESS"
  <2>1. /\ a \in AnyLane /\ a.tx = d.tx /\ a.state = "ACTIVE"
        /\ a.pending = NoResult
    BY <1>1 DEF LaneOK, AnyLane, DispatcherTake
  <2> QED
    BY <1>1, <2>1 DEF LaneOK, Open
<1>2. CASE d.pending # "IN_PROGRESS"
  <2>1. a = IdleLane
    BY <1>2 DEF DispatcherTake
  <2> QED
    BY <1>2, <2>1, IdleLaneOK DEF Open, IdleLane
<1> QED
  BY <1>1, <1>2

-----------------------------------------------------------------------------
(* How the handler and the lanes fit together.                             *)

\* The declarative handler works exactly on the open command of the main lane.
DeclarativeFits(h, L) ==
  /\ h \in DeclarativeHandlers
  /\ \A l \in Lanes \ {"main"} : ~Open(L[l])
  /\ IF Open(L["main"]) THEN h.tx = L["main"].tx /\ h.binding # "none"
     ELSE h = IdleDeclarative

\* The application handler's operation is open in some lane, and no outcome of
\* it waits; its interrupt is active in some lane, and nothing of it waits.
ApplicationFits(h, L, T) ==
  /\ h \in ApplicationHandlers
  /\ h.pair.operation # NoTransaction =>
       /\ h.pair.operation # h.pair.interrupt
       /\ h.results[h.pair.operation] \in {"IN_PROGRESS", NoResult}
       /\ \E l \in Lanes : L[l].tx = h.pair.operation /\ Open(L[l])
  /\ h.pair.interrupt # NoTransaction =>
       /\ h.results[h.pair.interrupt] = NoResult
       /\ \E l \in Lanes : L[l].tx = h.pair.interrupt /\ L[l].state = "ACTIVE"
  /\ \A c \in Commands \ T : h.results[c] = NoResult

\* The operation and the interrupt have left the runtime.
LEMMA PairLeft ==
  ASSUME NEW T, NEW L, LanesOK(L, T), NEW h, ApplicationFits(h, L, T)
  PROVE  /\ h.pair.operation \in T \cup {NoTransaction}
         /\ h.pair.interrupt \in T \cup {NoTransaction}
<1>1. \A l \in Lanes : L[l].tx \in T \cup {NoTransaction}
  <2>1. \A d : LaneOK(d, T) => d.tx \in T \cup {NoTransaction}
    BY DEF LaneOK
  <2> QED
    BY <2>1 DEF LanesOK
<1> QED
  BY <1>1 DEF ApplicationFits

\* The handler's loop is called by any lane and keeps the fit.
LEMMA LoopFits ==
  ASSUME NEW T, NEW L, LanesOK(L, T), NEW h, ApplicationFits(h, L, T),
         NEW g \in ApplicationLoop(h)
  PROVE  ApplicationFits(g, L, T)
<1>1. h \in ApplicationHandlers
  BY DEF ApplicationFits
<1>2. g \in ApplicationHandlers
  BY <1>1, ApplicationLoops
<1>3. CASE g = h
  BY <1>3
<1>4. ASSUME NEW stopped \in BOOLEAN, StopEnded(h, g, stopped)
      PROVE  ApplicationFits(g, L, T)
  <2>1. h.pair.interrupt \in T /\ T \subseteq Commands
    BY <1>4, PairLeft DEF StopEnded, LanesOK
  <2>2. \A c \in Commands \ {h.pair.interrupt} : g.results[c] = h.results[c]
    BY <1>1, <1>4, <2>1 DEF StopEnded, ApplicationHandlers
  <2>3. \A c \in Commands \ T : g.results[c] = NoResult
    BY <2>1, <2>2 DEF ApplicationFits
  <2>4. g.pair.operation = h.pair.operation /\ g.pair.interrupt = NoTransaction
    BY <1>4 DEF StopEnded
  <2>5. g.pair.operation # NoTransaction =>
          g.results[g.pair.operation] = h.results[h.pair.operation]
    BY <1>1, <2>2, <2>4 DEF ApplicationFits, ApplicationHandlers
  <2> QED
    BY <1>2, <2>3, <2>4, <2>5 DEF ApplicationFits
<1>5. CASE OperationEnded(h, g)
  <2>1. h.pair.operation \in T /\ T \subseteq Commands
    BY <1>5, PairLeft DEF OperationEnded, LanesOK
  <2>2. \A c \in Commands \ {h.pair.operation} : g.results[c] = h.results[c]
    BY <1>1, <1>5, <2>1 DEF OperationEnded, ApplicationHandlers
  <2>3. \A c \in Commands \ T : g.results[c] = NoResult
    BY <2>1, <2>2 DEF ApplicationFits
  <2>4. g.pair.interrupt = h.pair.interrupt /\ g.pair.operation = NoTransaction
    BY <1>5 DEF OperationEnded
  <2>5. g.pair.interrupt # NoTransaction =>
          g.results[g.pair.interrupt] = h.results[h.pair.interrupt]
    BY <1>1, <1>5, <2>2, <2>4
    DEF ApplicationFits, ApplicationHandlers, OperationEnded
  <2> QED
    BY <1>2, <2>3, <2>4, <2>5 DEF ApplicationFits
<1> QED
  BY <1>1, <1>3, <1>4, <1>5, ApplicationLoops

\* A lane that stages the result waiting for its command leaves an operation
\* that announced itself open.
LEMMA TakeFits ==
  ASSUME NEW T, NEW L, LanesOK(L, T), NEW h, ApplicationFits(h, L, T),
         NEW lane \in Lanes, L[lane].state = "ACTIVE",
         NEW r, r = h.results[L[lane].tx], r # NoResult,
         NEW g, g = Take(h, L[lane].tx),
         NEW M, M = [L EXCEPT ![lane] = Stage(L[lane], r)]
  PROVE  ApplicationFits(g, M, T)
<1> DEFINE d == L[lane]
           a == Stage(d, r)
<1>1. h \in ApplicationHandlers /\ LaneOK(d, T) /\ d.tx \in T /\ T \subseteq Commands
  BY DEF ApplicationFits, LanesOK, LaneOK
<1>2. /\ g \in ApplicationHandlers /\ g.pair = h.pair
      /\ g.results = [h.results EXCEPT ![d.tx] = NoResult]
  BY <1>1, ApplicationTakes
<1>3. /\ a.tx = d.tx /\ a.state = "RESULT_READY" /\ a.pending = h.results[d.tx]
  <2>1. h.results[d.tx] \in Statuses
    BY <1>1 DEF ApplicationHandlers, Statuses
  <2> QED
    BY <1>1, <2>1, StageOK
<1>4. \A l \in Lanes \ {lane} : M[l] = L[l]
  BY DEF LanesOK
<1>5. M[lane] = a
  BY DEF LanesOK
<1>6. /\ \A c \in Commands \ {d.tx} : g.results[c] = h.results[c]
      /\ g.results[d.tx] = NoResult
  BY <1>1, <1>2 DEF ApplicationHandlers
<1>7. h.pair.operation = d.tx /\ d.tx # NoTransaction => Open(M[lane])
  BY <1>3, <1>5 DEF ApplicationFits, Open
<1>8. h.pair.interrupt # NoTransaction => h.pair.interrupt # d.tx
  BY DEF ApplicationFits
<1>9. d.tx # NoTransaction
  BY <1>1, HandlerAssumption DEF Commands, NoTransaction
<1>10. h.pair.operation # NoTransaction =>
         \E l \in Lanes : M[l].tx = h.pair.operation /\ Open(M[l])
  <2>1. CASE h.pair.operation = d.tx
    BY <1>3, <1>5, <1>7, <1>9, <2>1
  <2>2. CASE h.pair.operation # d.tx
    BY <1>4, <2>2 DEF ApplicationFits
  <2> QED
    BY <2>1, <2>2
<1>11. h.pair.interrupt # NoTransaction =>
         \E l \in Lanes : M[l].tx = h.pair.interrupt /\ M[l].state = "ACTIVE"
  BY <1>4, <1>8 DEF ApplicationFits
<1>12. \A c \in Commands \ T : g.results[c] = NoResult
  BY <1>6 DEF ApplicationFits
<1>13. h.pair.operation # NoTransaction =>
         g.results[h.pair.operation] \in {"IN_PROGRESS", NoResult}
  BY <1>1, <1>6 DEF ApplicationFits, ApplicationHandlers
<1>14. h.pair.interrupt # NoTransaction => g.results[h.pair.interrupt] = NoResult
  BY <1>1, <1>6 DEF ApplicationFits, ApplicationHandlers
<1> QED
  BY <1>2, <1>10, <1>11, <1>12, <1>13, <1>14 DEF ApplicationFits

\* A lane whose command expired cancels it in the handler.
LEMMA CancelFits ==
  ASSUME NEW T, NEW L, LanesOK(L, T), NEW h, ApplicationFits(h, L, T),
         NEW lane \in Lanes, L[lane].state = "ACTIVE",
         NEW g, g = Cancel(h, L[lane].tx), NEW a
  PROVE  ApplicationFits(g, [L EXCEPT ![lane] = a], T)
<1> DEFINE d == L[lane]
           M == [L EXCEPT ![lane] = a]
<1>1. /\ h \in ApplicationHandlers /\ LaneOK(d, T) /\ d.tx \in T
      /\ T \subseteq Commands /\ d.tx # NoTransaction
  <2>1. d.tx \in T /\ T \subseteq Commands
    BY DEF LanesOK, LaneOK
  <2> QED
    BY <2>1, HandlerAssumption DEF ApplicationFits, LanesOK, Commands, NoTransaction
<1>2. /\ g \in ApplicationHandlers
      /\ g.pair.operation = Without(d.tx, h.pair.operation)
      /\ g.pair.interrupt = Without(d.tx, h.pair.interrupt)
      /\ g.results = [h.results EXCEPT ![d.tx] = NoResult]
  BY <1>1, ApplicationCancels
<1>3. \A l \in Lanes \ {lane} : M[l] = L[l]
  BY DEF LanesOK
<1>4. /\ \A c \in Commands \ {d.tx} : g.results[c] = h.results[c]
      /\ g.results[d.tx] = NoResult
  BY <1>1, <1>2 DEF ApplicationHandlers
<1>5. /\ g.pair.operation # NoTransaction =>
           g.pair.operation = h.pair.operation /\ h.pair.operation # d.tx
      /\ g.pair.interrupt # NoTransaction =>
           g.pair.interrupt = h.pair.interrupt /\ h.pair.interrupt # d.tx
  BY <1>2 DEF Without
<1>6. g.pair.operation # NoTransaction =>
        /\ g.pair.operation # g.pair.interrupt
        /\ g.results[g.pair.operation] \in {"IN_PROGRESS", NoResult}
        /\ \E l \in Lanes : M[l].tx = g.pair.operation /\ Open(M[l])
  BY <1>1, <1>2, <1>3, <1>4, <1>5 DEF ApplicationFits, ApplicationHandlers
<1>7. g.pair.interrupt # NoTransaction =>
        /\ g.results[g.pair.interrupt] = NoResult
        /\ \E l \in Lanes : M[l].tx = g.pair.interrupt /\ M[l].state = "ACTIVE"
  BY <1>1, <1>2, <1>3, <1>4, <1>5 DEF ApplicationFits, ApplicationHandlers
<1>8. \A c \in Commands \ T : g.results[c] = NoResult
  BY <1>4 DEF ApplicationFits
<1> QED
  BY <1>2, <1>6, <1>7, <1>8 DEF ApplicationFits

\* The fit survives a change of the lanes that keeps every open command open
\* and every active lane active.
LEMMA ApplicationKept ==
  ASSUME NEW T, NEW L, NEW h, ApplicationFits(h, L, T), NEW M, NEW U, T \subseteq U,
         \A l \in Lanes : /\ Open(L[l]) => Open(M[l]) /\ M[l].tx = L[l].tx
                          /\ L[l].state = "ACTIVE" => M[l].state = "ACTIVE"
  PROVE  ApplicationFits(h, M, U)
<1>1. h.pair.interrupt # NoTransaction =>
        \E l \in Lanes : M[l].tx = h.pair.interrupt /\ M[l].state = "ACTIVE"
  BY DEF ApplicationFits, Open
<1>2. h.pair.operation # NoTransaction =>
        \E l \in Lanes : M[l].tx = h.pair.operation /\ Open(M[l])
  BY DEF ApplicationFits
<1> QED
  BY <1>1, <1>2 DEF ApplicationFits

LEMMA DeclarativeKept ==
  ASSUME NEW L, NEW h, DeclarativeFits(h, L), NEW M,
         \A l \in Lanes : /\ Open(L[l]) <=> Open(M[l])
                          /\ Open(L[l]) => M[l].tx = L[l].tx
  PROVE  DeclarativeFits(h, M)
BY DEF DeclarativeFits, Lanes

\* A command the application handler started is active in the lane that took
\* it.
LEMMA StartFits ==
  ASSUME NEW T, NEW L, LanesOK(L, T), NEW h, ApplicationFits(h, L, T),
         NEW lane \in Lanes, L[lane].state = "IDLE",
         NEW tx \in Commands \ T, NEW command \in NetCommands,
         ApplicationStatus(h, tx, command) = "STARTED",
         NEW g, g = ApplicationStart(h, tx, command),
         NEW a, a.tx = tx, a.state = "ACTIVE"
  PROVE  ApplicationFits(g, [L EXCEPT ![lane] = a], T \cup {tx})
<1> DEFINE M == [L EXCEPT ![lane] = a]
<1>1. h \in ApplicationHandlers /\ T \subseteq Commands
  BY DEF ApplicationFits, LanesOK
<1>2. M[lane] = a /\ \A l \in Lanes \ {lane} : M[l] = L[l]
  BY DEF LanesOK
<1>3. \A l \in Lanes : Open(L[l]) => l # lane
  BY DEF Open
<1>4. g \in ApplicationHandlers
  BY <1>1, ApplicationStarts
<1>5. tx # NoTransaction /\ h.results[tx] = NoResult
  BY HandlerAssumption DEF Commands, NoTransaction, ApplicationFits
<1>6. h.pair.operation # tx
  BY <1>5, PairLeft
<1>7. CASE Interrupts(h, command)
  <2>1. /\ h.pair.operation # NoTransaction
        /\ g.pair.operation = h.pair.operation /\ g.pair.interrupt = tx
        /\ g.results = h.results
    BY <1>1, <1>7, ApplicationStarts DEF StopBegun
  <2>2. \E l \in Lanes : M[l].tx = g.pair.operation /\ Open(M[l])
    BY <1>2, <1>3, <2>1 DEF ApplicationFits
  <2>3. \E l \in Lanes : M[l].tx = g.pair.interrupt /\ M[l].state = "ACTIVE"
    BY <1>2, <2>1
  <2> QED
    BY <1>4, <1>5, <1>6, <2>1, <2>2, <2>3 DEF ApplicationFits
<1>8. CASE ~Interrupts(h, command)
  <2>1. /\ g.pair.operation = tx /\ g.pair.interrupt = NoTransaction
        /\ g.results = [h.results EXCEPT ![tx] = "IN_PROGRESS"]
    <3>1. OperationBegun(h, g, tx)
      BY <1>1, <1>8, ApplicationStarts
    <3> QED
      BY <3>1 DEF OperationBegun
  <2>2. M[lane].tx = g.pair.operation /\ Open(M[lane])
    BY <1>2, <2>1 DEF Open
  <2>3. /\ g.results[tx] = "IN_PROGRESS"
        /\ \A c \in Commands \ {tx} : g.results[c] = h.results[c]
    BY <1>1, <2>1 DEF ApplicationHandlers
  <2>4. \A c \in Commands \ (T \cup {tx}) : g.results[c] = NoResult
    BY <2>3 DEF ApplicationFits
  <2> QED
    BY <1>4, <1>5, <2>1, <2>2, <2>3, <2>4 DEF ApplicationFits
<1> QED
  BY <1>7, <1>8

-----------------------------------------------------------------------------
(* The invariant, first part: the lanes and the handler.                   *)

\* The commands that have left the runtime.
Left == { c \in Commands : c <= arrived /\ (held # NoMessage => c < arrived) }

Books ==
  /\ step \in {"message", "result"} \cup Lanes
  /\ optional \subseteq Lanes
  /\ arrived \in 0 .. MaxCommands
  /\ held \in [tx : Commands, command : CommandsFor(handler)] \cup {NoMessage}
  /\ held # NoMessage => held.tx = arrived
  /\ LanesOK(lanes, Left)

HandlerFits ==
  \/ DeclarativeFits(handler, lanes)
  \/ ApplicationFits(handler, lanes, Left)

Core == Books /\ HandlerFits

\* Which handler it is shows in its kind.
LEMMA HandlerKind ==
  /\ \A h \in DeclarativeHandlers : h.kind = "declarative"
  /\ \A h \in ApplicationHandlers : h.kind = "application"
BY DEF DeclarativeHandlers, ApplicationHandlers

\* The commands a handler may be given depend on its kind only.
LEMMA SameCommands ==
  ASSUME NEW h, NEW g, h.kind = g.kind
  PROVE  CommandsFor(h) = CommandsFor(g)
BY DEF CommandsFor

LEMMA KnownCommands ==
  ASSUME NEW h, NEW command \in CommandsFor(h)
  PROVE  /\ command \in NetCommands \cup {Foreign, Empty}
         /\ h.kind = "application" /\ command # Empty =>
              command \in NetCommands /\ command.kind = "plain"
BY DEF CommandsFor

LEMMA InitCore == Init => Core
<1> SUFFICES ASSUME Init PROVE Core
  OBVIOUS
<1>1. Left \subseteq Commands
  BY DEF Left
<1>2. LaneOK(IdleLane, Left)
  BY IdleLaneOK
<1>3. lanes = [l \in Lanes |-> IdleLane] /\ IdleLane.tx = NoTransaction
  BY DEF Init, IdleLane
<1>4. LanesOK(lanes, Left)
  BY <1>1, <1>2, <1>3 DEF LanesOK, LaneOK
<1>5. Books
  BY <1>4, HandlerAssumption DEF Init, Books, Lanes
<1>6. \A l \in Lanes : ~Open(lanes[l])
  BY <1>3 DEF Open, IdleLane
<1>7. CASE handler = IdleDeclarative
  <2>1. 0 \in 0 .. CompletionTimeout
    BY HandlerAssumption
  <2>2. IdleDeclarative \in DeclarativeHandlers
    BY <2>1 DEF IdleDeclarative, DeclarativeHandlers
  <2>3. DeclarativeFits(handler, lanes)
    BY <1>6, <1>7, <2>2 DEF DeclarativeFits, Lanes
  <2> QED
    BY <1>5, <2>3 DEF Core, HandlerFits
<1>8. CASE handler = IdleApplication
  <2>1. IdleApplication \in ApplicationHandlers
    BY DEF IdleApplication, ApplicationHandlers, IdlePair
  <2>2. /\ handler.pair.operation = NoTransaction
        /\ handler.pair.interrupt = NoTransaction
        /\ \A c \in Commands : handler.results[c] = NoResult
    BY <1>8 DEF IdleApplication, IdlePair
  <2>3. ApplicationFits(handler, lanes, Left)
    BY <1>8, <2>1, <2>2 DEF ApplicationFits
  <2> QED
    BY <1>5, <2>3 DEF Core, HandlerFits
<1> QED
  BY <1>7, <1>8 DEF Init

\* The lane that takes a command is idle.
LEMMA LaneForIdle ==
  ASSUME NEW command
  PROVE  /\ LaneFor(command) \in Lanes \cup {"none"}
         /\ LaneFor(command) # "none" => lanes[LaneFor(command)].state = "IDLE"
<1>1. CASE IsInterrupt(command)
  BY <1>1 DEF LaneFor, Lanes, IsInterrupt, CanAcceptInterrupt
<1>2. CASE ~IsInterrupt(command)
  BY <1>2 DEF LaneFor, Lanes, ParallelAvailable
<1> QED
  BY <1>1, <1>2

\* accept() makes the lane active, or stages the refusal.
LEMMA AcceptedLane ==
  ASSUME NEW lane, NEW message \in [tx : Commands, command : NetCommands \cup {Foreign, Empty}],
         NEW T, message.tx \in T,
         NEW a, a = Accepted(lane, message)
  PROVE  /\ LaneOK(a, T) /\ a.tx = message.tx /\ a.age = 0
         /\ StartedOn(lane, message) => a.state = "ACTIVE"
         /\ ~StartedOn(lane, message) =>
              a.state = "RESULT_READY" /\ a.pending = "REFUSED"
<1> DEFINE taken == [IdleLane EXCEPT !.tx = message.tx, !.command = message.command]
<1>1. IdleLane \in AnyLane /\ IdleLane.age = 0 /\ IdleLane.pending = NoResult
  BY IdleLaneOK DEF LaneOK, IdleLane
<1>2. /\ taken \in AnyLane /\ taken.tx = message.tx /\ taken.age = 0
      /\ taken.pending = NoResult
  BY <1>1 DEF AnyLane
<1>3. PICK t : t = taken
  OBVIOUS
<1>4. CASE StartedOn(lane, message)
  <2>1. a = [t EXCEPT !.state = "ACTIVE"]
    BY <1>3, <1>4 DEF Accepted
  <2>2. a \in AnyLane /\ a.tx = t.tx /\ a.age = t.age /\ a.pending = t.pending
        /\ a.state = "ACTIVE"
    BY <1>2, <1>3, <2>1 DEF AnyLane
  <2> QED
    BY <1>2, <1>3, <1>4, <2>2 DEF LaneOK
<1>5. CASE ~StartedOn(lane, message)
  <2>1. a = Stage(t, "REFUSED")
    BY <1>3, <1>5 DEF Accepted
  <2>2. a \in AnyLane /\ a.tx = t.tx /\ a.age = t.age /\ a.pending = "REFUSED"
        /\ a.state = "RESULT_READY"
    BY <1>2, <1>3, <2>1 DEF AnyLane, Stage, Statuses
  <2> QED
    BY <1>2, <1>3, <1>5, <2>2 DEF LaneOK, Statuses
<1> QED
  BY <1>4, <1>5

LEMMA MoreLeft ==
  ASSUME NEW L, NEW T, LanesOK(L, T), NEW U \in SUBSET Commands, T \subseteq U
  PROVE  LanesOK(L, U)
<1>1. \A d : LaneOK(d, T) => LaneOK(d, U)
  BY DEF LaneOK
<1> QED
  BY <1>1 DEF LanesOK

\* The message step takes the held command out of the runtime.
LEMMA TakeLeft ==
  ASSUME Books, TakeMessage
  PROVE  /\ held \in [tx : Commands, command : CommandsFor(handler)]
         /\ held.tx \in Commands \ Left /\ Left' = Left \cup {held.tx}
<1>1. /\ held \in [tx : Commands, command : CommandsFor(handler)]
      /\ held.tx = arrived /\ held # NoMessage /\ held' = NoMessage
      /\ arrived' = arrived
  BY DEF Books, TakeMessage
<1>2. held.tx \in Commands
  BY <1>1
<1>3. Left = { c \in Commands : c < arrived }
  BY <1>1, HandlerAssumption DEF Left, Books, Commands
<1>4. Left' = { c \in Commands : c <= arrived }
  BY <1>1 DEF Left
<1> QED
  BY <1>1, <1>2, <1>3, <1>4, HandlerAssumption DEF Commands

LEMMA TakeMessageCore ==
  ASSUME Core, TakeMessage
  PROVE  Core'
<1> DEFINE lane == LaneFor(held.command)
           tx == held.tx
           a == Accepted(lane, held)
           started == StartedOn(lane, held)
<1>1. /\ held \in [tx : Commands, command : CommandsFor(handler)]
      /\ tx \in Commands \ Left /\ Left' = Left \cup {tx} /\ Left \subseteq Commands
  BY TakeLeft DEF Core, Left
<1>2. LanesOK(lanes, Left)
  BY DEF Core, Books
<1>3. /\ step' = "main" /\ held' = NoMessage /\ optional' = optional
      /\ arrived' = arrived
  BY DEF TakeMessage
<1>4. ASSUME LanesOK(lanes', Left') PROVE Books'
  BY <1>3, <1>4 DEF Core, Books, Lanes
<1>5. CASE lane = "none"
  <2>1. lanes' = lanes /\ handler' = handler
    BY <1>5 DEF TakeMessage
  <2>2. LanesOK(lanes', Left')
    BY <1>1, <1>2, <2>1, MoreLeft
  <2>3. DeclarativeFits(handler, lanes) => DeclarativeFits(handler', lanes')
    BY <2>1
  <2>4. ApplicationFits(handler, lanes, Left) => ApplicationFits(handler', lanes', Left')
    BY <1>1, <2>1, ApplicationKept
  <2> QED
    BY <1>4, <2>2, <2>3, <2>4 DEF Core, HandlerFits
<1>6. CASE lane # "none"
  <2>1. lane \in Lanes /\ lanes[lane].state = "IDLE"
    BY <1>6, LaneForIdle
  <2>2. /\ lanes' = [lanes EXCEPT ![lane] = a]
        /\ handler' = IF started THEN Start(handler, tx, held.command) ELSE handler
    BY <1>6 DEF TakeMessage
  <2>3. held \in [tx : Commands, command : NetCommands \cup {Foreign, Empty}]
    BY <1>1, KnownCommands
  <2>4. /\ LaneOK(a, Left') /\ a.tx = tx
        /\ started => a.state = "ACTIVE"
        /\ ~started => a.state = "RESULT_READY" /\ a.pending = "REFUSED"
    BY <1>1, <2>3, AcceptedLane
  <2>5. LanesOK(lanes', Left')
    BY <1>1, <1>2, <2>1, <2>2, <2>4, LaneTakes
  <2>6. /\ lanes'[lane] = a /\ \A l \in Lanes \ {lane} : lanes'[l] = lanes[l]
        /\ ~Open(lanes[lane])
    BY <1>2, <2>1, <2>2 DEF LanesOK, Open
  <2>7. CASE ~started
    <3>1. handler' = handler /\ ~Open(a)
      BY <2>2, <2>4, <2>7 DEF Open
    <3>2. DeclarativeFits(handler, lanes) => DeclarativeFits(handler', lanes')
      BY <2>6, <3>1, DeclarativeKept
    <3>3. \A l \in Lanes :
            /\ Open(lanes[l]) => Open(lanes'[l]) /\ lanes'[l].tx = lanes[l].tx
            /\ lanes[l].state = "ACTIVE" => lanes'[l].state = "ACTIVE"
      BY <2>1, <2>6
    <3>4. ApplicationFits(handler, lanes, Left) => ApplicationFits(handler', lanes', Left')
      BY <1>1, <3>1, <3>3, ApplicationKept
    <3> QED
      BY <1>4, <2>5, <3>2, <3>4 DEF Core, HandlerFits
  <2>8. CASE started /\ DeclarativeFits(handler, lanes)
    <3>1. handler \in DeclarativeHandlers /\ handler.kind = "declarative"
      BY <2>8, HandlerKind DEF DeclarativeFits
    <3>2. lane = "main"
      BY <2>8, <3>1 DEF StartedOn, Registered
    <3>3. handler = IdleDeclarative
      BY <2>6, <2>8, <3>2 DEF DeclarativeFits
    <3>4. /\ held.command \in NetCommands \cup {Foreign}
          /\ DeclarativeStatus(IdleDeclarative, held.command) = "STARTED"
      BY <2>3, <2>8, <3>1, <3>3 DEF StartedOn, StartStatus
    <3>5. handler' = DeclarativeStart(IdleDeclarative, tx, held.command)
      BY <2>2, <2>8, <3>1, <3>3 DEF Start
    <3>6. /\ handler' \in DeclarativeHandlers /\ handler'.tx = tx
          /\ handler'.binding # "none"
      BY <1>1, <3>4, <3>5, DeclarativeStarts
    <3>7. Open(lanes'["main"]) /\ lanes'["main"].tx = tx
      BY <2>4, <2>6, <2>8, <3>2 DEF Open
    <3>8. \A l \in Lanes \ {"main"} : ~Open(lanes'[l])
      BY <2>6, <2>8, <3>2 DEF DeclarativeFits
    <3>9. DeclarativeFits(handler', lanes')
      BY <3>6, <3>7, <3>8 DEF DeclarativeFits
    <3> QED
      BY <1>4, <2>5, <3>9 DEF Core, HandlerFits
  <2>9. CASE started /\ ApplicationFits(handler, lanes, Left)
    <3>1. handler.kind = "application"
      BY <2>9, HandlerKind DEF ApplicationFits
    <3>2. held.command \in NetCommands
      BY <1>1, <2>9, <3>1, KnownCommands DEF StartedOn
    <3>3. ApplicationStatus(handler, tx, held.command) = "STARTED"
      BY <2>9, <3>1 DEF StartedOn, StartStatus
    <3>4. handler' = ApplicationStart(handler, tx, held.command)
      BY <2>2, <2>9, <3>1 DEF Start
    <3>5. ApplicationFits(handler', [lanes EXCEPT ![lane] = a], Left \cup {tx})
      BY <1>1, <1>2, <2>1, <2>4, <2>9, <3>2, <3>3, <3>4, StartFits
    <3> QED
      BY <1>1, <1>4, <2>2, <2>5, <3>5 DEF Core, HandlerFits
  <2> QED
    BY <2>7, <2>8, <2>9 DEF Core, HandlerFits
<1> QED
  BY <1>5, <1>6

\* What the handler's loop leaves behind still fits the lanes.
LEMMA LoopsFit ==
  ASSUME Core, NEW h \in Loops(handler)
  PROVE  /\ h.kind = handler.kind
         /\ DeclarativeFits(handler, lanes) =>
              DeclarativeFits(h, lanes) /\ (handler.result # NoResult => h = handler)
         /\ ApplicationFits(handler, lanes, Left) =>
              ApplicationFits(h, lanes, Left) /\ h \in ApplicationLoop(handler)
<1>1. CASE DeclarativeFits(handler, lanes)
  <2>1. handler \in DeclarativeHandlers /\ handler.kind = "declarative"
    BY <1>1, HandlerKind DEF DeclarativeFits
  <2>2. PICK completed \in BOOLEAN : h = DeclarativeLoop(handler, completed)
    BY <2>1 DEF Loops
  <2>3. /\ h \in DeclarativeHandlers /\ h.tx = handler.tx
        /\ h.binding = handler.binding /\ (handler.result # NoResult => h = handler)
    BY <2>1, <2>2, DeclarativeLoops
  <2>4. handler = IdleDeclarative => h = handler
    BY <2>2 DEF DeclarativeLoop, IdleDeclarative
  <2>5. DeclarativeFits(h, lanes)
    BY <1>1, <2>3, <2>4 DEF DeclarativeFits
  <2>6. h.kind = "declarative" /\ ~ApplicationFits(handler, lanes, Left)
    BY <2>1, <2>3, HandlerKind DEF ApplicationFits
  <2> QED
    BY <2>1, <2>3, <2>5, <2>6
<1>2. CASE ApplicationFits(handler, lanes, Left)
  <2>1. handler \in ApplicationHandlers /\ handler.kind = "application"
    BY <1>2, HandlerKind DEF ApplicationFits
  <2>2. h \in ApplicationLoop(handler)
    BY <2>1 DEF Loops
  <2>3. ApplicationFits(h, lanes, Left)
    BY <1>2, <2>2, LoopFits DEF Core, Books
  <2>4. h.kind = "application" /\ ~DeclarativeFits(handler, lanes)
    BY <2>1, <2>3, HandlerKind DEF ApplicationFits, DeclarativeFits
  <2> QED
    BY <2>1, <2>2, <2>3, <2>4
<1> QED
  BY <1>1, <1>2 DEF Core, HandlerFits

\* The result an active lane is given is its own, and it is staged as it is.
LEMMA OwnResult ==
  ASSUME Core, CompletionTimeout > 0, NEW lane \in Lanes,
         lanes[lane].state = "ACTIVE", NEW h \in Loops(handler),
         NEW tx \in ResultFor(h, lanes[lane].tx)
  PROVE  /\ tx = lanes[lane].tx
         /\ ResultOf(h, tx) \in HandlerResults \ {NoResult}
         /\ Collected(lanes[lane], tx, ResultOf(h, tx))
              = Stage(lanes[lane], ResultOf(h, tx))
<1>1. lanes[lane].tx \in Commands
  BY DEF Core, Books, LanesOK, LaneOK
<1>2. CASE DeclarativeFits(handler, lanes)
  <2>1. h \in DeclarativeHandlers /\ h.kind = "declarative" /\ DeclarativeFits(h, lanes)
    BY <1>2, LoopsFit, HandlerKind DEF DeclarativeFits
  <2>2. Open(lanes[lane])
    BY DEF Open
  <2>3. h.tx = lanes[lane].tx
    BY <2>1, <2>2 DEF DeclarativeFits
  <2>4. tx = h.tx /\ h.result # NoResult
    BY <2>1 DEF ResultFor
  <2>5. ResultOf(h, tx) = h.result
    BY <2>1 DEF ResultOf
  <2> QED
    BY <2>1, <2>3, <2>4, <2>5
    DEF DeclarativeHandlers, HandlerResults, Collected, Consistent
<1>3. CASE ApplicationFits(handler, lanes, Left)
  <2>1. h \in ApplicationHandlers /\ h.kind = "application"
    BY <1>3, LoopsFit, HandlerKind DEF ApplicationFits
  <2>2. tx = lanes[lane].tx /\ h.results[tx] # NoResult
    BY <2>1 DEF ResultFor
  <2>3. ResultOf(h, tx) = h.results[tx]
    BY <2>1 DEF ResultOf
  <2> QED
    BY <1>1, <2>1, <2>2, <2>3
    DEF ApplicationHandlers, HandlerResults, Collected, Consistent
<1> QED
  BY <1>2, <1>3 DEF Core, HandlerFits

LEMMA LaneLoopCore ==
  ASSUME Core, CompletionTimeout > 0, NEW lane \in Lanes, LaneLoop(lane)
  PROVE  Core'
<1> DEFINE d == lanes[lane]
<1>1. /\ held' = held /\ arrived' = arrived /\ optional' = optional
      /\ step' \in {"message", "result"} \cup Lanes
  BY DEF LaneLoop, NextStep, Lanes
<1>2. Left' = Left
  BY <1>1 DEF Left
<1>3. LanesOK(lanes, Left) /\ LaneOK(d, Left)
  BY DEF Core, Books, LanesOK
<1>4. ASSUME LanesOK(lanes', Left), handler'.kind = handler.kind
      PROVE  Books'
  <2>1. CommandsFor(handler)' = CommandsFor(handler)
    BY <1>4, SameCommands
  <2> QED
    BY <1>1, <1>2, <1>4, <2>1 DEF Core, Books
<1>5. CASE d.state # "ACTIVE"
  <2>1. lanes' = lanes /\ handler' = handler
    BY <1>5 DEF LaneLoop
  <2> QED
    BY <1>2, <1>3, <1>4, <2>1 DEF Core, HandlerFits
<1>6. CASE d.state = "ACTIVE" /\ Expired(d)
  <2> DEFINE a == Stage(d, "TIMED_OUT")
  <2>1. lanes' = [lanes EXCEPT ![lane] = a] /\ handler' = Cancel(handler, d.tx)
    BY <1>6 DEF LaneLoop
  <2>2. LaneOK(a, Left) /\ a.tx = d.tx /\ a.state = "RESULT_READY" /\ ~Open(a)
    BY <1>3, <1>6, StageOK DEF Statuses, Open
  <2>3. LanesOK(lanes', Left)
    BY <1>3, <2>1, <2>2, LaneUpdated
  <2>4. CASE DeclarativeFits(handler, lanes)
    <3>1. handler.kind = "declarative"
      BY <2>4, HandlerKind DEF DeclarativeFits
    <3>2. lane = "main" /\ handler.tx = d.tx
      BY <1>6, <2>4 DEF DeclarativeFits, Open
    <3>3. handler' = IdleDeclarative
      BY <2>1, <3>1, <3>2 DEF Cancel
    <3>4. 0 \in 0 .. CompletionTimeout
      BY HandlerAssumption
    <3>5. IdleDeclarative \in DeclarativeHandlers
      BY <3>4 DEF IdleDeclarative, DeclarativeHandlers
    <3>6. \A l \in Lanes : ~Open(lanes'[l])
      BY <1>3, <2>1, <2>2, <2>4, <3>2 DEF DeclarativeFits, LanesOK
    <3>7. DeclarativeFits(handler', lanes')
      BY <3>3, <3>5, <3>6 DEF DeclarativeFits, Lanes
    <3>8. handler'.kind = handler.kind
      BY <3>1, <3>3 DEF IdleDeclarative
    <3> QED
      BY <1>4, <2>3, <3>7, <3>8 DEF Core, HandlerFits
  <2>5. CASE ApplicationFits(handler, lanes, Left)
    <3>1. ApplicationFits(handler', lanes', Left)
      BY <1>3, <1>6, <2>1, <2>5, CancelFits
    <3>2. handler'.kind = handler.kind
      BY <2>5, <3>1, HandlerKind DEF ApplicationFits
    <3> QED
      BY <1>2, <1>4, <2>3, <3>1, <3>2 DEF Core, HandlerFits
  <2> QED
    BY <2>4, <2>5 DEF Core, HandlerFits
<1>7. ASSUME d.state = "ACTIVE", NEW h \in Loops(handler),
             handler' = h, lanes' = lanes
      PROVE  Core'
  <2>1. h.kind = handler.kind /\ HandlerFits'
    BY <1>2, <1>7, LoopsFit DEF Core, HandlerFits
  <2> QED
    BY <1>3, <1>4, <1>7, <2>1 DEF Core
<1>8. ASSUME d.state = "ACTIVE", NEW h \in Loops(handler),
             NEW tx \in ResultFor(h, d.tx), handler' = Take(h, tx),
             lanes' = [lanes EXCEPT ![lane] = Collected(d, tx, ResultOf(h, tx))]
      PROVE  Core'
  <2> DEFINE r == ResultOf(h, tx)
             a == Stage(d, r)
  <2>1. tx = d.tx /\ r \in HandlerResults \ {NoResult}
        /\ lanes' = [lanes EXCEPT ![lane] = a]
    BY <1>8, OwnResult
  <2>2. r \in Statuses \ {"INVALID"}
    BY <2>1 DEF HandlerResults, Statuses
  <2>3. LaneOK(a, Left) /\ a.tx = d.tx /\ a.state = "RESULT_READY" /\ a.pending = r
    BY <1>3, <1>8, <2>2, StageOK
  <2>4. LanesOK(lanes', Left)
    BY <1>3, <2>1, <2>3, LaneUpdated
  <2>5. CASE DeclarativeFits(handler, lanes)
    <3>1. DeclarativeFits(h, lanes) /\ h \in DeclarativeHandlers
      BY <2>5, LoopsFit DEF DeclarativeFits
    <3>2. h.kind = "declarative" /\ handler.kind = "declarative"
      BY <2>5, <3>1, HandlerKind DEF DeclarativeFits
    <3>3. lane = "main" /\ h.tx = d.tx /\ h.binding # "none"
      BY <1>8, <3>1 DEF DeclarativeFits, Open
    <3>4. r = h.result
      BY <3>2 DEF ResultOf
    <3>5. handler' = DeclarativeTake(h)
      BY <1>8, <3>2 DEF Take
    <3>6. /\ handler' \in DeclarativeHandlers
          /\ IF r = "IN_PROGRESS"
             THEN handler'.tx = h.tx /\ handler'.binding = h.binding
             ELSE handler' = IdleDeclarative
      BY <3>1, <3>4, <3>5, DeclarativeTakes
    <3>7. lanes'["main"] = a /\ \A l \in Lanes \ {"main"} : lanes'[l] = lanes[l]
      BY <1>3, <2>1, <3>3 DEF LanesOK
    <3>8. Open(a) <=> r = "IN_PROGRESS"
      BY <2>3 DEF Open
    <3>9. DeclarativeFits(handler', lanes')
      BY <2>3, <2>5, <3>3, <3>6, <3>7, <3>8 DEF DeclarativeFits
    <3>10. handler'.kind = handler.kind
      BY <3>2, <3>6, HandlerKind
    <3> QED
      BY <1>4, <2>4, <3>9, <3>10 DEF Core, HandlerFits
  <2>6. CASE ApplicationFits(handler, lanes, Left)
    <3>1. ApplicationFits(h, lanes, Left) /\ h.kind = "application"
      BY <2>6, LoopsFit, HandlerKind DEF ApplicationFits
    <3>2. r = h.results[d.tx]
      BY <2>1, <3>1 DEF ResultOf
    <3>3. ApplicationFits(handler', lanes', Left)
      <4>1. PICK q : q = r
        OBVIOUS
      <4>2. /\ lanes[lane].state = "ACTIVE" /\ q = h.results[lanes[lane].tx]
            /\ q # NoResult /\ handler' = Take(h, lanes[lane].tx)
            /\ lanes' = [lanes EXCEPT ![lane] = Stage(lanes[lane], q)]
        BY <1>8, <2>1, <3>2, <4>1
      <4> QED
        BY <1>3, <3>1, <4>2, TakeFits
    <3>4. handler'.kind = handler.kind
      BY <2>6, <3>3, HandlerKind DEF ApplicationFits
    <3> QED
      BY <1>2, <1>4, <2>4, <3>3, <3>4 DEF Core, HandlerFits
  <2> QED
    BY <2>5, <2>6 DEF Core, HandlerFits
<1> QED
  BY <1>5, <1>6, <1>7, <1>8 DEF LaneLoop

\* A command that arrives has not left the runtime.
LEMMA ArriveCore ==
  ASSUME Core, NEW command \in CommandsFor(handler), Arrive(command)
  PROVE  Core' /\ Left' = Left
<1>1. /\ held = NoMessage /\ arrived + 1 \in Commands /\ arrived' = arrived + 1
      /\ held' = [tx |-> arrived + 1, command |-> command]
      /\ UNCHANGED <<step, optional, lanes, handler>>
  BY DEF Arrive
<1>2. held' # NoMessage
  BY <1>1, KnownCommands, DispatcherAssumption
<1>3. Left' = Left
  BY <1>1, <1>2, HandlerAssumption DEF Left, Core, Books, Commands
<1>4. Books'
  BY <1>1, <1>3, HandlerAssumption DEF Core, Books, Commands
<1> QED
  BY <1>1, <1>3, <1>4 DEF Core, HandlerFits

LEMMA ResultLaneIn == ResultLane \in Lanes
BY DEF ResultLane, Lanes

LEMMA SendResultCore ==
  ASSUME Core, SendResult
  PROVE  Core' /\ Left' = Left
<1> DEFINE lane == ResultLane
           d == lanes[lane]
           a == DispatcherTake(d)
<1>1. /\ d.state = "RESULT_READY" /\ lanes' = [lanes EXCEPT ![lane] = a]
      /\ UNCHANGED <<optional, handler, held, arrived>> /\ step' = "message"
  BY DEF SendResult
<1>2. lane \in Lanes
  BY ResultLaneIn
<1>3. LanesOK(lanes, Left) /\ LaneOK(d, Left) /\ Left' = Left
  BY <1>1, <1>2 DEF Core, Books, LanesOK, Left
<1>4. /\ LaneOK(a, Left) /\ (Open(d) <=> Open(a))
      /\ Open(d) => a.tx = d.tx /\ a.state = "ACTIVE"
      /\ ~Open(d) => a.tx = NoTransaction
  BY <1>1, <1>3, TakeOK
<1>5. LanesOK(lanes', Left)
  BY <1>1, <1>2, <1>3, <1>4, LaneUpdated
<1>6. \A l \in Lanes :
        /\ Open(lanes[l]) <=> Open(lanes'[l])
        /\ Open(lanes[l]) => lanes'[l].tx = lanes[l].tx
        /\ lanes[l].state = "ACTIVE" => lanes'[l].state = "ACTIVE"
  BY <1>1, <1>2, <1>3, <1>4 DEF LanesOK
<1>7. DeclarativeFits(handler, lanes) => DeclarativeFits(handler, lanes')
  BY <1>6, DeclarativeKept
<1>8. ApplicationFits(handler, lanes, Left) => ApplicationFits(handler, lanes', Left)
  BY <1>6, ApplicationKept
<1>9. HandlerFits'
  BY <1>1, <1>3, <1>7, <1>8 DEF Core, HandlerFits
<1> QED
  BY <1>1, <1>3, <1>5, <1>9 DEF Core, Books

\* Time changes ages only.
LEMMA AgedLaneOK ==
  ASSUME NEW T, NEW d, LaneOK(d, T), NEW a, a = AgedLane(d)
  PROVE  /\ LaneOK(a, T) /\ a.state = d.state /\ a.tx = d.tx
         /\ a.pending = d.pending /\ (Open(a) <=> Open(d))
<1>1. /\ a \in AnyLane /\ a.state = d.state /\ a.tx = d.tx
      /\ a.pending = d.pending
  BY DispatcherAssumption DEF LaneOK, AnyLane, AgedLane
<1> QED
  BY <1>1 DEF LaneOK, Open

LEMMA AgedHandlerFits ==
  ASSUME NEW L, NEW T, NEW h, NEW g, g = AgedHandler(h)
  PROVE  /\ DeclarativeFits(h, L) => DeclarativeFits(g, L)
         /\ ApplicationFits(h, L, T) => g = h
         /\ DeclarativeFits(h, L) => g.result = h.result
<1>1. ASSUME DeclarativeFits(h, L)
      PROVE  DeclarativeFits(g, L) /\ g.result = h.result
  <2>1. h \in DeclarativeHandlers
    BY <1>1 DEF DeclarativeFits
  <2>2. /\ g \in DeclarativeHandlers /\ g.tx = h.tx /\ g.binding = h.binding
        /\ g.result = h.result
    BY <2>1, HandlerAssumption DEF AgedHandler, DeclarativeHandlers
  <2>3. h = IdleDeclarative => g = h
    BY DEF AgedHandler, IdleDeclarative
  <2> QED
    BY <1>1, <2>2, <2>3 DEF DeclarativeFits
<1>2. ASSUME ApplicationFits(h, L, T) PROVE g = h
  BY <1>2, HandlerKind DEF ApplicationFits, AgedHandler
<1> QED
  BY <1>1, <1>2

LEMMA TickCore ==
  ASSUME Core, Tick
  PROVE  /\ Core' /\ Left' = Left
         /\ \A l \in Lanes : /\ lanes'[l].state = lanes[l].state
                             /\ lanes'[l].tx = lanes[l].tx
                             /\ lanes'[l].pending = lanes[l].pending
<1>1. /\ lanes' = [l \in Lanes |-> AgedLane(lanes[l])]
      /\ handler' = AgedHandler(handler) /\ UNCHANGED <<step, optional, held, arrived>>
  BY DEF Tick
<1>2. Left' = Left /\ LanesOK(lanes, Left)
  BY <1>1 DEF Left, Core, Books
<1>3. \A l \in Lanes :
        /\ LaneOK(lanes'[l], Left) /\ lanes'[l].state = lanes[l].state
        /\ lanes'[l].tx = lanes[l].tx /\ lanes'[l].pending = lanes[l].pending
        /\ Open(lanes'[l]) <=> Open(lanes[l])
  <2> TAKE l \in Lanes
  <2>1. lanes'[l] = AgedLane(lanes[l]) /\ LaneOK(lanes[l], Left)
    BY <1>1, <1>2 DEF LanesOK
  <2> QED
    BY <2>1, AgedLaneOK
<1>4. LanesOK(lanes', Left)
  BY <1>1, <1>2, <1>3 DEF LanesOK, LaneOK
<1>5. DeclarativeFits(handler, lanes) =>
        DeclarativeFits(handler', lanes') /\ handler'.kind = handler.kind
  <2> SUFFICES ASSUME DeclarativeFits(handler, lanes)
               PROVE  DeclarativeFits(handler', lanes') /\ handler'.kind = handler.kind
    OBVIOUS
  <2>1. DeclarativeFits(handler', lanes)
    BY <1>1, AgedHandlerFits
  <2>2. DeclarativeFits(handler', lanes')
    BY <1>3, <2>1, DeclarativeKept
  <2> QED
    BY <2>1, <2>2, HandlerKind DEF DeclarativeFits
<1>6. ApplicationFits(handler, lanes, Left) =>
        ApplicationFits(handler', lanes', Left) /\ handler'.kind = handler.kind
  <2> SUFFICES ASSUME ApplicationFits(handler, lanes, Left)
               PROVE  ApplicationFits(handler', lanes', Left) /\ handler'.kind = handler.kind
    OBVIOUS
  <2>1. handler' = handler
    BY <1>1, AgedHandlerFits
  <2>2. ApplicationFits(handler, lanes', Left)
    BY <1>3, ApplicationKept
  <2> QED
    BY <2>1, <2>2
<1>7. CommandsFor(handler)' = CommandsFor(handler)
  BY <1>5, <1>6, SameCommands DEF Core, HandlerFits
<1>8. Books'
  BY <1>1, <1>2, <1>4, <1>7 DEF Core, Books
<1> QED
  BY <1>2, <1>3, <1>5, <1>6, <1>8 DEF Core, HandlerFits

\* Nothing that Core speaks of changes but the step.
LEMMA StutterCore ==
  ASSUME Core, UNCHANGED <<optional, lanes, handler, held, arrived>>,
         step' \in {"message", "result"} \cup Lanes
  PROVE  Core' /\ Left' = Left
<1>1. Left' = Left
  BY DEF Left
<1> QED
  BY <1>1 DEF Core, Books, HandlerFits

LEMMA CoreStep ==
  ASSUME CompletionTimeout > 0, Core, [Next]_vars
  PROVE  Core'
<1>1. CASE UNCHANGED vars
  BY <1>1, StutterCore DEF vars, Core, Books
<1>2. ASSUME NEW command \in CommandsFor(handler), Arrive(command) PROVE Core'
  BY <1>2, ArriveCore
<1>3. CASE TakeMessage
  BY <1>3, TakeMessageCore
<1>4. CASE NoMessageNow
  BY <1>4, StutterCore DEF NoMessageNow, Lanes
<1>5. ASSUME NEW lane \in Lanes, LaneLoop(lane) PROVE Core'
  BY <1>5, LaneLoopCore
<1>6. CASE SendResult
  BY <1>6, SendResultCore
<1>7. CASE NoResultNow
  BY <1>7, StutterCore DEF NoResultNow
<1>8. CASE Tick
  BY <1>8, TickCore
<1> QED
  BY <1>1, <1>2, <1>3, <1>4, <1>5, <1>6, <1>7, <1>8 DEF Next

-----------------------------------------------------------------------------
(* The invariant, second part: what is reported.                           *)

\* What has been reported of a command that a lane still has is progress only.
Reporting ==
  /\ reports \in [Commands -> Seq(Statuses \ {"INVALID"})]
  /\ \A c \in Commands \ Left : reports[c] = <<>>
  /\ \A l \in Lanes : lanes[l].state # "IDLE" =>
       \A i \in 1 .. Len(reports[lanes[l].tx]) :
         reports[lanes[l].tx][i] = "IN_PROGRESS"
  /\ OutcomeIsLast

\* No report is made, and a lane has its command already or takes one that has
\* no report.
LEMMA ReportingKept ==
  ASSUME Reporting, reports' = reports, Left \subseteq Left',
         \A l \in Lanes : lanes'[l].state # "IDLE" =>
           \/ lanes[l].state # "IDLE" /\ lanes'[l].tx = lanes[l].tx
           \/ reports[lanes'[l].tx] = <<>>
  PROVE  Reporting'
<1>1. \A l \in Lanes : lanes'[l].state # "IDLE" =>
        \A i \in 1 .. Len(reports[lanes'[l].tx]) :
          reports[lanes'[l].tx][i] = "IN_PROGRESS"
  BY DEF Reporting
<1>2. OutcomeIsLast'
  BY DEF Reporting, OutcomeIsLast
<1> QED
  BY <1>1, <1>2 DEF Reporting

\* A lane's loop neither takes nor ends a command.
LEMMA LaneLoopKeeps ==
  ASSUME Core, CompletionTimeout > 0, NEW lane \in Lanes, LaneLoop(lane)
  PROVE  /\ \A l \in Lanes : /\ lanes'[l].tx = lanes[l].tx
                             /\ lanes'[l].state = "IDLE" <=> lanes[l].state = "IDLE"
                             /\ l # lane => lanes'[l] = lanes[l]
         /\ Left' = Left /\ reports' = reports
         /\ step = lane /\ step' = NextStep[lane]
<1>1. /\ Left' = Left /\ reports' = reports /\ step = lane
      /\ step' = NextStep[lane]
  BY DEF LaneLoop, Left
<1>2. LanesOK(lanes, Left) /\ LaneOK(lanes[lane], Left)
  BY DEF Core, Books, LanesOK
<1>3. CASE lanes' = lanes
  BY <1>1, <1>3
<1>4. ASSUME lanes[lane].state = "ACTIVE", NEW r \in Statuses,
             lanes' = [lanes EXCEPT ![lane] = Stage(lanes[lane], r)]
      PROVE  \A l \in Lanes : /\ lanes'[l].tx = lanes[l].tx
                              /\ lanes'[l].state = "IDLE" <=> lanes[l].state = "IDLE"
                              /\ l # lane => lanes'[l] = lanes[l]
  <2>1. /\ Stage(lanes[lane], r).tx = lanes[lane].tx
        /\ Stage(lanes[lane], r).state = "RESULT_READY"
    BY <1>2, <1>4, StageOK
  <2> QED
    BY <1>2, <1>4, <2>1 DEF LanesOK
<1>5. CASE lanes[lane].state = "ACTIVE" /\ Expired(lanes[lane])
  <2>1. lanes' = [lanes EXCEPT ![lane] = Stage(lanes[lane], "TIMED_OUT")]
    BY <1>5 DEF LaneLoop
  <2> QED
    BY <1>1, <1>4, <1>5, <2>1 DEF Statuses
<1>6. ASSUME lanes[lane].state = "ACTIVE", NEW h \in Loops(handler),
             NEW tx \in ResultFor(h, lanes[lane].tx),
             lanes' = [lanes EXCEPT ![lane] =
                         Collected(lanes[lane], tx, ResultOf(h, tx))]
      PROVE  \A l \in Lanes : /\ lanes'[l].tx = lanes[l].tx
                              /\ lanes'[l].state = "IDLE" <=> lanes[l].state = "IDLE"
                              /\ l # lane => lanes'[l] = lanes[l]
  <2>1. /\ lanes' = [lanes EXCEPT ![lane] = Stage(lanes[lane], ResultOf(h, tx))]
        /\ ResultOf(h, tx) \in Statuses
    BY <1>6, OwnResult DEF HandlerResults, Statuses
  <2> QED
    BY <1>4, <1>6, <2>1
<1>7. lanes[lane].state # "ACTIVE" => lanes' = lanes
  BY DEF LaneLoop
<1> QED
  BY <1>1, <1>3, <1>5, <1>6, <1>7 DEF LaneLoop

\* What one report changes.
LEMMA Reported ==
  ASSUME Core, Reporting, SendResult
  PROVE  LET d == lanes[ResultLane] IN
         /\ d.tx \in Left /\ d.pending \in Statuses \ {"INVALID"}
         /\ \A c \in Commands \ {d.tx} : reports'[c] = reports[c]
         /\ reports'[d.tx] = Append(reports[d.tx], d.pending)
         /\ reports' \in [Commands -> Seq(Statuses \ {"INVALID"})]
         /\ \A i \in 1 .. Len(reports[d.tx]) : reports[d.tx][i] = "IN_PROGRESS"
<1> DEFINE d == lanes[ResultLane]
<1>1. d.state = "RESULT_READY" /\ reports' = [reports EXCEPT ![d.tx] = Append(@, d.pending)]
  BY DEF SendResult
<1>2. LaneOK(d, Left) /\ Left \subseteq Commands
  BY ResultLaneIn DEF Core, Books, LanesOK
<1>3. d.tx \in Left /\ d.pending \in Statuses \ {"INVALID"}
  BY <1>1, <1>2 DEF LaneOK
<1>4. Append(reports[d.tx], d.pending) \in Seq(Statuses \ {"INVALID"})
  BY <1>2, <1>3 DEF Reporting
<1> QED
  BY <1>1, <1>2, <1>3, <1>4, ResultLaneIn DEF Reporting

LEMMA SendResultReporting ==
  ASSUME Core, Reporting, SendResult
  PROVE  Reporting'
<1> DEFINE lane == ResultLane
           d == lanes[lane]
           a == DispatcherTake(d)
<1>1. /\ d.tx \in Left /\ d.pending \in Statuses \ {"INVALID"}
      /\ \A c \in Commands \ {d.tx} : reports'[c] = reports[c]
      /\ reports'[d.tx] = Append(reports[d.tx], d.pending)
      /\ reports' \in [Commands -> Seq(Statuses \ {"INVALID"})]
      /\ \A i \in 1 .. Len(reports[d.tx]) : reports[d.tx][i] = "IN_PROGRESS"
  BY Reported
<1>2. Left' = Left /\ Left \subseteq Commands /\ LanesOK(lanes, Left) /\ lane \in Lanes
  BY SendResultCore, ResultLaneIn DEF Core, Books, LanesOK
<1>3. \A c \in Commands \ Left' : reports'[c] = <<>>
  BY <1>1, <1>2 DEF Reporting
<1>4. /\ Len(reports'[d.tx]) = Len(reports[d.tx]) + 1 /\ Len(reports[d.tx]) \in Nat
      /\ \A i \in 1 .. Len(reports[d.tx]) : reports'[d.tx][i] = "IN_PROGRESS"
      /\ reports'[d.tx][Len(reports[d.tx]) + 1] = d.pending
  <2>1. reports[d.tx] \in Seq(Statuses \ {"INVALID"})
    BY <1>1, <1>2 DEF Reporting
  <2> QED
    BY <1>1, <2>1
<1>5. OutcomeIsLast'
  <2> SUFFICES ASSUME NEW c \in Commands, NEW i \in 1 .. Len(reports'[c]) - 1
               PROVE  reports'[c][i] = "IN_PROGRESS"
    BY DEF OutcomeIsLast
  <2>1. CASE c = d.tx
    <3>1. i \in 1 .. Len(reports[d.tx])
      BY <1>4, <2>1
    <3>2. reports'[d.tx][i] = "IN_PROGRESS"
      BY <1>4, <3>1
    <3> QED
      BY <2>1, <3>2
  <2>2. CASE c # d.tx
    <3>1. reports'[c] = reports[c]
      BY <1>1, <2>2
    <3>2. \A j \in 1 .. Len(reports[c]) - 1 : reports[c][j] = "IN_PROGRESS"
      BY DEF Reporting, OutcomeIsLast
    <3> QED
      BY <3>1, <3>2
  <2> QED
    BY <2>1, <2>2
<1>6. ASSUME NEW l \in Lanes, lanes'[l].state # "IDLE",
             NEW i \in 1 .. Len(reports'[lanes'[l].tx])
      PROVE  reports'[lanes'[l].tx][i] = "IN_PROGRESS"
  <2>1. /\ d.state = "RESULT_READY" /\ lanes'[lane] = a
        /\ \A m \in Lanes \ {lane} : lanes'[m] = lanes[m]
    BY <1>2 DEF SendResult, LanesOK
  <2>2. CASE l = lane
    <3>1. LaneOK(d, Left)
      BY <1>2 DEF LanesOK
    <3>2. Open(d) /\ a.tx = d.tx
      BY <1>6, <2>1, <2>2, <3>1, TakeOK DEF IdleLane
    <3>3. d.pending = "IN_PROGRESS"
      BY <2>1, <3>2 DEF Open
    <3>4. lanes'[l].tx = d.tx
      BY <2>1, <2>2, <3>2
    <3>5. i \in 1 .. Len(reports[d.tx]) \/ i = Len(reports[d.tx]) + 1
      BY <1>4, <1>6, <3>4
    <3> QED
      BY <1>4, <3>3, <3>4, <3>5
  <2>3. CASE l # lane
    <3>1. lanes'[l] = lanes[l] /\ lanes[l].tx \in Commands
      BY <1>2, <1>6, <2>1, <2>3 DEF LanesOK, LaneOK
    <3>2. lanes[l].tx # d.tx
      BY <1>1, <1>2, <2>3, HandlerAssumption DEF LanesOK, Commands, NoTransaction
    <3> QED
      BY <1>1, <1>6, <3>1, <3>2 DEF Reporting
  <2> QED
    BY <2>2, <2>3
<1> QED
  BY <1>1, <1>3, <1>5, <1>6 DEF Reporting

LEMMA ReportingStep ==
  ASSUME CompletionTimeout > 0, Core, Reporting, [Next]_vars
  PROVE  Reporting'
<1>1. CASE UNCHANGED vars
  BY <1>1, ReportingKept DEF vars, Left
<1>2. ASSUME NEW command \in CommandsFor(handler), Arrive(command)
      PROVE  Reporting'
  BY <1>2, ArriveCore, ReportingKept DEF Arrive
<1>3. CASE TakeMessage
  <2> DEFINE lane == LaneFor(held.command)
  <2>1. /\ held \in [tx : Commands, command : CommandsFor(handler)]
        /\ held.tx \in Commands \ Left /\ Left' = Left \cup {held.tx}
    BY <1>3, TakeLeft DEF Core
  <2>2. reports[held.tx] = <<>>
    BY <2>1 DEF Reporting
  <2>3. CASE lane = "none"
    BY <1>3, <2>1, <2>3, ReportingKept DEF TakeMessage
  <2>4. CASE lane # "none"
    <3>1. lanes' = [lanes EXCEPT ![lane] = Accepted(lane, held)] /\ lane \in Lanes
      BY <1>3, <2>4, LaneForIdle DEF TakeMessage
    <3>2. held \in [tx : Commands, command : NetCommands \cup {Foreign, Empty}]
      BY <2>1, KnownCommands
    <3>3. Accepted(lane, held).tx = held.tx
      BY <2>1, <3>2, AcceptedLane
    <3>4. \A l \in Lanes : lanes'[l].tx = held.tx \/ lanes'[l] = lanes[l]
      BY <3>1, <3>3 DEF Core, Books, LanesOK
    <3> QED
      BY <1>3, <2>1, <2>2, <3>4, ReportingKept DEF TakeMessage
  <2> QED
    BY <2>3, <2>4
<1>4. CASE NoMessageNow
  BY <1>4, ReportingKept DEF NoMessageNow, Left
<1>5. ASSUME NEW lane \in Lanes, LaneLoop(lane) PROVE Reporting'
  BY <1>5, LaneLoopKeeps, ReportingKept
<1>6. CASE SendResult
  BY <1>6, SendResultReporting
<1>7. CASE NoResultNow
  BY <1>7, ReportingKept DEF NoResultNow, Left
<1>8. CASE Tick
  BY <1>8, TickCore, ReportingKept DEF Tick
<1> QED
  BY <1>1, <1>2, <1>3, <1>4, <1>5, <1>6, <1>7, <1>8 DEF Next

-----------------------------------------------------------------------------
(* The invariant, third part: progress comes first.                        *)

Pasts ==
  [probed : SUBSET Commands, stopped : SUBSET Commands,
   express : SUBSET Commands, aim : [Commands -> Commands \cup {NoTransaction}]]

\* The history a taken command leaves.
LEMMA TakePast ==
  ASSUME Core, past \in Pasts, TakeMessage, LaneFor(held.command) # "none"
  PROVE  LET lane == LaneFor(held.command)
             started == StartedOn(lane, held)
             interrupts == /\ started /\ handler.kind = "application"
                           /\ Interrupts(handler, held.command) IN
         /\ past' \in Pasts /\ past'.stopped = past.stopped
         /\ past'.probed = IF started /\ held.command.kind = "probed"
                           THEN past.probed \cup {held.tx} ELSE past.probed
         /\ past'.express = IF lane = "interrupt"
                            THEN past.express \cup {held.tx} ELSE past.express
         /\ past'.aim[held.tx] = IF interrupts THEN handler.pair.operation
                                 ELSE past.aim[held.tx]
         /\ \A c \in Commands \ {held.tx} : past'.aim[c] = past.aim[c]
<1> DEFINE lane == LaneFor(held.command)
           tx == held.tx
           started == StartedOn(lane, held)
           interrupts == /\ started /\ handler.kind = "application"
                         /\ Interrupts(handler, held.command)
<1>1. tx \in Commands
  BY TakeLeft DEF Core
<1>2. PICK p : p = IF started /\ held.command.kind = "probed"
                   THEN past.probed \cup {tx} ELSE past.probed
  OBVIOUS
<1>3. PICK e : e = IF lane = "interrupt" THEN past.express \cup {tx} ELSE past.express
  OBVIOUS
<1>4. PICK o : o = IF interrupts THEN handler.pair.operation ELSE past.aim[tx]
  OBVIOUS
<1>5. past' = [past EXCEPT !.probed = p, !.express = e, !.aim[tx] = o]
  BY <1>2, <1>3, <1>4 DEF TakeMessage, Pasts
<1>6. p \in SUBSET Commands /\ e \in SUBSET Commands
  BY <1>1, <1>2, <1>3 DEF Pasts
<1>7. o \in Commands \cup {NoTransaction}
  <2>1. CASE interrupts
    <3>1. ApplicationFits(handler, lanes, Left)
      BY <2>1, HandlerKind DEF Core, HandlerFits, DeclarativeFits
    <3> QED
      BY <1>4, <2>1, <3>1 DEF ApplicationFits, ApplicationHandlers
  <2>2. CASE ~interrupts
    BY <1>1, <1>4, <2>2 DEF Pasts
  <2> QED
    BY <2>1, <2>2
<1>8. PICK f : f = [past.aim EXCEPT ![tx] = o]
  OBVIOUS
<1>9. /\ f \in [Commands -> Commands \cup {NoTransaction}] /\ f[tx] = o
      /\ \A c \in Commands \ {tx} : f[c] = past.aim[c]
  BY <1>1, <1>7, <1>8 DEF Pasts
<1>10. past' = [past EXCEPT !.probed = p, !.express = e, !.aim = f]
  BY <1>5, <1>8 DEF Pasts
<1>11. /\ past' \in Pasts /\ past'.stopped = past.stopped /\ past'.probed = p
       /\ past'.express = e /\ past'.aim = f
  BY <1>6, <1>9, <1>10 DEF Pasts
<1> QED
  BY <1>2, <1>3, <1>4, <1>9, <1>11

\* The history a lane's loop leaves.
LEMMA LoopPast ==
  ASSUME past \in Pasts, NEW lane \in Lanes, LaneLoop(lane)
  PROVE  /\ past' \in Pasts /\ past'.probed = past.probed
         /\ past'.express = past.express /\ past'.aim = past.aim
         /\ past.stopped \subseteq past'.stopped
<1>1. CASE past' = past
  BY <1>1
<1>2. ASSUME NEW X \in SUBSET Commands,
             past' = [past EXCEPT !.stopped = @ \cup X]
      PROVE  /\ past' \in Pasts /\ past'.probed = past.probed
             /\ past'.express = past.express /\ past'.aim = past.aim
             /\ past.stopped \subseteq past'.stopped
  BY <1>2 DEF Pasts
<1>3. \/ past' = past
      \/ \E h \in Loops(handler) :
           past' = [past EXCEPT !.stopped =
                      @ \cup { s \in Commands : /\ h.kind = "application"
                                                /\ handler.pair.interrupt = s
                                                /\ h.results[s] = "SUCCEEDED" }]
  BY DEF LaneLoop
<1>4. \/ past' = past
      \/ \E X \in SUBSET Commands : past' = [past EXCEPT !.stopped = @ \cup X]
  <2>1. ASSUME NEW h \in Loops(handler),
               past' = [past EXCEPT !.stopped =
                          @ \cup { s \in Commands : /\ h.kind = "application"
                                                    /\ handler.pair.interrupt = s
                                                    /\ h.results[s] = "SUCCEEDED" }]
        PROVE  \E X \in SUBSET Commands : past' = [past EXCEPT !.stopped = @ \cup X]
    BY <2>1
  <2> QED
    BY <1>3, <2>1
<1> QED
  BY <1>1, <1>2, <1>4

\* A probed command of which nothing has been reported is on its way to report
\* progress: in the first loop after its start, or waiting for the sender.
OnItsWay(l) ==
  /\ l = "main" /\ handler.kind = "declarative"
  /\ \/ /\ lanes[l].state = "ACTIVE" /\ lanes[l].age = 0
        /\ step = "main" /\ handler.result = "IN_PROGRESS"
     \/ lanes[l].state = "RESULT_READY" /\ lanes[l].pending = "IN_PROGRESS"

Announcing ==
  /\ past \in Pasts
  /\ past.probed \subseteq Left
  /\ ProgressFirst
  /\ \A l \in Lanes :
       lanes[l].tx \in past.probed /\ reports[lanes[l].tx] = <<>> => OnItsWay(l)

\* Outside the loop of the main lane a command on its way waits for the sender.
LEMMA AnnouncingKept ==
  ASSUME Announcing, step # "main", Left' = Left, reports' = reports,
         past' \in Pasts, past'.probed = past.probed,
         handler'.kind = handler.kind,
         \A l \in Lanes : lanes'[l].tx = lanes[l].tx,
         lanes'["main"].state = lanes["main"].state,
         lanes'["main"].pending = lanes["main"].pending
  PROVE  Announcing'
<1>1. ASSUME NEW l \in Lanes, lanes'[l].tx \in past'.probed,
             reports'[lanes'[l].tx] = <<>>
      PROVE  OnItsWay(l)'
  <2>1. OnItsWay(l)
    BY <1>1 DEF Announcing
  <2> QED
    BY <2>1 DEF OnItsWay
<1>2. ProgressFirst'
  BY DEF Announcing, ProgressFirst
<1> QED
  BY <1>1, <1>2 DEF Announcing

\* Which handler a build has never changes.
LEMMA TakeKind ==
  ASSUME Core, TakeMessage
  PROVE  handler'.kind = handler.kind
<1>1. \/ handler' = handler
      \/ handler' = Start(handler, held.tx, held.command)
  BY DEF TakeMessage
<1>2. CASE handler \in DeclarativeHandlers
  BY <1>1, <1>2, HandlerKind DEF Start, DeclarativeStart, DeclarativeHandlers
<1>3. CASE handler \in ApplicationHandlers
  BY <1>1, <1>3, HandlerKind DEF Start, ApplicationStart, ApplicationHandlers
<1> QED
  BY <1>2, <1>3 DEF Core, HandlerFits, DeclarativeFits, ApplicationFits

LEMMA LoopKind ==
  ASSUME Core, NEW lane \in Lanes, LaneLoop(lane)
  PROVE  handler'.kind = handler.kind
<1> DEFINE tx == lanes[lane].tx
<1>1. \/ handler' = handler
      \/ handler' = Cancel(handler, tx)
      \/ \E h \in Loops(handler) : handler' = h \/ \E c : handler' = Take(h, c)
  BY DEF LaneLoop
<1>2. CASE handler' = Cancel(handler, tx)
  <2>1. CASE handler \in DeclarativeHandlers
    BY <1>2, <2>1, HandlerKind DEF Cancel, IdleDeclarative
  <2>2. CASE handler \in ApplicationHandlers
    BY <1>2, <2>2, HandlerKind DEF Cancel, ApplicationHandlers
  <2> QED
    BY <2>1, <2>2 DEF Core, HandlerFits, DeclarativeFits, ApplicationFits
<1>3. ASSUME NEW h \in Loops(handler), NEW c, handler' = Take(h, c)
      PROVE  handler'.kind = handler.kind
  <2>1. h.kind = handler.kind
    BY <1>3, LoopsFit
  <2>2. CASE h \in DeclarativeHandlers
    BY <1>3, <2>1, <2>2, HandlerKind
    DEF Take, DeclarativeTake, IdleDeclarative, DeclarativeHandlers
  <2>3. CASE h \in ApplicationHandlers
    BY <1>3, <2>1, <2>3, HandlerKind DEF Take, ApplicationHandlers
  <2> QED
    BY <1>3, <2>2, <2>3, LoopsFit
    DEF Core, HandlerFits, DeclarativeFits, ApplicationFits
<1> QED
  BY <1>1, <1>2, <1>3, LoopsFit

\* A probed command starts with its progress waiting to be collected.
LEMMA TakeMessageAnnouncing ==
  ASSUME Core, Reporting, Announcing, TakeMessage
  PROVE  Announcing'
<1> DEFINE lane == LaneFor(held.command)
           tx == held.tx
           started == StartedOn(lane, held)
<1>1. /\ held \in [tx : Commands, command : CommandsFor(handler)]
      /\ tx \in Commands \ Left /\ Left' = Left \cup {tx}
  BY TakeLeft DEF Core
<1>2. step = "message" /\ step' = "main" /\ reports' = reports
  BY DEF TakeMessage
<1>3. \A l \in Lanes :
        lanes[l].tx \in past.probed /\ reports[lanes[l].tx] = <<>> =>
          /\ l = "main" /\ handler.kind = "declarative"
          /\ lanes[l].state = "RESULT_READY" /\ lanes[l].pending = "IN_PROGRESS"
  BY <1>2 DEF Announcing, OnItsWay
<1>4. CASE lane = "none"
  <2>1. UNCHANGED <<lanes, handler, past>>
    BY <1>4 DEF TakeMessage
  <2>2. ProgressFirst'
    BY <1>2, <2>1 DEF Announcing, ProgressFirst
  <2>3. \A l \in Lanes :
          lanes'[l].tx \in past'.probed /\ reports'[lanes'[l].tx] = <<>> => OnItsWay(l)'
    BY <1>2, <1>3, <2>1 DEF OnItsWay
  <2> QED
    BY <1>1, <2>1, <2>2, <2>3 DEF Announcing
<1>5. CASE lane # "none"
  <2>1. /\ lanes' = [lanes EXCEPT ![lane] = Accepted(lane, held)]
        /\ lane \in Lanes /\ lanes[lane].state = "IDLE"
        /\ handler' = IF started THEN Start(handler, tx, held.command) ELSE handler
    BY <1>5, LaneForIdle DEF TakeMessage
  <2>2. held \in [tx : Commands, command : NetCommands \cup {Foreign, Empty}]
    BY <1>1, KnownCommands
  <2>3. /\ Accepted(lane, held).tx = tx /\ Accepted(lane, held).age = 0
        /\ started => Accepted(lane, held).state = "ACTIVE"
    BY <1>1, <2>2, AcceptedLane
  <2>4. /\ lanes'[lane] = Accepted(lane, held)
        /\ \A l \in Lanes \ {lane} : lanes'[l] = lanes[l]
    BY <2>1 DEF Core, Books, LanesOK
  <2>5. /\ past' \in Pasts
        /\ past'.probed = IF started /\ held.command.kind = "probed"
                          THEN past.probed \cup {tx} ELSE past.probed
    BY <1>5, TakePast DEF Announcing
  <2>6. past'.probed \subseteq Left'
    BY <1>1, <2>5 DEF Announcing
  <2>7. reports[tx] = <<>> /\ tx \notin past.probed
    BY <1>1 DEF Reporting, Announcing
  <2>8. ProgressFirst'
    BY <1>2, <2>5, <2>7 DEF Announcing, ProgressFirst
  <2>9. ASSUME started, held.command.kind = "probed"
        PROVE  lane = "main" /\ handler'.kind = "declarative"
               /\ handler'.result = "IN_PROGRESS"
    <3>1. ~ApplicationFits(handler, lanes, Left)
      <4>1. held.command # Empty
        BY <2>9 DEF StartedOn
      <4>2. handler.kind # "application"
        BY <1>1, <2>9, <4>1, KnownCommands
      <4> QED
        BY <4>2, HandlerKind DEF ApplicationFits
    <3>2. DeclarativeFits(handler, lanes) /\ handler.kind = "declarative"
      BY <3>1, HandlerKind DEF Core, HandlerFits, DeclarativeFits
    <3>3. lane = "main"
      BY <2>9, <3>2 DEF StartedOn, Registered
    <3>4. handler = IdleDeclarative
      BY <2>1, <3>2, <3>3 DEF DeclarativeFits, Open
    <3>5. /\ held.command \in NetCommands \cup {Foreign}
          /\ DeclarativeStatus(IdleDeclarative, held.command) = "STARTED"
      BY <2>2, <2>9, <3>2, <3>4 DEF StartedOn, StartStatus
    <3>6. handler' = DeclarativeStart(IdleDeclarative, tx, held.command)
      BY <2>1, <2>9, <3>2, <3>4 DEF Start
    <3>7. handler' \in DeclarativeHandlers /\ handler'.result = "IN_PROGRESS"
      BY <1>1, <2>9, <3>5, <3>6, DeclarativeStarts
    <3> QED
      BY <3>3, <3>7, HandlerKind
  <2>10. handler'.kind = handler.kind
    BY TakeKind
  <2>11. ASSUME NEW l \in Lanes, lanes'[l].tx \in past'.probed,
                reports'[lanes'[l].tx] = <<>>
         PROVE  OnItsWay(l)'
    <3>1. CASE l = lane
      <4>1. lanes'[l].tx = tx /\ started /\ held.command.kind = "probed"
        BY <2>3, <2>4, <2>5, <2>7, <2>11, <3>1
      <4> QED
        BY <1>2, <2>3, <2>4, <2>9, <3>1, <4>1 DEF OnItsWay
    <3>2. CASE l # lane
      <4>1. lanes'[l] = lanes[l] /\ lanes[l].tx \in Left \cup {NoTransaction}
        <5>1. LaneOK(lanes[l], Left)
          BY DEF Core, Books, LanesOK
        <5> QED
          BY <2>4, <3>2, <5>1 DEF LaneOK
      <4>2. tx # NoTransaction
        BY <1>1, HandlerAssumption DEF Commands, NoTransaction
      <4>3. lanes[l].tx \in past.probed
        BY <1>1, <2>5, <2>11, <4>1, <4>2
      <4> QED
        BY <1>2, <1>3, <2>10, <2>11, <4>1, <4>3 DEF OnItsWay
    <3> QED
      BY <3>1, <3>2
  <2> QED
    BY <2>5, <2>6, <2>8, <2>11 DEF Announcing
<1> QED
  BY <1>4, <1>5

\* The loop that finds a command on its way collects the progress: the command
\* is too young to have expired, and the probe is not asked before.
LEMMA LaneLoopAnnouncing ==
  ASSUME Core, CompletionTimeout > 0, Announcing, NEW lane \in Lanes, LaneLoop(lane)
  PROVE  Announcing'
<1> DEFINE d == lanes[lane]
<1>1. /\ \A l \in Lanes : /\ lanes'[l].tx = lanes[l].tx
                          /\ l # lane => lanes'[l] = lanes[l]
      /\ Left' = Left /\ reports' = reports /\ step = lane
  BY LaneLoopKeeps
<1>2. past' \in Pasts /\ past'.probed = past.probed
  BY LoopPast DEF Announcing
<1>3. handler'.kind = handler.kind
  BY LoopKind
<1>4. CASE lane # "main"
  BY <1>1, <1>2, <1>3, <1>4, AnnouncingKept DEF Lanes
<1>5. CASE lane = "main"
  <2>1. ProgressFirst'
    BY <1>1, <1>2 DEF Announcing, ProgressFirst
  <2>2. ASSUME NEW l \in Lanes, lanes'[l].tx \in past'.probed,
               reports'[lanes'[l].tx] = <<>>
        PROVE  OnItsWay(l)'
    <3>1. OnItsWay(l)
      BY <1>1, <1>2, <2>2 DEF Announcing
    <3>2. l = "main" /\ handler.kind = "declarative"
      BY <3>1 DEF OnItsWay
    <3>3. CASE d.state # "ACTIVE"
      <4>1. lanes' = lanes
        BY <3>3 DEF LaneLoop
      <4>2. d.state = "RESULT_READY" /\ d.pending = "IN_PROGRESS"
        BY <1>5, <3>1, <3>3 DEF OnItsWay
      <4> QED
        BY <1>3, <1>5, <3>2, <4>1, <4>2 DEF OnItsWay
    <3>4. CASE d.state = "ACTIVE"
      <4>1. d.age = 0 /\ handler.result = "IN_PROGRESS"
        BY <1>5, <3>1, <3>4 DEF OnItsWay
      <4>2. ~Expired(d)
        BY <4>1, DispatcherAssumption DEF Expired
      <4>3. DeclarativeFits(handler, lanes)
        BY <3>2, HandlerKind DEF Core, HandlerFits, ApplicationFits
      <4>4. \A h \in Loops(handler) : h = handler
        BY <4>1, <4>3, LoopsFit, DispatcherAssumption DEF Statuses
      <4>5. ResultFor(handler, d.tx) = {handler.tx}
        BY <3>2, <4>1, DispatcherAssumption DEF ResultFor, Statuses
      <4>6. PICK h \in Loops(handler) : \E tx \in ResultFor(h, d.tx) :
               lanes' = [lanes EXCEPT ![lane] = Collected(d, tx, ResultOf(h, tx))]
        BY <3>4, <4>2, <4>4, <4>5 DEF LaneLoop
      <4>7. PICK tx \in ResultFor(h, d.tx) :
               lanes' = [lanes EXCEPT ![lane] = Collected(d, tx, ResultOf(h, tx))]
        BY <4>6
      <4>8. ResultOf(h, tx) = "IN_PROGRESS"
        BY <3>2, <4>1, <4>4 DEF ResultOf
      <4>9. lanes' = [lanes EXCEPT ![lane] = Stage(d, "IN_PROGRESS")]
        <5>1. Collected(d, tx, ResultOf(h, tx)) = Stage(d, ResultOf(h, tx))
          BY <3>4, OwnResult
        <5> QED
          BY <4>7, <4>8, <5>1
      <4>10. LaneOK(d, Left) /\ lanes'[lane] = Stage(d, "IN_PROGRESS")
        BY <4>9 DEF Core, Books, LanesOK
      <4>11. /\ lanes'[lane].state = "RESULT_READY"
             /\ lanes'[lane].pending = "IN_PROGRESS"
        BY <3>4, <4>10, StageOK DEF Statuses
      <4> QED
        BY <1>3, <1>5, <3>2, <4>11 DEF OnItsWay
    <3> QED
      BY <3>3, <3>4
  <2> QED
    BY <1>1, <1>2, <2>1, <2>2 DEF Announcing
<1> QED
  BY <1>4, <1>5

LEMMA SendResultAnnouncing ==
  ASSUME Core, Reporting, Announcing, SendResult
  PROVE  Announcing'
<1> DEFINE lane == ResultLane
           d == lanes[lane]
           a == DispatcherTake(d)
<1>1. /\ d.tx \in Left /\ d.pending \in Statuses \ {"INVALID"}
      /\ \A c \in Commands \ {d.tx} : reports'[c] = reports[c]
      /\ reports'[d.tx] = Append(reports[d.tx], d.pending)
  BY Reported
<1>2. /\ step = "result" /\ past' = past /\ handler' = handler
      /\ d.state = "RESULT_READY" /\ lanes' = [lanes EXCEPT ![lane] = a]
  BY DEF SendResult
<1>3. /\ lane \in Lanes /\ Left' = Left /\ Left \subseteq Commands
      /\ LanesOK(lanes, Left)
  BY SendResultCore, ResultLaneIn DEF Core, Books, LanesOK
<1>4. reports[d.tx] \in Seq(Statuses \ {"INVALID"})
  BY <1>1, <1>3 DEF Reporting
<1>5. ProgressFirst'
  <2> SUFFICES ASSUME NEW c \in past.probed
               PROVE  reports'[c] # <<>> => reports'[c][1] = "IN_PROGRESS"
    BY <1>2 DEF ProgressFirst
  <2>1. c \in Commands
    BY <1>3 DEF Announcing
  <2>2. CASE c # d.tx
    BY <1>1, <2>1, <2>2 DEF Announcing, ProgressFirst
  <2>3. CASE c = d.tx /\ reports[c] = <<>>
    <3>1. OnItsWay(lane)
      BY <1>3, <2>3 DEF Announcing
    <3>2. d.pending = "IN_PROGRESS"
      BY <1>2, <3>1 DEF OnItsWay
    <3>3. reports'[d.tx] = Append(<<>>, "IN_PROGRESS")
      BY <1>1, <2>3, <3>2
    <3>4. reports'[d.tx][1] = "IN_PROGRESS"
      BY <3>3
    <3> QED
      BY <2>3, <3>4
  <2>4. CASE c = d.tx /\ reports[c] # <<>>
    <3>1. reports[c][1] = "IN_PROGRESS" /\ Len(reports[c]) >= 1
      BY <1>4, <2>4 DEF Announcing, ProgressFirst
    <3>2. reports'[c][1] = reports[c][1]
      BY <1>1, <1>4, <2>4, <3>1
    <3> QED
      BY <3>1, <3>2
  <2> QED
    BY <2>2, <2>3, <2>4
<1>6. ASSUME NEW l \in Lanes, lanes'[l].tx \in past'.probed,
             reports'[lanes'[l].tx] = <<>>
      PROVE  OnItsWay(l)'
  <2>1. lanes'[l].tx # d.tx /\ lanes'[l].tx \in Commands
    BY <1>1, <1>2, <1>3, <1>4, <1>6 DEF Announcing
  <2>2. l # lane
    <3>1. LaneOK(d, Left)
      BY <1>3 DEF LanesOK
    <3>2. a.tx \in {d.tx, NoTransaction}
      BY <1>2, <3>1, TakeOK
    <3>3. lanes'[lane] = a
      BY <1>2, <1>3 DEF LanesOK
    <3> QED
      BY <2>1, <3>2, <3>3, HandlerAssumption DEF Commands, NoTransaction
  <2>3. lanes'[l] = lanes[l]
    BY <1>2, <1>3, <2>2 DEF LanesOK
  <2>4. OnItsWay(l)
    BY <1>1, <1>2, <1>6, <2>1, <2>3 DEF Announcing
  <2> QED
    BY <1>2, <2>3, <2>4 DEF OnItsWay
<1> QED
  BY <1>2, <1>3, <1>5, <1>6 DEF Announcing

LEMMA AnnouncingStep ==
  ASSUME CompletionTimeout > 0, Core, Reporting, Announcing, [Next]_vars
  PROVE  Announcing'
<1>1. CASE UNCHANGED vars
  BY <1>1 DEF vars, Announcing, ProgressFirst, OnItsWay, Left
<1>2. ASSUME NEW command \in CommandsFor(handler), Arrive(command)
      PROVE  Announcing'
  <2>1. Left' = Left
    BY <1>2, ArriveCore
  <2> QED
    BY <1>2, <2>1, AnnouncingKept DEF Arrive, Announcing
<1>3. CASE TakeMessage
  BY <1>3, TakeMessageAnnouncing
<1>4. CASE NoMessageNow
  <2>1. Left' = Left
    BY <1>4 DEF NoMessageNow, Left
  <2> QED
    BY <1>4, <2>1, AnnouncingKept DEF NoMessageNow, Announcing
<1>5. ASSUME NEW lane \in Lanes, LaneLoop(lane) PROVE Announcing'
  BY <1>5, LaneLoopAnnouncing
<1>6. CASE SendResult
  BY <1>6, SendResultAnnouncing
<1>7. CASE NoResultNow
  <2>1. Left' = Left
    BY <1>7 DEF NoResultNow, Left
  <2> QED
    BY <1>7, <2>1, AnnouncingKept DEF NoResultNow, Announcing
<1>8. CASE Tick
  <2>1. handler'.kind = handler.kind
    BY <1>8, HandlerKind
    DEF Tick, AgedHandler, Core, HandlerFits, DeclarativeFits, DeclarativeHandlers
  <2>2. "main" \in Lanes
    BY DEF Lanes
  <2> QED
    BY <1>8, <2>1, <2>2, TickCore, AnnouncingKept DEF Tick, Announcing
<1> QED
  BY <1>1, <1>2, <1>3, <1>4, <1>5, <1>6, <1>7, <1>8 DEF Next

-----------------------------------------------------------------------------
(* The invariant, fourth part: an interrupted operation and its stop.      *)

StoppedFor(c, p) == \E s \in p.stopped : p.aim[s] = c

\* What the handler knows about an interruption comes from a stop that
\* succeeded, and its interrupt is aimed at its operation.
InterruptFits(h, p) ==
  /\ h.pair.interrupted =>
       h.pair.operation # NoTransaction /\ StoppedFor(h.pair.operation, p)
  /\ h.pair.operation # NoTransaction /\ h.pair.interrupt # NoTransaction =>
       p.aim[h.pair.interrupt] = h.pair.operation
  /\ \A c \in Commands : h.results[c] = "INTERRUPTED" => StoppedFor(c, p)
  /\ h.pair.operation \notin p.stopped /\ h.pair.interrupt \notin p.stopped

\* The answer of a stop on the interrupt lane is staged, or will be in this
\* iteration.
Answering(s) ==
  /\ lanes["interrupt"].tx = s
  /\ \/ /\ lanes["interrupt"].state = "RESULT_READY"
        /\ lanes["interrupt"].pending # "IN_PROGRESS"
     \/ /\ lanes["interrupt"].state = "ACTIVE" /\ step \in Lanes
        /\ handler.kind = "application" /\ handler.results[s] = "SUCCEEDED"

Stopping ==
  /\ past.stopped \subseteq Left /\ past.express \subseteq Left
  /\ \A l \in Lanes :
       lanes[l].pending = "INTERRUPTED" => StoppedFor(lanes[l].tx, past)
  /\ \A l \in Lanes : lanes[l].tx \in past.express => l = "interrupt"
  /\ \A s \in past.stopped \cap past.express : Outcome(s) \/ Answering(s)
  /\ handler.kind = "application" => InterruptFits(handler, past)
  /\ InterruptedAfterStop

\* The handler's loop: a stop that succeeds marks the operation it is aimed at,
\* and the mark becomes the operation's outcome.
LEMMA LoopInterrupts ==
  ASSUME NEW T, NEW L, LanesOK(L, T), NEW h, ApplicationFits(h, L, T),
         NEW g \in ApplicationLoop(h),
         NEW p, InterruptFits(h, p), p.stopped \subseteq Commands, NEW q,
         q.aim = p.aim,
         q.stopped = p.stopped \cup { s \in Commands : /\ h.pair.interrupt = s
                                                       /\ g.results[s] = "SUCCEEDED" }
  PROVE  InterruptFits(g, q)
<1> DEFINE op == h.pair.operation
           int == h.pair.interrupt
<1>1. h \in ApplicationHandlers /\ g \in ApplicationHandlers
  BY ApplicationLoops DEF ApplicationFits
<1>2. \A c : StoppedFor(c, p) => StoppedFor(c, q)
  BY DEF StoppedFor
<1>3. NoTransaction \notin Commands
  BY HandlerAssumption DEF Commands, NoTransaction
<1>4. int \in Commands => h.results[int] = NoResult
  BY <1>3 DEF ApplicationFits
<1>5. op \in Commands \cup {NoTransaction} /\ int \in Commands \cup {NoTransaction}
  BY <1>1 DEF ApplicationHandlers
<1>6. op # NoTransaction => op # int
  BY DEF ApplicationFits
<1>7. CASE g = h
  <2>1. q.stopped = p.stopped
    BY <1>4, <1>7, DispatcherAssumption DEF Statuses
  <2> QED
    BY <1>2, <1>7, <2>1 DEF InterruptFits
<1>8. ASSUME NEW stopped \in BOOLEAN, StopEnded(h, g, stopped)
      PROVE  InterruptFits(g, q)
  <2>1. /\ int # NoTransaction /\ g.pair.operation = op
        /\ g.pair.interrupt = NoTransaction
        /\ g.pair.interrupted <=> h.pair.interrupted \/ (stopped /\ op # NoTransaction)
    BY <1>8 DEF StopEnded
  <2>2. /\ g.results[int] = IF stopped THEN "SUCCEEDED" ELSE "FAILED"
        /\ \A c \in Commands \ {int} : g.results[c] = h.results[c]
    BY <1>1, <1>5, <1>8, <2>1 DEF StopEnded, ApplicationHandlers
  <2>3. int \in Commands
    BY <1>5, <2>1
  <2>4. q.stopped = IF stopped THEN p.stopped \cup {int} ELSE p.stopped
    BY <2>2, <2>3
  <2>5. \A c \in Commands : g.results[c] = "INTERRUPTED" => StoppedFor(c, q)
    BY <1>2, <2>2 DEF InterruptFits
  <2>6. g.pair.interrupted =>
          g.pair.operation # NoTransaction /\ StoppedFor(g.pair.operation, q)
    <3>1. CASE h.pair.interrupted
      BY <1>2, <2>1, <3>1 DEF InterruptFits
    <3>2. CASE stopped /\ op # NoTransaction
      <4>1. q.aim[int] = op /\ int \in q.stopped
        BY <2>1, <2>4, <3>2 DEF InterruptFits
      <4> QED
        BY <2>1, <3>2, <4>1 DEF StoppedFor
    <3> QED
      BY <2>1, <3>1, <3>2
  <2>7. g.pair.operation \notin q.stopped /\ g.pair.interrupt \notin q.stopped
    BY <1>3, <1>6, <2>1, <2>3, <2>4 DEF InterruptFits
  <2> QED
    BY <2>1, <2>5, <2>6, <2>7 DEF InterruptFits
<1>9. CASE OperationEnded(h, g)
  <2>1. /\ op # NoTransaction /\ g.pair.operation = NoTransaction
        /\ g.pair.interrupt = int /\ ~g.pair.interrupted
    BY <1>9 DEF OperationEnded
  <2>2. op \in Commands
    BY <1>5, <2>1
  <2>3. /\ g.results[op] = IF h.pair.interrupted THEN "INTERRUPTED" ELSE "SUCCEEDED"
        /\ \A c \in Commands \ {op} : g.results[c] = h.results[c]
    BY <1>1, <1>9, <2>2 DEF OperationEnded, ApplicationHandlers
  <2>4. q.stopped = p.stopped
    BY <1>4, <1>6, <2>1, <2>3, DispatcherAssumption DEF Statuses
  <2>5. \A c \in Commands : g.results[c] = "INTERRUPTED" => StoppedFor(c, q)
    BY <1>2, <2>3 DEF InterruptFits
  <2>6. g.pair.operation \notin q.stopped /\ g.pair.interrupt \notin q.stopped
    BY <1>3, <2>1, <2>4 DEF InterruptFits
  <2> QED
    BY <2>1, <2>5, <2>6 DEF InterruptFits
<1> QED
  BY <1>1, <1>7, <1>8, <1>9, ApplicationLoops

\* Taking or cancelling a result adds nothing.
LEMMA TakeInterrupts ==
  ASSUME NEW h \in ApplicationHandlers, NEW p, InterruptFits(h, p),
         NEW tx \in Commands, NEW g, g = Take(h, tx)
  PROVE  InterruptFits(g, p)
<1>1. g.pair = h.pair /\ g.results = [h.results EXCEPT ![tx] = NoResult]
  BY ApplicationTakes
<1>2. \A c \in Commands : g.results[c] = "INTERRUPTED" => h.results[c] = "INTERRUPTED"
  BY <1>1, DispatcherAssumption DEF ApplicationHandlers, Statuses
<1> QED
  BY <1>1, <1>2 DEF InterruptFits

LEMMA CancelInterrupts ==
  ASSUME NEW h \in ApplicationHandlers, NEW p, InterruptFits(h, p),
         p.stopped \subseteq Commands,
         NEW tx \in Commands, NEW g, g = Cancel(h, tx)
  PROVE  InterruptFits(g, p)
<1>1. /\ g.pair.operation = Without(tx, h.pair.operation)
      /\ g.pair.interrupt = Without(tx, h.pair.interrupt)
      /\ g.pair.interrupted => h.pair.interrupted /\ h.pair.operation # tx
      /\ g.results = [h.results EXCEPT ![tx] = NoResult]
  BY ApplicationCancels
<1>2. \A c \in Commands : g.results[c] = "INTERRUPTED" => h.results[c] = "INTERRUPTED"
  BY <1>1, DispatcherAssumption DEF ApplicationHandlers, Statuses
<1>3. NoTransaction \notin p.stopped
  BY HandlerAssumption DEF Commands, NoTransaction
<1> QED
  BY <1>1, <1>2, <1>3 DEF InterruptFits, Without

\* Between two iterations and before the result step, an answer is staged, so
\* that steps that leave lanes, handler and reports alone keep it.
LEMMA StoppingKept ==
  ASSUME Stopping, step \notin Lanes, Left' = Left, reports' = reports,
         past' = past, handler'.kind = handler.kind,
         handler.kind = "application" => handler' = handler,
         \A l \in Lanes : /\ lanes'[l].state = lanes[l].state
                          /\ lanes'[l].tx = lanes[l].tx
                          /\ lanes'[l].pending = lanes[l].pending
  PROVE  Stopping'
<1>1. \A s : Outcome(s)' <=> Outcome(s)
  BY DEF Outcome
<1>2. \A s : Answering(s) => Answering(s)'
  BY DEF Answering, Lanes
<1>3. InterruptedAfterStop'
  BY <1>1 DEF Stopping, InterruptedAfterStop
<1>4. handler'.kind = "application" => InterruptFits(handler', past')
  BY DEF Stopping
<1> QED
  BY <1>1, <1>2, <1>3, <1>4 DEF Stopping

LEMMA TakeMessageStopping ==
  ASSUME Core, past \in Pasts, Stopping, TakeMessage
  PROVE  Stopping'
<1> DEFINE lane == LaneFor(held.command)
           tx == held.tx
           started == StartedOn(lane, held)
<1>1. /\ held \in [tx : Commands, command : CommandsFor(handler)]
      /\ tx \in Commands \ Left /\ Left' = Left \cup {tx} /\ Left \subseteq Commands
  BY TakeLeft DEF Core, Left
<1>2. step = "message" /\ reports' = reports /\ handler'.kind = handler.kind
  BY TakeKind DEF TakeMessage
<1>3. \A s : Outcome(s)' <=> Outcome(s)
  BY <1>2 DEF Outcome
<1>4. \A s : Answering(s) => /\ lanes["interrupt"].tx = s
                             /\ lanes["interrupt"].state = "RESULT_READY"
                             /\ lanes["interrupt"].pending # "IN_PROGRESS"
  BY <1>2 DEF Answering, Lanes
<1>5. CASE lane = "none"
  <2>1. UNCHANGED <<lanes, handler, past>>
    BY <1>5 DEF TakeMessage
  <2>2. \A s : Answering(s) => Answering(s)'
    BY <1>4, <2>1 DEF Answering
  <2>3. InterruptedAfterStop'
    BY <1>3, <1>2, <2>1 DEF Stopping, InterruptedAfterStop
  <2> QED
    BY <1>1, <1>2, <1>3, <2>1, <2>2, <2>3 DEF Stopping
<1>6. CASE lane # "none"
  <2>1. /\ lanes' = [lanes EXCEPT ![lane] = Accepted(lane, held)]
        /\ lane \in Lanes /\ lanes[lane].state = "IDLE"
        /\ handler' = IF started THEN Start(handler, tx, held.command) ELSE handler
    BY <1>6, LaneForIdle DEF TakeMessage
  <2>2. held \in [tx : Commands, command : NetCommands \cup {Foreign, Empty}]
    BY <1>1, KnownCommands
  <2>3. /\ Accepted(lane, held).tx = tx
        /\ Accepted(lane, held).pending # "INTERRUPTED"
    BY <1>1, <2>2, AcceptedLane, DispatcherAssumption DEF LaneOK, Statuses
  <2>4. /\ lanes'[lane] = Accepted(lane, held)
        /\ \A l \in Lanes \ {lane} : lanes'[l] = lanes[l]
    BY <2>1 DEF Core, Books, LanesOK
  <2>5. /\ past' \in Pasts /\ past'.stopped = past.stopped
        /\ past'.express = IF lane = "interrupt"
                           THEN past.express \cup {tx} ELSE past.express
        /\ past'.aim[tx] =
             IF started /\ handler.kind = "application"
                /\ Interrupts(handler, held.command)
             THEN handler.pair.operation ELSE past.aim[tx]
        /\ \A c \in Commands \ {tx} : past'.aim[c] = past.aim[c]
    BY <1>6, TakePast
  <2>6. \A c : StoppedFor(c, past') <=> StoppedFor(c, past)
    <3>1. \A s \in past.stopped : past'.aim[s] = past.aim[s]
      BY <1>1, <2>5 DEF Stopping
    <3> QED
      BY <2>5, <3>1 DEF StoppedFor
  <2>7. past'.stopped \subseteq Left' /\ past'.express \subseteq Left'
    BY <1>1, <2>5 DEF Stopping
  <2>8. \A l \in Lanes :
          lanes'[l].pending = "INTERRUPTED" => StoppedFor(lanes'[l].tx, past')
    BY <2>3, <2>4, <2>6 DEF Stopping
  <2>9. \A l \in Lanes : lanes'[l].tx \in past'.express => l = "interrupt"
    <3> TAKE l \in Lanes
    <3>1. CASE l = lane
      BY <1>1, <2>3, <2>4, <2>5, <3>1 DEF Stopping
    <3>2. CASE l # lane
      <4>1. LaneOK(lanes[l], Left)
        BY DEF Core, Books, LanesOK
      <4>2. lanes[l].tx # tx
        BY <1>1, <4>1, HandlerAssumption DEF LaneOK, Commands, NoTransaction
      <4> QED
        BY <2>4, <2>5, <3>2, <4>2 DEF Stopping
    <3> QED
      BY <3>1, <3>2
  <2>10. ASSUME NEW s \in past'.stopped \cap past'.express
         PROVE  Outcome(s)' \/ Answering(s)'
    <3>1. s \in past.stopped \cap past.express
      BY <1>1, <2>5, <2>10 DEF Stopping
    <3>2. CASE Outcome(s)
      BY <1>3, <3>2
    <3>3. CASE Answering(s)
      <4>1. lane # "interrupt"
        BY <1>4, <2>1, <3>3
      <4>2. lanes'["interrupt"] = lanes["interrupt"]
        BY <2>4, <4>1 DEF Lanes
      <4> QED
        BY <1>4, <3>3, <4>2 DEF Answering
    <3> QED
      BY <3>1, <3>2, <3>3 DEF Stopping
  <2>11. InterruptedAfterStop'
    <3>1. \A c \in Commands : \A s \in past.stopped :
            /\ past'.aim[s] = past.aim[s]
            /\ s \in past'.express <=> s \in past.express
      BY <1>1, <2>5 DEF Stopping
    <3> QED
      BY <1>2, <1>3, <2>5, <3>1 DEF Stopping, InterruptedAfterStop
  <2>12. ASSUME handler.kind = "application"
         PROVE  InterruptFits(handler', past')
    <3>1. /\ ApplicationFits(handler, lanes, Left) /\ handler \in ApplicationHandlers
          /\ LanesOK(lanes, Left) /\ InterruptFits(handler, past)
      BY <2>12, HandlerKind
      DEF Core, Books, HandlerFits, DeclarativeFits, ApplicationFits, Stopping
    <3>2. /\ handler.pair.operation \in Left \cup {NoTransaction}
          /\ handler.pair.interrupt \in Left \cup {NoTransaction}
      BY <3>1, PairLeft
    <3>3. handler.pair.interrupt # NoTransaction =>
            past'.aim[handler.pair.interrupt] = past.aim[handler.pair.interrupt]
      BY <1>1, <2>5, <3>2
    <3>4. CASE ~started
      <4>1. handler' = handler
        BY <2>1, <3>4
      <4> QED
        BY <2>5, <2>6, <3>1, <3>3, <4>1 DEF InterruptFits
    <3>5. CASE started
      <4>1. /\ held.command \in NetCommands
            /\ ApplicationStatus(handler, tx, held.command) = "STARTED"
            /\ handler' = ApplicationStart(handler, tx, held.command)
        BY <1>1, <2>1, <2>12, <3>5, KnownCommands DEF StartedOn, StartStatus, Start
      <4>2. tx \notin past.stopped /\ NoTransaction \notin past.stopped
        BY <1>1, HandlerAssumption DEF Stopping, Commands, NoTransaction
      <4>3. CASE Interrupts(handler, held.command)
        <5>1. StopBegun(handler, handler', tx)
          BY <1>1, <3>1, <4>1, <4>3, ApplicationStarts
        <5>2. past'.aim[tx] = handler.pair.operation
          BY <2>5, <2>12, <3>5, <4>3
        <5> QED
          BY <2>5, <2>6, <3>1, <4>2, <5>1, <5>2 DEF InterruptFits, StopBegun
      <4>4. CASE ~Interrupts(handler, held.command)
        <5>1. OperationBegun(handler, handler', tx)
          BY <1>1, <3>1, <4>1, <4>4, ApplicationStarts
        <5>2. \A c \in Commands : handler'.results[c] = "INTERRUPTED" =>
                                    handler.results[c] = "INTERRUPTED"
          BY <1>1, <3>1, <5>1 DEF OperationBegun, ApplicationHandlers
        <5>3. /\ handler'.pair.operation = tx /\ ~handler'.pair.interrupted
              /\ handler'.pair.interrupt = NoTransaction
          BY <5>1 DEF OperationBegun
        <5> QED
          BY <2>5, <2>6, <3>1, <4>2, <5>2, <5>3 DEF InterruptFits
      <4> QED
        BY <4>3, <4>4
    <3> QED
      BY <3>4, <3>5
  <2> QED
    BY <1>2, <2>7, <2>8, <2>9, <2>10, <2>11, <2>12 DEF Stopping
<1> QED
  BY <1>5, <1>6

\* What a lane's loop must not lose, whichever way it ends.
LEMMA LoopStopping ==
  ASSUME Core, CompletionTimeout > 0, past \in Pasts, Stopping,
         NEW lane \in Lanes, LaneLoop(lane),
         past'.stopped \subseteq Left,
         lanes'[lane].pending = "INTERRUPTED" => StoppedFor(lanes[lane].tx, past'),
         handler.kind = "application" => InterruptFits(handler', past'),
         \A s \in past'.stopped \cap past.express : Outcome(s) \/ Answering(s)'
  PROVE  Stopping'
<1>1. /\ \A l \in Lanes : /\ lanes'[l].tx = lanes[l].tx
                          /\ l # lane => lanes'[l] = lanes[l]
      /\ Left' = Left /\ reports' = reports
  BY LaneLoopKeeps
<1>2. /\ past'.express = past.express /\ past'.aim = past.aim
      /\ past.stopped \subseteq past'.stopped
  BY LoopPast
<1>3. handler'.kind = handler.kind
  BY LoopKind
<1>4. \A s : Outcome(s)' <=> Outcome(s)
  BY <1>1 DEF Outcome
<1>5. \A c : StoppedFor(c, past) => StoppedFor(c, past')
  BY <1>2 DEF StoppedFor
<1>6. InterruptedAfterStop'
  BY <1>1, <1>2, <1>4 DEF Stopping, InterruptedAfterStop
<1>7. \A l \in Lanes :
        lanes'[l].pending = "INTERRUPTED" => StoppedFor(lanes'[l].tx, past')
  BY <1>1, <1>5 DEF Stopping
<1>8. \A l \in Lanes : lanes'[l].tx \in past'.express => l = "interrupt"
  BY <1>1, <1>2 DEF Stopping
<1>9. \A s \in past'.stopped \cap past'.express : Outcome(s)' \/ Answering(s)'
  BY <1>2, <1>4
<1> QED
  BY <1>1, <1>2, <1>3, <1>6, <1>7, <1>8, <1>9 DEF Stopping

\* The lanes after the loop of another one are still in front of the
\* interrupt lane's own loop.
LEMMA NextIsLane ==
  ASSUME NEW lane \in Lanes \ {"interrupt"}
  PROVE  NextStep[lane] \in Lanes
BY DEF Lanes, NextStep

LEMMA LaneLoopStopping ==
  ASSUME Core, CompletionTimeout > 0, past \in Pasts, Stopping,
         NEW lane \in Lanes, LaneLoop(lane)
  PROVE  Stopping'
<1> DEFINE d == lanes[lane]
           i == lanes["interrupt"]
<1>1. /\ \A l \in Lanes : l # lane => lanes'[l] = lanes[l]
      /\ Left' = Left /\ step = lane /\ step' = NextStep[lane]
  BY LaneLoopKeeps
<1>2. LanesOK(lanes, Left) /\ LaneOK(d, Left) /\ Left \subseteq Commands
  BY DEF Core, Books, LanesOK
<1>3. "interrupt" \in Lanes /\ lane \in Lanes
  BY DEF Lanes
<1>4. ASSUME NEW s, i.tx = s, i.state = "RESULT_READY", i.pending # "IN_PROGRESS"
      PROVE  Answering(s)'
  <2>1. lanes'["interrupt"] = i
    <3>1. CASE lane = "interrupt"
      BY <1>4, <3>1 DEF LaneLoop
    <3>2. CASE lane # "interrupt"
      BY <1>1, <1>3, <3>2
    <3> QED
      BY <3>1, <3>2
  <2> QED
    BY <1>4, <2>1 DEF Answering
<1>5. CASE d.state # "ACTIVE"
  <2>1. UNCHANGED <<lanes, handler, past>>
    BY <1>5 DEF LaneLoop
  <2>2. ASSUME NEW s \in past'.stopped \cap past.express
        PROVE  Outcome(s) \/ Answering(s)'
    <3>1. CASE i.state = "ACTIVE" /\ Answering(s)
      <4>1. lane # "interrupt"
        BY <1>5, <3>1
      <4>2. step' \in Lanes
        BY <1>1, <4>1, NextIsLane
      <4> QED
        BY <2>1, <3>1, <4>2 DEF Answering
    <3>2. CASE i.state # "ACTIVE" /\ Answering(s)
      BY <1>4, <3>2 DEF Answering
    <3> QED
      BY <2>1, <2>2, <3>1, <3>2 DEF Stopping
  <2>3. /\ past'.stopped \subseteq Left
        /\ lanes'[lane].pending = "INTERRUPTED" => StoppedFor(lanes[lane].tx, past')
        /\ handler.kind = "application" => InterruptFits(handler', past')
    BY <2>1 DEF Stopping
  <2> QED
    BY <2>2, <2>3, LoopStopping
<1>6. CASE d.state = "ACTIVE" /\ Expired(d)
  <2>1. /\ lanes' = [lanes EXCEPT ![lane] = Stage(d, "TIMED_OUT")]
        /\ handler' = Cancel(handler, d.tx) /\ past' = past
    BY <1>6 DEF LaneLoop
  <2>2. /\ lanes'[lane].state = "RESULT_READY" /\ lanes'[lane].pending = "TIMED_OUT"
        /\ lanes'[lane].tx = d.tx /\ d.tx \in Commands
    <3>1. lanes'[lane] = Stage(d, "TIMED_OUT")
      BY <1>2, <2>1 DEF LanesOK
    <3> QED
      BY <1>2, <1>6, <3>1, StageOK DEF Statuses
  <2>3. ASSUME handler.kind = "application"
        PROVE  /\ InterruptFits(handler', past')
               /\ \A c \in Commands \ {d.tx} : handler'.results[c] = handler.results[c]
    <3>1. handler \in ApplicationHandlers /\ InterruptFits(handler, past)
      BY <2>3, HandlerKind
      DEF Core, HandlerFits, DeclarativeFits, ApplicationFits, Stopping
    <3>2. past.stopped \subseteq Commands
      BY DEF Pasts
    <3>3. InterruptFits(handler', past)
      BY <2>1, <2>2, <3>1, <3>2, CancelInterrupts
    <3>4. handler'.results = [handler.results EXCEPT ![d.tx] = NoResult]
      BY <2>1, <2>2, <3>1, ApplicationCancels
    <3> QED
      BY <2>1, <3>1, <3>3, <3>4 DEF ApplicationHandlers
  <2>4. ASSUME NEW s \in past'.stopped \cap past.express
        PROVE  Outcome(s) \/ Answering(s)'
    <3>1. CASE i.state = "ACTIVE" /\ Answering(s) /\ lane # "interrupt"
      <4>1. step' \in Lanes /\ lanes'["interrupt"] = i
        BY <1>1, <1>3, <3>1, NextIsLane
      <4>2. s \in Commands /\ s # d.tx
        <5>1. s \in Commands /\ s = i.tx
          BY <2>1, <2>4, <3>1 DEF Pasts, Answering
        <5>2. s # NoTransaction
          BY <5>1, HandlerAssumption DEF Commands, NoTransaction
        <5> QED
          BY <1>2, <1>3, <3>1, <5>1, <5>2 DEF LanesOK
      <4> QED
        BY <2>3, <3>1, <4>1, <4>2, LoopKind DEF Answering
    <3>2. CASE Answering(s) /\ lane = "interrupt"
      BY <2>2, <3>2 DEF Answering
    <3>3. CASE i.state # "ACTIVE" /\ Answering(s)
      BY <1>4, <3>3 DEF Answering
    <3> QED
      BY <2>1, <2>4, <3>1, <3>2, <3>3 DEF Stopping
  <2>5. past'.stopped \subseteq Left /\ lanes'[lane].pending # "INTERRUPTED"
    BY <2>1, <2>2 DEF Stopping
  <2> QED
    BY <2>3, <2>4, <2>5, LoopStopping
<1>7. ASSUME d.state = "ACTIVE", NEW h \in Loops(handler),
             past' = [past EXCEPT !.stopped =
                        @ \cup { s \in Commands : /\ h.kind = "application"
                                                  /\ handler.pair.interrupt = s
                                                  /\ h.results[s] = "SUCCEEDED" }],
             \/ /\ ResultFor(h, d.tx) = {}
                /\ handler' = h /\ UNCHANGED lanes
             \/ \E tx \in ResultFor(h, d.tx) :
                  /\ handler' = Take(h, tx)
                  /\ lanes' = [lanes EXCEPT ![lane] = Collected(d, tx, ResultOf(h, tx))]
      PROVE  Stopping'
  <2>1. d.tx \in Commands
    BY <1>2, <1>7 DEF LaneOK
  <2>2. CASE handler.kind # "application"
    <3>1. DeclarativeFits(handler, lanes)
      BY <2>2, HandlerKind DEF Core, HandlerFits, ApplicationFits
    <3>2. /\ h \in DeclarativeHandlers /\ h.kind = "declarative"
          /\ handler.kind = "declarative"
      BY <3>1, LoopsFit, HandlerKind DEF DeclarativeFits
    <3>3. past'.stopped = past.stopped
      BY <1>7, <3>2 DEF Pasts
    <3>4. ASSUME NEW s \in past'.stopped \cap past.express
          PROVE  Outcome(s) \/ Answering(s)'
      BY <1>4, <2>2, <3>3, <3>4 DEF Stopping, Answering
    <3>5. lanes'[lane].pending # "INTERRUPTED"
      <4>1. CASE lanes' = lanes
        BY <1>2, <1>7, <4>1, DispatcherAssumption DEF LaneOK, Statuses
      <4>2. ASSUME NEW tx \in ResultFor(h, d.tx),
                   lanes' = [lanes EXCEPT ![lane] = Collected(d, tx, ResultOf(h, tx))]
            PROVE  lanes'[lane].pending # "INTERRUPTED"
        <5>1. /\ Collected(d, tx, ResultOf(h, tx)) = Stage(d, ResultOf(h, tx))
              /\ ResultOf(h, tx) \in HandlerResults \ {NoResult}
          BY <1>7, OwnResult
        <5>2. ResultOf(h, tx) = h.result /\ h.result # "INTERRUPTED"
          BY <3>2, DispatcherAssumption DEF ResultOf, DeclarativeHandlers, Statuses
        <5>3. lanes'[lane] = Stage(d, ResultOf(h, tx))
          BY <1>2, <4>2, <5>1 DEF LanesOK
        <5>4. lanes'[lane].pending = ResultOf(h, tx)
          BY <1>2, <1>7, <5>1, <5>3, StageOK DEF HandlerResults, Statuses
        <5> QED
          BY <5>2, <5>4
      <4> QED
        BY <1>7, <4>1, <4>2
    <3> QED
      BY <2>2, <3>3, <3>4, <3>5, LoopStopping DEF Stopping
  <2>3. CASE handler.kind = "application"
    <3>1. /\ ApplicationFits(handler, lanes, Left) /\ handler \in ApplicationHandlers
          /\ InterruptFits(handler, past)
      BY <2>3, HandlerKind
      DEF Core, HandlerFits, DeclarativeFits, ApplicationFits, Stopping
    <3>2. /\ ApplicationFits(h, lanes, Left) /\ h \in ApplicationHandlers
          /\ h \in ApplicationLoop(handler) /\ h.kind = "application"
      BY <3>1, LoopsFit, HandlerKind DEF ApplicationFits
    <3>3. /\ past'.stopped = past.stopped \cup
               { s \in Commands : /\ handler.pair.interrupt = s
                                  /\ h.results[s] = "SUCCEEDED" }
          /\ past'.aim = past.aim /\ past.stopped \subseteq Commands
      BY <1>7, <3>2 DEF Pasts
    <3>4. InterruptFits(h, past')
      BY <1>2, <3>1, <3>2, <3>3, LoopInterrupts
    <3>5. past'.stopped \subseteq Left
      <4>1. handler.pair.interrupt \in Left \cup {NoTransaction}
        BY <1>2, <3>1, PairLeft
      <4> QED
        BY <3>3, <4>1, HandlerAssumption DEF Stopping, Commands, NoTransaction
    <3>6. \/ handler' = h /\ lanes' = lanes /\ h.results[d.tx] = NoResult
          \/ /\ handler' = Take(h, d.tx) /\ h.results[d.tx] # NoResult
             /\ lanes'[lane].state = "RESULT_READY" /\ lanes'[lane].tx = d.tx
             /\ lanes'[lane].pending = h.results[d.tx]
      <4>1. CASE ResultFor(h, d.tx) = {} /\ handler' = h /\ UNCHANGED lanes
        BY <3>2, <4>1 DEF ResultFor
      <4>2. ASSUME NEW tx \in ResultFor(h, d.tx), handler' = Take(h, tx),
                   lanes' = [lanes EXCEPT ![lane] = Collected(d, tx, ResultOf(h, tx))]
            PROVE  /\ handler' = Take(h, d.tx) /\ h.results[d.tx] # NoResult
                   /\ lanes'[lane].state = "RESULT_READY" /\ lanes'[lane].tx = d.tx
                   /\ lanes'[lane].pending = h.results[d.tx]
        <5>1. /\ Collected(d, tx, ResultOf(h, tx)) = Stage(d, ResultOf(h, tx))
              /\ ResultOf(h, tx) \in HandlerResults \ {NoResult} /\ tx = d.tx
          BY <1>7, OwnResult
        <5>2. ResultOf(h, tx) = h.results[d.tx]
          BY <3>2, <5>1 DEF ResultOf
        <5>3. lanes'[lane] = Stage(d, ResultOf(h, tx))
          BY <1>2, <4>2, <5>1 DEF LanesOK
        <5>4. /\ lanes'[lane].pending = ResultOf(h, tx) /\ lanes'[lane].tx = d.tx
              /\ lanes'[lane].state = "RESULT_READY"
          BY <1>2, <1>7, <5>1, <5>3, StageOK DEF HandlerResults, Statuses
        <5> QED
          BY <4>2, <5>1, <5>2, <5>4
      <4> QED
        BY <1>7, <4>1, <4>2
    <3>7. InterruptFits(handler', past')
      BY <2>1, <3>2, <3>4, <3>6, TakeInterrupts
    <3>8. lanes'[lane].pending = "INTERRUPTED" => StoppedFor(lanes[lane].tx, past')
      <4>1. d.pending # "INTERRUPTED"
        BY <1>2, <1>7, DispatcherAssumption DEF LaneOK, Statuses
      <4> QED
        BY <2>1, <3>4, <3>6, <4>1 DEF InterruptFits
    <3>9. ASSUME NEW s \in Commands, i.tx = s, i.state = "ACTIVE",
                 h.results[s] = "SUCCEEDED"
          PROVE  Answering(s)'
      <4>1. CASE lane = "interrupt"
        <5>1. h.results[d.tx] # NoResult
          BY <3>9, <4>1, DispatcherAssumption DEF Statuses
        <5> QED
          BY <3>6, <3>9, <4>1, <5>1 DEF Answering
      <4>2. CASE lane # "interrupt"
        <5>1. step' \in Lanes /\ lanes'["interrupt"] = i
          BY <1>1, <1>3, <4>2, NextIsLane
        <5>2. s # d.tx
          <6>1. s # NoTransaction
            BY HandlerAssumption DEF Commands, NoTransaction
          <6> QED
            BY <1>2, <1>3, <3>9, <4>2, <6>1 DEF LanesOK
        <5>3. handler'.results[s] = "SUCCEEDED"
          <6>1. CASE handler' = h
            BY <3>9, <6>1
          <6>2. CASE handler' = Take(h, d.tx)
            <7>1. handler'.results = [h.results EXCEPT ![d.tx] = NoResult]
              BY <2>1, <3>2, <6>2, ApplicationTakes
            <7> QED
              BY <3>2, <3>9, <5>2, <7>1 DEF ApplicationHandlers
          <6> QED
            BY <3>6, <6>1, <6>2
        <5> QED
          BY <2>3, <3>9, <5>1, <5>3, LoopKind DEF Answering
      <4> QED
        BY <4>1, <4>2
    <3>10. ASSUME NEW s \in past'.stopped \cap past.express
           PROVE  Outcome(s) \/ Answering(s)'
      <4>1. s \in Commands
        BY <3>3, <3>10
      <4>2. CASE s \notin past.stopped
        <5>1. handler.pair.interrupt = s /\ h.results[s] = "SUCCEEDED"
          BY <3>3, <3>10, <4>2
        <5>2. s # NoTransaction
          BY <4>1, HandlerAssumption DEF Commands, NoTransaction
        <5>3. PICK l \in Lanes : lanes[l].tx = s /\ lanes[l].state = "ACTIVE"
          BY <3>1, <5>1, <5>2 DEF ApplicationFits
        <5>4. l = "interrupt"
          BY <3>10, <5>3 DEF Stopping
        <5> QED
          BY <3>9, <4>1, <5>1, <5>3, <5>4
      <4>3. CASE s \in past.stopped /\ Answering(s) /\ i.state = "ACTIVE"
        <5>1. handler.results[s] = "SUCCEEDED" /\ i.tx = s
          BY <4>3 DEF Answering
        <5>2. s # handler.pair.operation /\ s # handler.pair.interrupt
          BY <3>1, <4>3 DEF InterruptFits
        <5>3. h.results[s] = handler.results[s]
          <6>1. \/ h = handler
                \/ \E stopped \in BOOLEAN : StopEnded(handler, h, stopped)
                \/ OperationEnded(handler, h)
            BY <3>1, <3>2, ApplicationLoops
          <6>2. handler.results \in [Commands -> HandlerResults]
            BY <3>1 DEF ApplicationHandlers, HandlerResults
          <6>3. CASE \E stopped \in BOOLEAN : StopEnded(handler, h, stopped)
            BY <4>1, <5>2, <6>2, <6>3 DEF StopEnded
          <6>4. CASE OperationEnded(handler, h)
            BY <4>1, <5>2, <6>2, <6>4 DEF OperationEnded
          <6> QED
            BY <6>1, <6>3, <6>4
        <5> QED
          BY <3>9, <4>1, <4>3, <5>1, <5>3
      <4>4. CASE s \in past.stopped /\ Answering(s) /\ i.state # "ACTIVE"
        BY <1>4, <4>4 DEF Answering
      <4> QED
        BY <3>10, <4>2, <4>3, <4>4 DEF Stopping
    <3> QED
      BY <3>5, <3>7, <3>8, <3>10, LoopStopping
  <2> QED
    BY <2>2, <2>3
<1> QED
  BY <1>5, <1>6, <1>7 DEF LaneLoop

\* A staged answer of a stop is sent before anything else, so that an
\* interrupted operation is reported after it.
LEMMA SendResultStopping ==
  ASSUME Core, Reporting, past \in Pasts, Stopping, SendResult
  PROVE  Stopping'
<1> DEFINE lane == ResultLane
           d == lanes[lane]
           a == DispatcherTake(d)
<1>1. /\ d.tx \in Left /\ d.pending \in Statuses \ {"INVALID"}
      /\ \A c \in Commands \ {d.tx} : reports'[c] = reports[c]
      /\ reports'[d.tx] = Append(reports[d.tx], d.pending)
      /\ \A i \in 1 .. Len(reports[d.tx]) : reports[d.tx][i] = "IN_PROGRESS"
  BY Reported
<1>2. /\ step = "result" /\ past' = past /\ handler' = handler
      /\ d.state = "RESULT_READY" /\ lanes' = [lanes EXCEPT ![lane] = a]
  BY DEF SendResult
<1>3. /\ lane \in Lanes /\ Left' = Left /\ Left \subseteq Commands
      /\ LanesOK(lanes, Left) /\ LaneOK(d, Left)
  BY SendResultCore, ResultLaneIn DEF Core, Books, LanesOK
<1>4. /\ reports[d.tx] \in Seq(Statuses \ {"INVALID"}) /\ Len(reports[d.tx]) \in Nat
  BY <1>1, <1>3 DEF Reporting
<1>5. /\ reports'[d.tx] # <<>> /\ Len(reports'[d.tx]) = Len(reports[d.tx]) + 1
      /\ reports'[d.tx][Len(reports'[d.tx])] = d.pending
  BY <1>1, <1>4
<1>6. \A c \in Commands : Outcome(c) => c # d.tx /\ Outcome(c)'
  <2> SUFFICES ASSUME NEW c \in Commands, Outcome(c)
               PROVE  c # d.tx /\ Outcome(c)'
    OBVIOUS
  <2>1. c # d.tx
    <3> SUFFICES ASSUME c = d.tx PROVE FALSE
      OBVIOUS
    <3>1. reports[d.tx] # <<>> /\ reports[d.tx][Len(reports[d.tx])] # "IN_PROGRESS"
      BY DEF Outcome
    <3>2. Len(reports[d.tx]) \in 1 .. Len(reports[d.tx])
      BY <1>4, <3>1
    <3> QED
      BY <1>1, <3>1, <3>2
  <2> QED
    BY <1>1, <2>1 DEF Outcome
<1>7. \A s : Answering(s) => s = d.tx /\ Outcome(s)'
  <2> SUFFICES ASSUME NEW s, Answering(s) PROVE s = d.tx /\ Outcome(s)'
    OBVIOUS
  <2>1. /\ lanes["interrupt"].tx = s /\ lanes["interrupt"].state = "RESULT_READY"
        /\ lanes["interrupt"].pending # "IN_PROGRESS"
    BY <1>2 DEF Answering, Lanes
  <2>2. lane = "interrupt"
    BY <2>1 DEF ResultLane
  <2> QED
    BY <1>5, <2>1, <2>2 DEF Outcome
<1>8. past.stopped \subseteq Commands
  BY DEF Pasts
<1>9. \A s \in past.stopped \cap past.express : Outcome(s)'
  BY <1>6, <1>7, <1>8 DEF Stopping
<1>10. InterruptedAfterStop'
  <2> SUFFICES ASSUME NEW c \in Commands, Outcome(c)',
                      reports'[c][Len(reports'[c])] = "INTERRUPTED"
               PROVE  \E s \in past.stopped : past.aim[s] = c
    BY <1>2, <1>9 DEF InterruptedAfterStop
  <2>1. CASE c = d.tx
    <3>1. d.pending = "INTERRUPTED"
      BY <1>5, <2>1
    <3> QED
      BY <1>3, <2>1, <3>1 DEF Stopping, StoppedFor
  <2>2. CASE c # d.tx
    <3>1. Outcome(c) /\ reports[c][Len(reports[c])] = "INTERRUPTED"
      BY <1>1, <2>2 DEF Outcome
    <3> QED
      BY <3>1 DEF Stopping, InterruptedAfterStop
  <2> QED
    BY <2>1, <2>2
<1>11. /\ lanes'[lane] = a /\ \A l \in Lanes \ {lane} : lanes'[l] = lanes[l]
       /\ a.pending # "INTERRUPTED" /\ a.tx \in {d.tx, NoTransaction}
  <2>1. a.pending = NoResult
    BY <1>2, <1>3 DEF DispatcherTake, IdleLane, LaneOK, AnyLane
  <2>2. a.tx \in {d.tx, NoTransaction}
    BY <1>2, <1>3, TakeOK
  <2> QED
    BY <1>2, <1>3, <2>1, <2>2, DispatcherAssumption DEF LanesOK, Statuses
<1>12. \A l \in Lanes :
         lanes'[l].pending = "INTERRUPTED" => StoppedFor(lanes'[l].tx, past')
  BY <1>2, <1>11 DEF Stopping
<1>13. \A l \in Lanes : lanes'[l].tx \in past'.express => l = "interrupt"
  <2>1. NoTransaction \notin past.express
    BY HandlerAssumption DEF Pasts, Commands, NoTransaction
  <2> QED
    BY <1>2, <1>11, <2>1 DEF Stopping
<1> QED
  BY <1>2, <1>3, <1>9, <1>10, <1>12, <1>13 DEF Stopping

LEMMA StoppingStep ==
  ASSUME CompletionTimeout > 0, Core, Reporting, past \in Pasts, Stopping,
         [Next]_vars
  PROVE  Stopping'
<1>1. CASE UNCHANGED vars
  <2>1. \A s : (Outcome(s)' <=> Outcome(s)) /\ (Answering(s)' <=> Answering(s))
    BY <1>1 DEF vars, Outcome, Answering
  <2>2. InterruptedAfterStop'
    BY <1>1, <2>1 DEF vars, Stopping, InterruptedAfterStop
  <2> QED
    BY <1>1, <2>1, <2>2 DEF vars, Stopping, Left
<1>2. ASSUME NEW command \in CommandsFor(handler), Arrive(command)
      PROVE  Stopping'
  <2>1. Left' = Left
    BY <1>2, ArriveCore
  <2> QED
    BY <1>2, <2>1, StoppingKept DEF Arrive, Lanes
<1>3. CASE TakeMessage
  BY <1>3, TakeMessageStopping
<1>4. CASE NoMessageNow
  <2>1. Left' = Left
    BY <1>4 DEF NoMessageNow, Left
  <2> QED
    BY <1>4, <2>1, StoppingKept DEF NoMessageNow, Lanes
<1>5. ASSUME NEW lane \in Lanes, LaneLoop(lane) PROVE Stopping'
  BY <1>5, LaneLoopStopping
<1>6. CASE SendResult
  BY <1>6, SendResultStopping
<1>7. CASE NoResultNow
  <2>1. Left' = Left
    BY <1>7 DEF NoResultNow, Left
  <2> QED
    BY <1>7, <2>1, StoppingKept DEF NoResultNow, Lanes
<1>8. CASE Tick
  <2>1. /\ handler'.kind = handler.kind
        /\ handler.kind = "application" => handler' = handler
    BY <1>8, HandlerKind
    DEF Tick, AgedHandler, Core, HandlerFits, DeclarativeFits, DeclarativeHandlers
  <2>2. step \notin Lanes /\ past' = past /\ reports' = reports
    BY <1>8 DEF Tick, Lanes
  <2> QED
    BY <1>8, <2>1, <2>2, TickCore, StoppingKept
<1> QED
  BY <1>1, <1>2, <1>3, <1>4, <1>5, <1>6, <1>7, <1>8 DEF Next

-----------------------------------------------------------------------------
(* The theorems.  A completion timeout of zero, which the configuration    *)
(* accepts, makes the declarative handler's progress an inconsistent       *)
(* result; every theorem therefore asks for a positive one.                *)

DispatcherInv == Core /\ Reporting /\ Announcing /\ Stopping

LEMMA InitDispatcherInv == Init => DispatcherInv
<1> SUFFICES ASSUME Init PROVE DispatcherInv
  OBVIOUS
<1>1. Core
  BY InitCore
<1>2. /\ reports = [c \in Commands |-> <<>>]
      /\ past = [probed |-> {}, stopped |-> {}, express |-> {},
                 aim |-> [c \in Commands |-> NoTransaction]]
  BY DEF Init
<1>3. /\ past \in Pasts /\ past.probed = {} /\ past.stopped = {}
      /\ past.express = {}
  BY <1>2 DEF Pasts
<1>4. \A l \in Lanes : lanes[l].state = "IDLE" /\ lanes[l].pending = NoResult
  BY DEF Init, IdleLane
<1>5. \A c \in Commands : reports[c] = <<>>
  BY <1>2
<1>6. OutcomeIsLast
  BY <1>5 DEF OutcomeIsLast
<1>7. Reporting
  BY <1>2, <1>4, <1>5, <1>6 DEF Reporting
<1>8. Announcing
  BY <1>3 DEF Announcing, ProgressFirst
<1>9. InterruptedAfterStop
  BY <1>5 DEF InterruptedAfterStop, Outcome
<1>10. handler.kind = "application" => InterruptFits(handler, past)
  <2> SUFFICES ASSUME handler.kind = "application" PROVE InterruptFits(handler, past)
    OBVIOUS
  <2>1. handler = IdleApplication
    BY DEF Init, IdleDeclarative
  <2>2. /\ ~handler.pair.interrupted /\ handler.pair.operation = NoTransaction
        /\ \A c \in Commands : handler.results[c] = NoResult
    BY <2>1 DEF IdleApplication, IdlePair
  <2> QED
    BY <1>3, <2>2, DispatcherAssumption DEF InterruptFits, Statuses
<1>11. \A l \in Lanes : lanes[l].pending # "INTERRUPTED"
  BY <1>4, DispatcherAssumption DEF Statuses
<1>12. Stopping
  BY <1>3, <1>9, <1>10, <1>11 DEF Stopping
<1> QED
  BY <1>1, <1>7, <1>8, <1>12 DEF DispatcherInv

\* The inductive invariant of the inbound side: lanes, handler, reports and
\* history agree in every state, whatever order the two deadlines, the
\* handler's results and the sender come in.
THEOREM DispatcherInvariance ==
  ASSUME CompletionTimeout > 0
  PROVE  Spec => []DispatcherInv
<1>1. ASSUME DispatcherInv, [Next]_vars PROVE DispatcherInv'
  BY <1>1, CoreStep, ReportingStep, AnnouncingStep, StoppingStep
  DEF DispatcherInv, Announcing
<1> QED
  BY <1>1, InitDispatcherInv, PTL DEF Spec

\* The lanes, the handler and the held command stay in their types.
THEOREM DispatcherTypeCorrect ==
  ASSUME CompletionTimeout > 0
  PROVE  Spec => []TypeOK
<1>1. DispatcherInv => TypeOK
  BY DEF DispatcherInv, Core, Books, HandlerFits, DeclarativeFits, ApplicationFits,
         LanesOK, TypeOK, AnyHandler
<1> QED
  BY <1>1, DispatcherInvariance, PTL

\* The handler works only on commands a lane still has: neither deadline, no
\* outcome and no stop leaves its slot taken.
THEOREM DispatcherReleases ==
  ASSUME CompletionTimeout > 0
  PROVE  Spec => []HandlerReleased
<1>1. DispatcherInv => HandlerReleased
  <2> SUFFICES ASSUME DispatcherInv, NEW tx \in Working(handler)
               PROVE  \E l \in Lanes : lanes[l].tx = tx /\ lanes[l].state # "IDLE"
    BY DEF HandlerReleased
  <2>1. tx # NoTransaction
    BY DEF Working
  <2>2. \A l \in Lanes : Open(lanes[l]) => lanes[l].state # "IDLE"
    BY DEF Open
  <2>3. CASE DeclarativeFits(handler, lanes)
    <3>1. tx = handler.tx
      BY <2>3, HandlerKind DEF DeclarativeFits, Working
    <3>2. Open(lanes["main"]) /\ lanes["main"].tx = tx
      BY <2>1, <2>3, <3>1 DEF DeclarativeFits, IdleDeclarative
    <3> QED
      BY <2>2, <3>2 DEF Lanes
  <2>4. CASE ApplicationFits(handler, lanes, Left)
    <3>1. tx = handler.pair.operation \/ tx = handler.pair.interrupt
      BY <2>4, HandlerKind DEF ApplicationFits, Working
    <3> QED
      BY <2>1, <2>2, <2>4, <3>1 DEF ApplicationFits
  <2> QED
    BY <2>3, <2>4 DEF DispatcherInv, Core, HandlerFits
<1> QED
  BY <1>1, DispatcherInvariance, PTL

\* At most one outcome is reported of a command, and nothing after it.
THEOREM DispatcherOneOutcome ==
  ASSUME CompletionTimeout > 0
  PROVE  Spec => []OutcomeIsLast
<1>1. DispatcherInv => OutcomeIsLast
  BY DEF DispatcherInv, Reporting
<1> QED
  BY <1>1, DispatcherInvariance, PTL

\* The first report of a probed command is its progress.
THEOREM DispatcherProgressFirst ==
  ASSUME CompletionTimeout > 0
  PROVE  Spec => []ProgressFirst
<1>1. DispatcherInv => ProgressFirst
  BY DEF DispatcherInv, Announcing
<1> QED
  BY <1>1, DispatcherInvariance, PTL

\* No lane takes another lane's result.
THEOREM DispatcherNoStolenResult ==
  ASSUME CompletionTimeout > 0
  PROVE  Spec => []NoStolenResult
<1>1. DispatcherInv => NoStolenResult
  <2> SUFFICES ASSUME DispatcherInv, NEW c \in Commands, NEW i \in 1 .. Len(reports[c])
               PROVE  reports[c][i] # "INVALID"
    BY DEF NoStolenResult
  <2>1. reports[c] \in Seq(Statuses \ {"INVALID"})
    BY DEF DispatcherInv, Reporting
  <2> QED
    BY <2>1
<1> QED
  BY <1>1, DispatcherInvariance, PTL

\* INTERRUPTED is reported only because of a stop that succeeded, and after
\* that stop's own answer when it used the interrupt lane.
THEOREM DispatcherInterruptedAfterStop ==
  ASSUME CompletionTimeout > 0
  PROVE  Spec => []InterruptedAfterStop
<1>1. DispatcherInv => InterruptedAfterStop
  BY DEF DispatcherInv, Stopping
<1> QED
  BY <1>1, DispatcherInvariance, PTL

-----------------------------------------------------------------------------
(* The codecs                                                              *)

\* Every sampled command that is sent is decoded unchanged by the device, for
\* all limits of the codec; CommandsSurvive says so of all valid commands.
THEOREM DispatcherCommandRoundTrip ==
  Spec => []CommandRoundTrip
<1>1. \A c \in SampleCommands : CommandSurvives(c)
  BY SampleCommandsAreValid, CommandsSurvive
<1>2. CommandRoundTrip
  BY <1>1 DEF CommandRoundTrip
<1> QED
  BY <1>2, PTL

\* Every sampled result that fits a message is decoded unchanged by the client,
\* for all limits of the codec, and only one that carries an error may not fit;
\* ResultsSurvive says so of all consistent results.
THEOREM DispatcherResultRoundTrip ==
  Spec => []ResultRoundTrip
<1>1. \A r \in SampleResults : ResultSurvives(r)
  BY SampleResultsAreConsistent, ResultsSurvive
<1>2. ResultRoundTrip
  BY <1>1 DEF ResultRoundTrip
<1> QED
  BY <1>2, PTL
=============================================================================
