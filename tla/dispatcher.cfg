SPECIFICATION Spec
CONSTANTS
  MaxCommands = 3
  Keys = {"k1", "k2"}
  CommandTimeout = 2
  CompletionTimeout = 1
  NoResult = noResult
  NoMessage = noMessage
  MaxId = 2
  MaxName = 2
  MaxBody = 3
  MaxSchema = 2
  MaxData = 3
  MaxError = 3
  MaxMessage = 25
  FragmentData = 9
  Undecodable = undecodable
INVARIANTS
  TypeOK
  HandlerReleased
  OutcomeIsLast
  ProgressFirst
  NoStolenResult
  InterruptedAfterStop
  CommandRoundTrip
  ResultRoundTrip
PROPERTIES
  EveryCommandAnswered
