SPECIFICATION Spec
CONSTANTS
  Slots = {0}
  Commands = {c1}
  Unsolicited = {u1}
  Inbound = {i1}
  Background = {}
  Raw = {}
  ResultStatuses = {"SUCCEEDED", "MALFORMED"}
  PeerAckStatuses = {"ACCEPTED", "REJECTED"}
  MaxResults = 1
  MaxRepeats = 0
  CommandTimeout = 1
  MaxAttempts = 1
  AckTimeout = 1
  CacheCapacity = 2
  RxCapacity = 1
  CompletionCapacity = 2
  DriverCapacity = 1
  HasResultObserver = TRUE
  CanCancel = FALSE
  CanDisable = FALSE
  CanDefer = FALSE
  HeartbeatInterval = 0
  HeartbeatTimeout = 1
  MaxPings = 0
  PeerPings = {}
  NoMessage = noMessage
  NoAck = noAck
  NoTransaction = noTx
INVARIANTS
  OneFrameInFlight
PROPERTIES
  EveryCommandEnds
