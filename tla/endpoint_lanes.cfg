SPECIFICATION Spec
CONSTANTS
  Slots = {0}
  Commands = {}
  Unsolicited = {}
  Inbound = {}
  Background = {m1}
  Raw = {m1}
  ResultStatuses = {}
  PeerAckStatuses = {"ACCEPTED"}
  MaxResults = 0
  MaxRepeats = 1
  CommandTimeout = 1
  MaxAttempts = 1
  AckTimeout = 1
  CacheCapacity = 2
  RxCapacity = 1
  CompletionCapacity = 2
  DriverCapacity = 2
  HasResultObserver = FALSE
  CanCancel = FALSE
  CanDisable = FALSE
  CanDefer = FALSE
  HeartbeatInterval = 2
  HeartbeatTimeout = 1
  MaxPings = 2
  PeerPings = {1}
  NoMessage = noMessage
  NoAck = noAck
  NoTransaction = noTx
INVARIANTS
  OneFrameInFlight
  HeartbeatAccounted
  HeartbeatGenuine
PROPERTIES
  HeartbeatSettles
