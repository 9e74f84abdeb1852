SPECIFICATION Spec
CONSTANTS
  Slots = {0}
  Commands = {c1}
  Unsolicited = {}
  Inbound = {}
  Background = {}
  Raw = {}
  ResultStatuses = {"IN_PROGRESS", "SUCCEEDED"}
  PeerAckStatuses = {"ACCEPTED", "REJECTED"}
  MaxResults = 1
  MaxRepeats = 1
  CommandTimeout = 1
  MaxAttempts = 1
  AckTimeout = 1
  CacheCapacity = 2
  RxCapacity = 1
  CompletionCapacity = 2
  DriverCapacity = 2
  HasResultObserver = FALSE
  CanCancel = FALSE
  CanDisable = FALSE
  CanDefer = FALSE
  HeartbeatInterval = 0
  HeartbeatTimeout = 1
  MaxPings = 0
  PeerPings = {}
  NoMessage = noMessage
  NoAck = noAck
  NoTransaction = noTx
PROPERTIES
  TerminalResultReleases
