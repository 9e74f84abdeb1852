SPECIFICATION Spec
CONSTANTS
  Peers = {0, 1}
  NoPeer = 99
  Stabilization = 1
  InitRetry = 1
  RefreshCooldown = 1
  RecoveryDelay = 1
  RecoveryCooldown = 2
  GraceTime = 1
  HoldTime = 2
  WindowTime = 1
  RequestRetry = 1
  DriverCapacity = 1
  MaxTroubles = 1
  CanDisable = TRUE
INVARIANTS
  ReapplyInWindow
  OwnerHasFrame
  PeersUsable
  NoStaleEpoch
  SuppressionPaired
PROPERTIES
  ReconnectReopens
  RadioComesUp
  DeferredOnlyWhileBusy
