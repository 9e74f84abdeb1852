SPECIFICATION Spec
CONSTANTS
  Deliveries = {1}
  Fragments = 2
  MaxAttempts = 2
  AckTimeout = 1
  CacheCapacity = 2
  RxCapacity = 2
  OtherMessages <- NoTraffic
  MaxReboots = 0
  NoMessage = noMessage
  NoAck = noAck
  NoTransaction = noTx
PROPERTY EveryDeliveryEnds
