SPECIFICATION Spec
CONSTANTS
  Deliveries = {1, 2}
  Fragments = 1
  MaxAttempts = 2
  AckTimeout = 1
  CacheCapacity = 2
  RxCapacity = 2
  OtherMessages <- EarlyTraffic
  MaxReboots = 1
  NoMessage = noMessage
  NoAck = noAck
  NoTransaction = noTx
PROPERTIES
  ImplementsDelivery
  EveryDeliveryEnds
