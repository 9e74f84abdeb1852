SPECIFICATION Spec
CONSTANTS
  Peers = {p1}
  Transactions = {t1, t2}
  MaxFragments = 3
  MaxAttempts = 3
  AckTimeout = 2
  SequenceModulus = 4
  NoPeer = noPeer
  NoTransaction = noTx
INVARIANTS
  TypeOK
  SenderMirrorsDelivery
  GivesUpOnlyWhenExhausted
  WindowCoversMessage
PROPERTY RetryPreservesIdentity
