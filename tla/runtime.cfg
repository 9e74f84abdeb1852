SPECIFICATION Spec
CONSTANTS
  Peers = {p1, p2}
  NoPeer = noPeer
  CacheCapacity = 2
  NoMessage = noMessage
  NoAck = noAck
  b1 = b1
  b2 = b2
  Messages <- MCMessages
INVARIANTS
  TypeOK
  AssemblyFlagExact
  HeldMessageGenuine
  OncePerWindow
PROPERTY HeldMessageStable
SYMMETRY PeerSymmetry
