SPECIFICATION Spec
CONSTANTS
  Values = {a, b}
  Capacity = 4
  IndexModulus = 8
  NoValue = noValue
INVARIANTS
  NoSlotRace
PROPERTY ImplementsFifo
