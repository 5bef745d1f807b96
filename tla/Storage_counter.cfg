SPECIFICATION Spec
CONSTANTS
  AreaWords = 2
  WordBits = 2
  CounterMod = 32
  SetCounters = {0, 9}
  MaxSeeds = 1
  MaxIssued = 2
  MaxLosses = 1
INVARIANT OffsetIsClearedBits
