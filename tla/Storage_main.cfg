SPECIFICATION Spec
CONSTANTS
  AreaWords = 2
  WordBits = 2
  CounterMod = 32
  SetCounters = {0, 9}
  MaxSeeds = 2
  MaxIssued = 7
  MaxLosses = 3
INVARIANTS SeedKept NoRecordOverErasedArea ZerosThenOnes
PROPERTIES CountersGrow
