SPECIFICATION Spec
CONSTANTS
  WordCounts = {1, 2, 3}
  Slots = 3
  Base = 3
  Narrow = 2
  TABLE1 <- SmallTable1
  TABLE2 <- SmallTable2
  MaxSleeps = 1
  MAX_CHAIN_ID = 2147483630
  MaxData = 16000000
  Txs = {}
  Chunks = {}
  Keys = {"k1"}
INVARIANTS NoMoreWordsThanExpected
