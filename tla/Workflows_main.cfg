SPECIFICATION FairSpec
CONSTANTS
  WordCounts = {1, 2}
  Slots = 2
  Base = 3
  Narrow = 2
  TABLE1 <- SmallTable1
  TABLE2 <- SmallTable2
  MaxSleeps = 2
  MAX_CHAIN_ID = 2147483630
  MaxData = 16000000
  Txs <- MCTxs
  Chunks = {0, 20, 50}
  Keys = {"k1", "k2"}
INVARIANTS WordOrderHolds MatrixSplitsThePressed SeedIsEntered SignedLengthIsTrue SignsWhatWasConfirmed KeyWaitsForData
PROPERTIES SigningEnds
