SPECIFICATION FairSpec
CONSTANTS
  AmountMod = 8
  CountMod = 5
  Coins <- AllCoins
  MaxInputs = 2
  MaxOutputs = 2
  MaxSignTx = 1
  Accounts = {"a", "b"}
  Addresses = {"x"}
  Fingerprints = {"fp"}
  TxHashes <- MCTxHashes
  PrevTx <- MCPrevTx
  InputMsgs <- MainInputs
  OutputMsgs <- MainOutputs
  MetaMsgs <- MCMetaMsgs
  PrevAmounts = {1, 2, 3}
  OtherMessages = FALSE
INVARIANTS TypeOK ConfirmedAmountsAddUp StreamedAmountsAreReal SegwitBudget SignedInputsWereAccounted
PROPERTIES SessionEnds
