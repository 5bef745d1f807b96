SPECIFICATION Spec
CONSTANTS
  AmountMod = 8
  CountMod = 5
  Coins <- MCCoins
  MaxInputs = 3
  MaxOutputs = 1
  MaxSignTx = 2
  Accounts = {"a", "b"}
  Addresses = {"x"}
  Fingerprints = {"fp"}
  TxHashes <- MCTxHashes
  PrevTx <- MCPrevTx
  InputMsgs <- RestartInputs
  OutputMsgs <- RestartOutputs
  MetaMsgs <- OneMetaMsg
  PrevAmounts = {1, 2}
  OtherMessages = TRUE
INVARIANTS SignedOutputsWereApproved LegacyInputsSignedOnce
PROPERTIES PromiseKept
