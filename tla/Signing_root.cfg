SPECIFICATION Spec
CONSTANTS
  AmountMod = 8
  CountMod = 5
  Coins <- MCCoins
  MaxInputs = 2
  MaxOutputs = 2
  MaxSignTx = 1
  Accounts = {"a", "b"}
  Addresses = {"x"}
  Fingerprints = {"fp"}
  TxHashes <- MCTxHashes
  PrevTx <- MCPrevTx
  InputMsgs <- SimpleInputs
  OutputMsgs <- SimpleOutputs
  MetaMsgs <- MCMetaMsgs
  PrevAmounts = {1, 2, 3}
  OtherMessages = TRUE
INVARIANT UnshownOutputsReturnToWallet
