----------------------------- MODULE MCHandlers -----------------------------
(* A small instance of Handlers: each request with what its handler        *)
(* branches on.                                                            *)
EXTENDS Handlers

MCDefinitions == 1 :> "xem" @@ 2 :> "plain" @@ 3 :> "levied"

Of(type) == [type |-> type]
Plains == {Of(t) : t \in {"GetFeatures", "ClearSession", "ApplyFlags", "GetEntropy",
                          "SetU2FCounter", "EthereumSignMessage"}}
          \cup [type : {"Initialize"}, state : {"ours", "none"}]
Pings == [type : {"Ping"}, button : BOOLEAN, pin : {TRUE}, passphrase : BOOLEAN]
DeviceRequests ==
  [type : {"ChangePin"}, remove : BOOLEAN] \cup [type : {"WipeDevice"}, force : BOOLEAN]
  \cup [type : {"LoadDevice"}, checksum : BOOLEAN,
        device : {[has |-> "node", pin |-> TRUE, passphrase |-> TRUE],
                  [has |-> "mnemonic", pin |-> FALSE, passphrase |-> TRUE],
                  [has |-> "none", pin |-> TRUE, passphrase |-> FALSE]}]
  \cup [type : {"ApplySettings"},
        settings : {<<>>, <<"label">>, <<"language", "use_passphrase", "homescreen">>}]
Keys ==
  [type : {"GetPublicKey"}, coin : BOOLEAN, secp256k1 : BOOLEAN, show : BOOLEAN]
  \cup [type : {"EthereumGetAddress"}, show : BOOLEAN]
  \cup [type : {"NEMGetAddress"}, network : BOOLEAN, show : {TRUE}]
  \cup [type : {"CipherKeyValue"}, params : {TRUE}, encrypt : BOOLEAN, ask_on_encrypt : BOOLEAN,
        ask_on_decrypt : {TRUE}]
  \cup [type : {"SignMessage"}, coin : BOOLEAN, secp256k1 : {TRUE}]
  \cup [type : {"SignIdentity", "GetECDHSessionKey"}, identity : BOOLEAN, secp256k1 : BOOLEAN]
  \cup [type : {"NEMDecryptMessage", "CosiCommit", "CosiSign"}, params : BOOLEAN]
Verifies ==
  [type : {"VerifyMessage"}, params : {TRUE}, coin : BOOLEAN, valid : BOOLEAN]
  \cup [type : {"EthereumVerifyMessage"}, params : BOOLEAN, malformed : {FALSE}, valid : BOOLEAN]
  \cup [type : {"EthereumVerifyMessage"}, params : {TRUE}, malformed : {TRUE}, valid : {FALSE}]

MCCoin == [known |-> TRUE, type |-> [n |-> 57, hard |-> TRUE], segwit |-> TRUE, p2sh |-> TRUE,
           bech32 |-> FALSE, secp256k1 |-> TRUE]
N(n, hard) == [n |-> n, hard |-> hard]
PathOf(purpose, type) == <<N(purpose, TRUE), N(type, TRUE), N(0, TRUE), N(0, FALSE), N(0, FALSE)>>
ShortPath(purpose) == <<N(purpose, TRUE), N(0, FALSE), N(0, FALSE), N(0, FALSE)>>
AddressOf(path, script, show) ==
  [type |-> "GetAddress", coin |-> MCCoin, path |-> path, script |-> script, show |-> show,
   encodes |-> TRUE]
Addresses ==
  {AddressOf(PathOf(44, 57), "SPENDADDRESS", TRUE), AddressOf(PathOf(44, 60), "SPENDADDRESS", TRUE),
   AddressOf(ShortPath(45), "SPENDMULTISIG", TRUE), AddressOf(PathOf(45, 57), "SPENDMULTISIG", TRUE),
   AddressOf(PathOf(48, 57), "SPENDADDRESS", TRUE), AddressOf(PathOf(49, 57), "SPENDP2SHWITNESS", TRUE),
   AddressOf(PathOf(84, 57), "SPENDWITNESS", TRUE), AddressOf(<<>>, "SPENDADDRESS", FALSE),
   [AddressOf(<<>>, "SPENDADDRESS", TRUE) EXCEPT !.encodes = FALSE],
   [AddressOf(<<>>, "SPENDADDRESS", TRUE) EXCEPT !.coin.known = FALSE]}

Common == [lacks |-> {}, signer |-> "none", network |-> "mainnet"]
Inner == [Common EXCEPT !.signer = "key"]
M(name, quantity) == [name |-> name, quantity |-> quantity]
TransferOf(mosaics, payload, encrypted) ==
  [kind |-> "transfer", lacks |-> {}, mosaics |-> mosaics, payload |-> payload,
   encrypted |-> encrypted]
Txs ==
  {TransferOf(<<>>, FALSE, FALSE), TransferOf(<<>>, TRUE, TRUE),
   TransferOf(<<>>, FALSE, TRUE),
   TransferOf(<<M(2, 3), M(1, 1), M(2, 2)>>, FALSE, FALSE),
   TransferOf(<<M(4, 1), M(3, 1), M(1, 2), M(1, 3)>>, TRUE, FALSE),
   [TransferOf(<<>>, FALSE, FALSE) EXCEPT !.lacks = {"recipient"}]}
  \cup [kind : {"namespace"}, lacks : {{}}, parent : BOOLEAN]
  \cup [kind : {"mosaic"}, lacks : {{}, {"supply"}}, forbidden : {{}}, levy : BOOLEAN]
  \cup [kind : {"supply"}, lacks : {{}, {"delta"}}]
  \cup [kind : {"aggregate"}, lacks : {{}}, modifications : {<<>>, <<"Add", "Delete">>, <<"Add">>},
        relative_change : {0, 1}]
  \cup [kind : {"importance"}, lacks : {{}, {"mode"}}]
NemOf(tx) ==
  [type |-> "NEMSignTx", has_transaction |-> TRUE, provided |-> 1, transaction |-> Common,
   has_multisig |-> FALSE, multisig |-> Common, cosigning |-> FALSE, tx |-> tx]
Wrapped(tx) == [NemOf(tx) EXCEPT !.has_multisig = TRUE, !.multisig = Inner, !.cosigning = TRUE]
Nems ==
  {NemOf(tx) : tx \in Txs} \cup {Wrapped(tx) : tx \in Txs}
  \cup {[NemOf(t) EXCEPT !.provided = 2] : t \in {TransferOf(<<>>, FALSE, FALSE)}}
  \cup {[Wrapped(t) EXCEPT !.multisig.signer = "short"] : t \in {TransferOf(<<>>, FALSE, FALSE)}}

MCRequests == Plains \cup Pings \cup DeviceRequests \cup Keys \cup Verifies \cup Addresses \cup Nems
=============================================================================
