----------------------------- MODULE MCSigning -----------------------------
(* Small instances of Signing: what the host may send.                     *)
EXTENDS Signing

A1 == [len |-> 3, account |-> "a", inRange |-> TRUE]
B1 == [len |-> 3, account |-> "b", inRange |-> TRUE]
Short == [len |-> 1, account |-> "a", inRange |-> TRUE]
NoPath == [len |-> 0, account |-> "a", inRange |-> FALSE]

MCCoins == {[force_bip143 |-> FALSE, has_segwit |-> TRUE]}
AllCoins == MCCoins \cup {[force_bip143 |-> TRUE, has_segwit |-> FALSE]}

MCTxHashes == {"h1", "h2"}
\* h1 has two outputs; h2 has no inputs and extra data.
MCPrevTx == [h \in MCTxHashes |->
               IF h = "h1" THEN [ins |-> 1, outs |-> <<1, 2>>, extra |-> 0]
               ELSE [ins |-> 0, outs |-> <<3>>, extra |-> 2]]
MCMetaMsgs == {[ins |-> 1, outs |-> 2, extra |-> 0],
               [ins |-> 0, outs |-> 1, extra |-> 2],
               [ins |-> 4, outs |-> 2, extra |-> 0]}

OneMetaMsg == {[ins |-> 1, outs |-> 2, extra |-> 0]}

In(h, i, kind, amount, path, ms) ==
  [prevout |-> [hash |-> h, index |-> i], kind |-> kind, amount |-> amount,
   hasAmount |-> amount > 0, path |-> path, multisig |-> ms]
Out(kind, amount, path, address, ms) ==
  [amount |-> amount, kind |-> kind, path |-> path, address |-> address,
   multisig |-> ms]

\* Legacy inputs worth 2 and 3, segwit inputs that claim 2 and 7 (their sum
\* wraps), the last of another account, and one this device does not sign.
SingleInputs ==
  {In("h1", 1, "SPENDADDRESS", 0, A1, SingleSig),
   In("h2", 0, "SPENDADDRESS", 0, A1, SingleSig),
   In("h1", 0, "SPENDWITNESS", 2, A1, SingleSig),
   In("h1", 0, "SPENDP2SHWITNESS", 7, B1, SingleSig),
   In("h1", 0, "EXTERNAL", 0, NoPath, SingleSig)}
\* Two change outputs, a payment, a witness change above the segwit amount and
\* a malformed output.
SingleOutputs ==
  {Out("PAYTOADDRESS", 0, A1, NoAddress, SingleSig),
   Out("PAYTOADDRESS", 1, A1, NoAddress, SingleSig),
   Out("PAYTOADDRESS", 2, NoPath, "x", SingleSig),
   Out("PAYTOWITNESS", 3, A1, NoAddress, SingleSig),
   Out("PAYTOADDRESS", 6, NoPath, NoAddress, SingleSig)}

\* Multisig inputs, one of them malformed, and an input without a wallet path.
MultiInputs ==
  {In("h1", 1, "SPENDADDRESS", 2, A1, "fp"),
   In("h1", 0, "SPENDP2SHWITNESS", 1, A1, "fp"),
   In("h1", 0, "SPENDP2SHWITNESS", 1, A1, BadMultisig),
   In("h1", 0, "SPENDP2SHWITNESS", 2, Short, SingleSig)}
MultiOutputs ==
  {Out("PAYTOADDRESS", 1, A1, NoAddress, "fp"),
   Out("PAYTOADDRESS", 1, A1, "x", "fp"),
   Out("PAYTOOPRETURN", 0, NoPath, NoAddress, SingleSig)}
MainInputs == SingleInputs \cup MultiInputs
MainOutputs == SingleOutputs \cup MultiOutputs

\* One input of each signing method and a change output, for sessions that
\* are replaced half-way.
RestartInputs ==
  {In("h1", 1, "SPENDADDRESS", 2, A1, SingleSig),
   In("h1", 0, "SPENDWITNESS", 1, A1, SingleSig)}
RestartOutputs ==
  {Out("PAYTOADDRESS", 1, A1, NoAddress, SingleSig),
   Out("PAYTOADDRESS", 1, NoPath, "x", SingleSig)}

\* A legacy input and change outputs only, one of them worth nothing.
SimpleInputs == {In("h1", 1, "SPENDADDRESS", 0, A1, SingleSig)}
SimpleOutputs == {Out("PAYTOADDRESS", 1, A1, NoAddress, SingleSig),
                  Out("PAYTOADDRESS", 0, A1, NoAddress, SingleSig)}
=============================================================================
