---------------------------- MODULE MCWorkflows ----------------------------
(* Small instances of Workflows.                                           *)
EXTENDS Workflows

\* A list of 29 words.
SmallTable1 == [i \in 0 .. 9 |-> <<0, 1, 4, 6, 9, 10, 12, 15, 16, 19>>[i + 1]]
SmallTable2 == [i \in 0 .. 19 |-> (3 * i + 1) \div 2]

Byte == [size |-> 1, low |-> TRUE]
Address(n) == [size |-> n, low |-> FALSE]
MCTx == [has_chain |-> TRUE, chain |-> 1, has_gas |-> TRUE, transfer |-> FALSE,
         nonce |-> [size |-> 0, low |-> TRUE], gas_price |-> [size |-> 5, low |-> FALSE],
         gas_limit |-> [size |-> 2, low |-> TRUE], to |-> Address(20),
         value |-> [size |-> 1, low |-> FALSE], data_length |-> 0,
         chunk |-> [size |-> 0, low |-> TRUE]]
WithData(n, first) == [MCTx EXCEPT !.data_length = n, !.chunk = [size |-> first, low |-> TRUE]]
\* Transactions of every kind, and refused ones.
MCTxs ==
  {MCTx, [MCTx EXCEPT !.has_chain = FALSE, !.nonce = Byte], [MCTx EXCEPT !.chain = 256],
   [WithData(1, 1) EXCEPT !.chain = 200], WithData(60, 40),
   [WithData(300, 250) EXCEPT !.to = Address(0), !.has_chain = FALSE],
   [WithData(68, 68) EXCEPT !.transfer = TRUE, !.value = [size |-> 0, low |-> TRUE]]}
  \cup {[MCTx EXCEPT !.chain = 0], [MCTx EXCEPT !.has_gas = FALSE], [MCTx EXCEPT !.to = Address(0)],
        WithData(60, 61), WithData(60, 0), WithData(16000001, 1024)}
=============================================================================
