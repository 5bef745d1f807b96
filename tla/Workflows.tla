----------------------------- MODULE Workflows -----------------------------
(***************************************************************************)
(* Two workflows of several messages on one device: entering a seed and    *)
(* signing an Ethereum transaction.  Each keeps its statics between its    *)
(* messages; the messages of the other, Initialize, Cancel and WipeDevice  *)
(* may come in between.                                                    *)
(***************************************************************************)
EXTENDS Recovery, Ethereum

vars == <<recovery, ethereum>>
Init == InitRecovery /\ InitEthereum

\* What the handlers of the recovery do to an Ethereum session: nothing.
Quiet ==
  /\ UNCHANGED <<ethereum_signing, privkey>>
  /\ IF ethereum_signing
     THEN UNCHANGED <<data_total, data_left, chain_id, keccak_ctx, confirmed, signature, requests>>
     ELSE Forgotten

\* fsm_msgInitialize leaves an Ethereum session alone.
fsm_msgInitialize == recovery_abort /\ Quiet
fsm_msgCancel == recovery_abort /\ Cancelled

fsm_msgRecoveryDevice ==
  /\ \E count \in WordCounts, dry \in BOOLEAN : RecoveryDevice(count, dry)
  /\ Quiet
\* A digit that marks its word sleeps, and any handler may run before it goes on.
fsm_msgWordAck == (recovery_word \/ WordChosen) /\ Quiet

fsm_msgEthereumSignTx ==
  /\ stored # NoSeed /\ UNCHANGED recovery
  /\ \E tx \in Txs, key \in Keys : ethereum_signing_init(tx, key)
fsm_msgEthereumTxAck ==
  /\ UNCHANGED recovery
  /\ \E size \in Chunks : ethereum_signing_txack(size)

\* The user confirms; the statics of both workflows stay as they are.
fsm_msgWipeDevice ==
  /\ stored # NoSeed /\ stored' = NoSeed /\ Quiet
  /\ UNCHANGED <<awaiting_word, word_index, sleeping, disturbed>>
  /\ UNCHANGED request /\ UNCHANGED scrambled /\ UNCHANGED data

Next ==
  \/ fsm_msgInitialize \/ fsm_msgCancel \/ fsm_msgRecoveryDevice \/ fsm_msgWordAck
  \/ fsm_msgEthereumSignTx \/ fsm_msgEthereumTxAck \/ fsm_msgWipeDevice

\* The host answers every request for data.
Fairness == WF_vars(fsm_msgEthereumTxAck)
Spec == Init /\ [][Next]_vars
FairSpec == Spec /\ Fairness

-----------------------------------------------------------------------------
(* Properties.                                                             *)

\* Every variable has its type.
TypeOK == RecoveryTypeOK /\ EthereumTypeOK

\* A host that answers every request, whatever its answers are, comes to the end of
\* the session unless it begins new ones for ever.
SigningEnds == []<>~ethereum_signing \/ []<><<fsm_msgEthereumSignTx>>_vars
=============================================================================
