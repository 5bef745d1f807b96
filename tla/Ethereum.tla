------------------------------ MODULE Ethereum ------------------------------
(***************************************************************************)
(* Signing an Ethereum transaction (ethereum.c): the user confirms what    *)
(* the first message says, then the data comes in chunks.                  *)
(*                                                                         *)
(* A field is its size in bytes and whether its first byte is at most      *)
(* 0x7f, which is all that its RLP encoding depends on; the hash is the    *)
(* number of bytes that went into it after the list header.  Statics that  *)
(* are written before they are read again are reset when a session ends.   *)
(***************************************************************************)
EXTENDS Integers, FiniteSets

CONSTANTS
  MAX_CHAIN_ID,    \* 2147483630
  MaxData,         \* the limit of the data length: 16000000
  Txs,             \* EthereumSignTx messages of the hosts
  Chunks,          \* sizes of the chunks of EthereumTxAck
  Keys             \* private keys of fsm_getDerivedNode

Field == [size : Nat, low : BOOLEAN]
EthereumTx ==
  [has_chain : BOOLEAN, chain : Nat, has_gas : BOOLEAN, transfer : BOOLEAN,
   nonce : Field, gas_price : Field, gas_limit : Field, to : Field, value : Field,
   data_length : Nat, chunk : Field]
NoKey == "zero"
ASSUME EthereumAssumption ==
  /\ MAX_CHAIN_ID \in Nat /\ MaxData \in Nat /\ Chunks \subseteq Nat /\ NoKey \notin Keys
  /\ Txs \subseteq EthereumTx

VARIABLES
  ethereum_signing, data_total, data_left, chain_id, privkey,
  keccak_ctx,      \* the transaction that is hashed, and how far
  \* History variables.
  confirmed,       \* the transaction and key of this session, and its dialogs
  signature,       \* the signature that the last step sent
  requests         \* requests for data that were sent, modulo 2

ethereum == <<ethereum_signing, data_total, data_left, chain_id, privkey, keccak_ctx,
              confirmed, signature, requests>>

NoTx == [kind |-> "no transaction"]
Nothing == [tx |-> NoTx]
Empty == [tx |-> NoTx, rlp_length |-> 0, hashed |-> 0]
InitEthereum ==
  /\ ethereum_signing = FALSE /\ data_total = 0 /\ data_left = 0 /\ chain_id = 0
  /\ privkey = NoKey /\ keccak_ctx = Empty
  /\ confirmed = Nothing /\ signature = Nothing /\ requests = 0

-----------------------------------------------------------------------------
(* RLP.                                                                    *)

hash_data(ctx, n) == [tx |-> ctx.tx, rlp_length |-> ctx.rlp_length, hashed |-> ctx.hashed + n]

\* Bytes that hash_rlp_length hashes in front of a field.
hash_rlp_length(length, low) ==
  IF length = 1 /\ low THEN 0
  ELSE IF length <= 55 THEN 1 ELSE IF length <= 255 THEN 2 ELSE IF length <= 65535 THEN 3 ELSE 4
hash_rlp_field(f) == hash_rlp_length(f.size, f.low) + f.size
\* Of a number of 32 bits, its leading zeros are stripped.
hash_rlp_number(n) ==
  LET size == IF n < 256 THEN 1 ELSE IF n < 65536 THEN 2 ELSE IF n < 16777216 THEN 3 ELSE 4
  IN IF n = 0 THEN 0 ELSE hash_rlp_length(size, n <= 127) + size

rlp_calculate_length(length, low) ==
  IF length = 1 /\ low THEN 1
  ELSE IF length <= 55 THEN 1 + length
  ELSE IF length <= 255 THEN 2 + length
  ELSE IF length <= 65535 THEN 3 + length ELSE 4 + length

Fields(tx) == <<tx.nonce, tx.gas_price, tx.gas_limit, tx.to, tx.value>>
Total(tx, Size(_)) == LET f == Fields(tx)
                      IN Size(f[1]) + Size(f[2]) + Size(f[3]) + Size(f[4]) + Size(f[5])
\* Stage 1.  Of the chain id the parameter firstbyte keeps the lowest byte.
ForgetsChain(tx, total) ==                                       \* a mistake
  LET Size(f) == rlp_calculate_length(f.size, f.low)
  IN Total(tx, Size) + rlp_calculate_length(total, tx.chunk.low)
rlp_length(tx, total) ==
  LET Size(f) == rlp_calculate_length(f.size, f.low)
      chain == IF tx.has_chain THEN tx.chain ELSE 0
  IN Total(tx, Size) + rlp_calculate_length(total, tx.chunk.low)
     + (IF chain = 0 THEN 0
        ELSE rlp_calculate_length(1, chain % 256 <= 127) + 2 * rlp_calculate_length(0, TRUE))
\* Stage 2: the header fields and the first chunk.
header(tx, total) ==
  Total(tx, hash_rlp_field) + hash_rlp_length(total, tx.chunk.low) + tx.chunk.size

-----------------------------------------------------------------------------
(* A session.                                                              *)

KeepsKey == ethereum_signing' = FALSE /\ UNCHANGED privkey            \* a mistake
\* privkey is cleared only if there is a session.
ethereum_signing_abort ==
  /\ ethereum_signing' = FALSE
  /\ privkey' = IF ethereum_signing THEN NoKey ELSE privkey

Forgotten ==
  /\ data_total' = 0 /\ data_left' = 0 /\ chain_id' = 0 /\ keccak_ctx' = Empty
  /\ confirmed' = Nothing /\ requests' = 0 /\ signature' = Nothing

ForgetsAbort == ethereum_signing' = TRUE /\ UNCHANGED privkey /\ Forgotten   \* a mistake
\* ethereum_signing_init, which sets ethereum_signing at once, up to a check that fails
\* or a dialog that the user cancels.
Refuse == ethereum_signing' = FALSE /\ privkey' = NoKey /\ Forgotten

\* send_signature with the hash ctx: signing may fail.
send_signature(ctx, key, chain) ==
  LET h == IF chain = 0 THEN ctx
           ELSE hash_data(ctx, hash_rlp_number(chain) + 2 * hash_rlp_length(0, TRUE))
  IN /\ keccak_ctx' = h /\ ethereum_signing' = FALSE /\ privkey' = NoKey /\ requests' = 0
     /\ \/ signature' = [tx |-> h.tx, key |-> key, chain |-> chain,
                         rlp_length |-> h.rlp_length, hashed |-> h.hashed]
        \/ signature' = Nothing

Continue(ctx, left, key, chain) ==
  \/ /\ left > 0
     /\ keccak_ctx' = ctx /\ ethereum_signing' = TRUE /\ privkey' = key
     /\ signature' = Nothing /\ requests' = 1 - requests      \* send_request_chunk
  \/ left = 0 /\ send_signature(ctx, key, chain)

\* The dialogs of a transaction; a token transfer is shown instead of its data.
Dialogs(tx, total) ==
  {"tx", "fee"} \cup (IF total > 0 /\ ~tx.transfer THEN {"data"} ELSE {})

ethereum_signing_check(tx) ==
  /\ tx.has_gas /\ tx.to.size \in {0, 20}
  /\ tx.to.size = 0 => tx.data_length > 0
  /\ tx.gas_price.size + tx.gas_limit.size <= 30
ChainOk(tx) == tx.has_chain => tx.chain \in 1 .. MAX_CHAIN_ID
LengthOk(tx) == tx.data_length > 0 => tx.chunk.size > 0 /\ tx.data_length <= MaxData

ChunkOk(tx) == tx.chunk.size <= tx.data_length

\* ethereum_signing_init of a transaction that is sound and that the user confirms.
Confirmed(tx, key) ==
  LET ctx == [tx |-> tx, rlp_length |-> rlp_length(tx, tx.data_length),
              hashed |-> header(tx, tx.data_length)]
      left == tx.data_length - tx.chunk.size
  IN /\ ethereum_signing_check(tx) /\ ChainOk(tx) /\ LengthOk(tx) /\ ChunkOk(tx)
     /\ chain_id' = (IF tx.has_chain THEN tx.chain ELSE 0)
     /\ data_total' = tx.data_length /\ data_left' = left
     /\ confirmed' = [tx |-> tx, key |-> key, dialogs |-> Dialogs(tx, tx.data_length)]
     /\ Continue(ctx, left, key, chain_id')

ethereum_signing_init(tx, key) == Confirmed(tx, key) \/ Refuse

\* An answer that is refused, or fsm_msgCancel.
Cancelled == ethereum_signing_abort /\ Forgotten

NoEmptyCheck(size) == size <= data_left                          \* a mistake
Acceptable(size) == size <= data_left /\ (data_left > 0 => size > 0)
ethereum_signing_txack(size) ==
  /\ ethereum_signing
  /\ IF Acceptable(size)
     THEN /\ data_left' = data_left - size
          /\ Continue(hash_data(keccak_ctx, size), data_left - size, privkey, chain_id)
          /\ UNCHANGED <<data_total, chain_id, confirmed>>
     ELSE Cancelled

-----------------------------------------------------------------------------
(* Properties.                                                             *)

\* Every variable has its type.
EthereumTypeOK ==
  /\ ethereum_signing \in BOOLEAN /\ data_total \in 0 .. MaxData /\ data_left \in 0 .. MaxData
  /\ chain_id \in 0 .. MAX_CHAIN_ID /\ requests \in {0, 1} /\ privkey \in Keys \cup {NoKey}

\* The list header that opens the hashed transaction gives the number of bytes that
\* follow it, whatever the fields, the data and its chunks were, when the chain id has
\* one byte; a longer one is counted as one byte (ethereum.c:538), and then the header
\* gives too few.
SignedLengthIsTrue ==
  signature # Nothing =>
    IF signature.chain < 256 THEN signature.hashed = signature.rlp_length
                             ELSE signature.hashed > signature.rlp_length

\* What is signed is what the dialogs of this session showed, fee and data included,
\* with the key and the chain of its first message.
SignsWhatWasConfirmed ==
  signature # Nothing =>
    /\ confirmed # Nothing
    /\ signature.tx = confirmed.tx /\ signature.key = confirmed.key
    /\ signature.chain = IF confirmed.tx.has_chain THEN confirmed.tx.chain ELSE 0
    /\ {"tx", "fee"} \subseteq confirmed.dialogs
    /\ confirmed.tx.data_length > 0 /\ ~confirmed.tx.transfer => "data" \in confirmed.dialogs

\* A key stays in privkey as long as data is missing, and no longer; what is missing
\* is what the hash still lacks of the confirmed transaction.
KeyWaitsForData ==
  /\ ethereum_signing <=> privkey # NoKey
  /\ ethereum_signing =>
       /\ data_left \in 1 .. data_total /\ confirmed.tx = keccak_ctx.tx
       /\ keccak_ctx.hashed + data_left
          = header(confirmed.tx, data_total) - confirmed.tx.chunk.size + data_total
=============================================================================
