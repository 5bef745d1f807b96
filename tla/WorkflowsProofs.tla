--------------------------- MODULE WorkflowsProofs ---------------------------
(***************************************************************************)
(* Proofs about Workflows: what an Ethereum session signs, and what a      *)
(* recovery stores.                                                        *)
(***************************************************************************)
EXTENDS Workflows, FiniteSetTheorems, SequenceTheorems, TLAPS

-----------------------------------------------------------------------------
(* RLP: the length that is announced and the bytes that are hashed.        *)

\* The length of a header and of what it precedes are computed alike.
LEMMA LengthsAgree ==
  ASSUME NEW n \in Nat, NEW low \in BOOLEAN
  PROVE  /\ hash_rlp_length(n, low) \in Nat
         /\ rlp_calculate_length(n, low) = hash_rlp_length(n, low) + n
BY SMT DEF hash_rlp_length, rlp_calculate_length

\* The same of a field of a message.
LEMMA FieldsAgree ==
  ASSUME NEW f \in Field
  PROVE  /\ hash_rlp_field(f) \in Nat
         /\ rlp_calculate_length(f.size, f.low) = hash_rlp_field(f)
<1>1. f.size \in Nat /\ f.low \in BOOLEAN  BY DEF Field
<1> QED  BY <1>1, LengthsAgree DEF hash_rlp_field

\* The chain id of one byte and its two empty successors.
LEMMA ShortChain ==
  ASSUME NEW n \in 1 .. 255
  PROVE  hash_rlp_number(n) = rlp_calculate_length(1, n % 256 <= 127)
<1>1. n % 256 = n  BY SMT
<1> QED  BY <1>1, SMT DEF hash_rlp_number, hash_rlp_field, hash_rlp_length, rlp_calculate_length

LEMMA LongChain ==
  ASSUME NEW n \in Nat, n > 255
  PROVE  hash_rlp_number(n) > rlp_calculate_length(1, n % 256 <= 127)
BY SMT DEF hash_rlp_number, hash_rlp_field, hash_rlp_length, rlp_calculate_length
LEMMA NumberType ==
  ASSUME NEW n \in Nat
  PROVE  hash_rlp_number(n) \in Nat
BY SMT DEF hash_rlp_number, hash_rlp_field, hash_rlp_length

\* The bytes of chain that send_signature hashes.
Suffix(chain) == IF chain = 0 THEN 0
                 ELSE hash_rlp_number(chain) + 2 * hash_rlp_length(0, TRUE)
Chain(tx) == IF tx.has_chain THEN tx.chain ELSE 0

\* Arithmetic of the next lemmas.
LEMMA Sums ==
  ASSUME NEW h \in Nat, NEW c \in Nat, NEW n \in Nat, NEW a \in Int, NEW b \in Int
  PROVE  /\ h = h - c + n - (n - c)
         /\ h - c + n - a + b = h - c + n - (a - b)
         /\ (h - c + n - a) + 0 = h - c + n - a
OBVIOUS
LEMMA SixSums ==
  ASSUME NEW f1 \in Nat, NEW f2 \in Nat, NEW f3 \in Nat, NEW f4 \in Nat, NEW f5 \in Nat,
         NEW l \in Nat, NEW c \in Nat, NEW n \in Nat, NEW s \in Nat
  PROVE  /\ f1 + f2 + f3 + f4 + f5 + l + c \in Nat
         /\ f1 + f2 + f3 + f4 + f5 + (l + n) + s \in Nat
         /\ f1 + f2 + f3 + f4 + f5 + (l + n) + s = f1 + f2 + f3 + f4 + f5 + l + c - c + n + s
OBVIOUS

\* The hashed length without the chain id is the announced one: the header, with the
\* rest of the data instead of the first chunk.
LEMMA HeaderIsAnnounced ==
  ASSUME NEW tx \in EthereumTx
  PROVE  /\ header(tx, tx.data_length) \in Nat /\ rlp_length(tx, tx.data_length) \in Nat
         /\ rlp_length(tx, tx.data_length)
            = header(tx, tx.data_length) - tx.chunk.size + tx.data_length
              + (IF Chain(tx) = 0 THEN 0
                 ELSE rlp_calculate_length(1, Chain(tx) % 256 <= 127)
                      + 2 * rlp_calculate_length(0, TRUE))
<1>1. /\ tx.nonce \in Field /\ tx.gas_price \in Field /\ tx.gas_limit \in Field
      /\ tx.to \in Field /\ tx.value \in Field
  BY DEF EthereumTx
<1>2. tx.data_length \in Nat /\ tx.chunk.size \in Nat /\ tx.chunk.low \in BOOLEAN /\ Chain(tx) \in Nat
  BY DEF EthereumTx, Field, Chain
<1> DEFINE A == rlp_calculate_length(1, Chain(tx) % 256 <= 127)
           B == rlp_calculate_length(0, TRUE)
           Size(f) == rlp_calculate_length(f.size, f.low)
           S == IF Chain(tx) = 0 THEN 0 ELSE A + 2 * B
<1>3. S \in Nat  BY SMT, <1>2 DEF rlp_calculate_length
<1>4. \A f \in Field : Size(f) = hash_rlp_field(f) /\ hash_rlp_field(f) \in Nat
  BY FieldsAgree
<1>5. /\ rlp_calculate_length(tx.data_length, tx.chunk.low)
         = hash_rlp_length(tx.data_length, tx.chunk.low) + tx.data_length
      /\ hash_rlp_length(tx.data_length, tx.chunk.low) \in Nat
  BY <1>2, LengthsAgree
<1>6. rlp_length(tx, tx.data_length)
      = hash_rlp_field(tx.nonce) + hash_rlp_field(tx.gas_price) + hash_rlp_field(tx.gas_limit)
        + hash_rlp_field(tx.to) + hash_rlp_field(tx.value)
        + (hash_rlp_length(tx.data_length, tx.chunk.low) + tx.data_length) + S
  <2>1. rlp_length(tx, tx.data_length)
        = Size(tx.nonce) + Size(tx.gas_price) + Size(tx.gas_limit) + Size(tx.to) + Size(tx.value)
          + rlp_calculate_length(tx.data_length, tx.chunk.low) + S
    BY DEF rlp_length, Total, Fields, Chain
  <2> HIDE DEF Size, S
  <2> QED  BY <1>1, <1>4, <1>5, <2>1
<1>7. header(tx, tx.data_length)
      = hash_rlp_field(tx.nonce) + hash_rlp_field(tx.gas_price) + hash_rlp_field(tx.gas_limit)
        + hash_rlp_field(tx.to) + hash_rlp_field(tx.value)
        + hash_rlp_length(tx.data_length, tx.chunk.low) + tx.chunk.size
  BY DEF header, Total, Fields
<1> HIDE DEF S
<1>8. /\ header(tx, tx.data_length) \in Nat /\ rlp_length(tx, tx.data_length) \in Nat
      /\ rlp_length(tx, tx.data_length)
         = header(tx, tx.data_length) - tx.chunk.size + tx.data_length + S
  BY <1>1, <1>2, <1>3, <1>4, <1>5, <1>6, <1>7, SixSums
<1> QED  BY <1>8 DEF S

-----------------------------------------------------------------------------
(* The session.                                                            *)

\* The hash of tx when left bytes of its data are missing.
Ctx(tx, left) ==
  [tx |-> tx, rlp_length |-> rlp_length(tx, tx.data_length),
   hashed |-> header(tx, tx.data_length) - tx.chunk.size + tx.data_length - left]
Confirmation(tx, key) == [tx |-> tx, key |-> key, dialogs |-> Dialogs(tx, tx.data_length)]
Signature(tx, key) ==
  [tx |-> tx, key |-> key, chain |-> Chain(tx), rlp_length |-> rlp_length(tx, tx.data_length),
   hashed |-> Ctx(tx, 0).hashed + Suffix(Chain(tx))]

\* A session goes on with what was confirmed, and what is signed was confirmed last.
Session ==
  \E tx \in Txs, key \in Keys :
    /\ confirmed = Confirmation(tx, key) /\ privkey = key /\ chain_id = Chain(tx)
    /\ data_total = tx.data_length /\ data_left \in 1 .. data_total
    /\ keccak_ctx = Ctx(tx, data_left)
Signed ==
  \E tx \in Txs, key \in Keys :
    confirmed = Confirmation(tx, key) /\ signature = Signature(tx, key)
EthereumInv ==
  /\ ethereum_signing \in BOOLEAN
  /\ ethereum_signing => Session
  /\ ~ethereum_signing => privkey = NoKey
  /\ signature # Nothing => Signed

LEMMA ContinueKeepsInv ==
  ASSUME NEW tx \in Txs, NEW key \in Keys, NEW left \in Nat, left <= tx.data_length,
         confirmed' = Confirmation(tx, key), chain_id' = Chain(tx),
         data_total' = tx.data_length, data_left' = left,
         Continue(Ctx(tx, left), left, key, Chain(tx))
  PROVE  EthereumInv'
<1>0. tx.data_length \in Nat  BY EthereumAssumption DEF EthereumTx
<1>1. CASE /\ left > 0
           /\ keccak_ctx' = Ctx(tx, left) /\ ethereum_signing' = TRUE /\ privkey' = key
           /\ signature' = Nothing
  <2>1. data_left' \in 1 .. data_total'  BY <1>0, <1>1
  <2>2. Session'  BY <1>1, <2>1 DEF Session
  <2> QED  BY <1>1, <2>2 DEF EthereumInv
<1>2. CASE left = 0 /\ send_signature(Ctx(tx, left), key, Chain(tx))
  <2>1. ethereum_signing' = FALSE /\ privkey' = NoKey  BY <1>2 DEF send_signature
  <2>2. signature' \in {Nothing, Signature(tx, key)}
    <3>1. CASE Chain(tx) = 0
      <4>1. Ctx(tx, 0).hashed + 0 = Ctx(tx, 0).hashed
        <5>1. /\ tx \in EthereumTx /\ tx.chunk.size \in Nat
          BY EthereumAssumption DEF EthereumTx, Field
        <5>2. header(tx, tx.data_length) \in Nat  BY <5>1, HeaderIsAnnounced
        <5> QED  BY <1>0, <5>1, <5>2, Sums DEF Ctx
      <4> QED  BY <1>2, <3>1, <4>1 DEF send_signature, Signature, Suffix, Ctx, hash_data
    <3>2. CASE Chain(tx) # 0
      BY <1>2, <3>2 DEF send_signature, Signature, Suffix, Ctx, hash_data
    <3> QED  BY <3>1, <3>2
  <2>3. signature' # Nothing => Signed'  BY <2>2 DEF Signed
  <2> QED  BY <2>1, <2>3 DEF EthereumInv
<1> QED  BY <1>1, <1>2 DEF Continue

LEMMA InitInv == Init => EthereumInv
BY DEF Init, InitEthereum, EthereumInv

LEMMA StepKeepsInv ==
  ASSUME EthereumInv, [Next]_vars
  PROVE  EthereumInv'
<1>1. CASE Quiet \/ UNCHANGED vars
  BY <1>1 DEF Quiet, Forgotten, vars, ethereum, EthereumInv, Session, Signed
<1>2. CASE Cancelled
  BY <1>2 DEF Cancelled, Forgotten, ethereum_signing_abort, EthereumInv
<1>3. ASSUME NEW tx \in Txs, NEW key \in Keys, Confirmed(tx, key)
      PROVE  EthereumInv'
  <2> DEFINE left == tx.data_length - tx.chunk.size
  <2>1. tx \in EthereumTx  BY EthereumAssumption
  <2>2. left \in Nat /\ left <= tx.data_length /\ tx.chunk.size \in Nat /\ tx.data_length \in Nat
    BY <1>3, <2>1 DEF Confirmed, ChunkOk, EthereumTx, Field
  <2>3. header(tx, tx.data_length)
        = header(tx, tx.data_length) - tx.chunk.size + tx.data_length - left
    <3>1. header(tx, tx.data_length) \in Nat  BY <2>1, HeaderIsAnnounced
    <3> QED  BY <2>2, <3>1, Sums
  <2>4. /\ chain_id' = Chain(tx) /\ data_total' = tx.data_length /\ data_left' = left
        /\ confirmed' = Confirmation(tx, key)
        /\ Continue(Ctx(tx, left), left, key, Chain(tx))
    BY <1>3, <2>3 DEF Confirmed, Chain, Confirmation, Ctx
  <2> QED  BY <2>2, <2>4, ContinueKeepsInv
<1>4. CASE Refuse
  BY <1>4 DEF Refuse, Forgotten, EthereumInv
<1>5. ASSUME NEW size \in Chunks, ethereum_signing_txack(size)
      PROVE  EthereumInv'
  <2>1. PICK tx \in Txs, key \in Keys :
          /\ confirmed = Confirmation(tx, key) /\ privkey = key /\ chain_id = Chain(tx)
          /\ data_total = tx.data_length /\ data_left \in 1 .. data_total
          /\ keccak_ctx = Ctx(tx, data_left)
    BY <1>5 DEF ethereum_signing_txack, EthereumInv, Session
  <2>2. CASE Acceptable(size)
    <3> DEFINE left == data_left - size
    <3>1. tx \in EthereumTx  BY EthereumAssumption
    <3>2. /\ size \in Nat /\ data_left \in Nat /\ left \in Nat /\ left <= tx.data_length
          /\ tx.chunk.size \in Nat /\ tx.data_length \in Nat
      BY <2>1, <2>2, <3>1, EthereumAssumption DEF Acceptable, EthereumTx, Field
    <3>3. Ctx(tx, data_left).hashed + size = Ctx(tx, left).hashed
      <4>1. header(tx, tx.data_length) \in Nat  BY <3>1, HeaderIsAnnounced
      <4> QED  BY <3>2, <4>1, Sums DEF Ctx
    <3>4. hash_data(keccak_ctx, size) = Ctx(tx, left)
      BY <2>1, <3>3 DEF Ctx, hash_data
    <3>5. /\ chain_id' = Chain(tx) /\ data_total' = tx.data_length /\ data_left' = left
          /\ confirmed' = Confirmation(tx, key)
          /\ Continue(Ctx(tx, left), left, key, Chain(tx))
      BY <1>5, <2>1, <2>2, <3>4 DEF ethereum_signing_txack
    <3> QED  BY <3>2, <3>5, ContinueKeepsInv
  <2>3. CASE ~Acceptable(size)
    BY <1>2, <1>5, <2>3 DEF ethereum_signing_txack
  <2> QED  BY <2>2, <2>3
<1> QED
  BY <1>1, <1>2, <1>3, <1>4, <1>5
  DEF Next, fsm_msgInitialize, fsm_msgCancel, fsm_msgRecoveryDevice, fsm_msgWordAck,
      fsm_msgEthereumSignTx, fsm_msgEthereumTxAck, fsm_msgWipeDevice, ethereum_signing_init

\* InvHolds: the bytes announced, hashed and missing add up in every state of a session
\* (ethereum_signing_init, ethereum_signing_txack).
THEOREM InvHolds == Spec => []EthereumInv
<1>1. EthereumInv /\ [Next]_vars => EthereumInv'  BY StepKeepsInv
<1> QED  BY InitInv, <1>1, PTL DEF Spec
-----------------------------------------------------------------------------
(* What it means.                                                          *)

LEMMA ConfirmationIsOne ==
  ASSUME NEW tx, NEW key
  PROVE  Confirmation(tx, key) # Nothing
<1>1. "key" \in DOMAIN Confirmation(tx, key) /\ "key" \notin DOMAIN Nothing
  BY DEF Confirmation, Nothing
<1> QED  BY <1>1

LEMMA InvImplies == EthereumInv => SignsWhatWasConfirmed /\ KeyWaitsForData /\ SignedLengthIsTrue
<1> SUFFICES ASSUME EthereumInv
             PROVE  SignsWhatWasConfirmed /\ KeyWaitsForData /\ SignedLengthIsTrue
  OBVIOUS
<1>1. SignsWhatWasConfirmed
  <2> SUFFICES ASSUME signature # Nothing
               PROVE  /\ confirmed # Nothing
                      /\ signature.tx = confirmed.tx /\ signature.key = confirmed.key
                      /\ signature.chain = Chain(confirmed.tx)
                      /\ {"tx", "fee"} \subseteq confirmed.dialogs
                      /\ confirmed.tx.data_length > 0 /\ ~confirmed.tx.transfer
                           => "data" \in confirmed.dialogs
    BY DEF SignsWhatWasConfirmed, Chain
  <2>1. PICK tx \in Txs, key \in Keys :
          confirmed = Confirmation(tx, key) /\ signature = Signature(tx, key)
    BY DEF EthereumInv, Signed
  <2> QED  BY <2>1, ConfirmationIsOne DEF Confirmation, Signature, Dialogs
<1>2. KeyWaitsForData
  <2>1. CASE ethereum_signing
    <3>1. PICK tx \in Txs, key \in Keys :
            /\ confirmed = Confirmation(tx, key) /\ privkey = key /\ chain_id = Chain(tx)
            /\ data_total = tx.data_length /\ data_left \in 1 .. data_total
            /\ keccak_ctx = Ctx(tx, data_left)
      BY <2>1 DEF EthereumInv, Session
    <3>2. tx.data_length \in Nat /\ tx.chunk.size \in Nat /\ header(tx, tx.data_length) \in Nat
      BY HeaderIsAnnounced, EthereumAssumption DEF EthereumTx, Field
    <3>3. Ctx(tx, data_left).hashed + data_left
          = header(tx, tx.data_length) - tx.chunk.size + tx.data_length
      BY <3>1, <3>2 DEF Ctx
    <3>4. privkey # NoKey  BY <3>1, EthereumAssumption
    <3> QED  BY <2>1, <3>1, <3>3, <3>4 DEF KeyWaitsForData, Ctx, Confirmation
  <2>2. CASE ~ethereum_signing  BY <2>2 DEF EthereumInv, KeyWaitsForData
  <2> QED  BY <2>1, <2>2 DEF EthereumInv
<1>3. SignedLengthIsTrue
  <2> SUFFICES ASSUME signature # Nothing
               PROVE  IF signature.chain < 256 THEN signature.hashed = signature.rlp_length
                                               ELSE signature.hashed > signature.rlp_length
    BY DEF SignedLengthIsTrue
  <2>1. PICK tx \in Txs, key \in Keys : signature = Signature(tx, key)
    BY DEF EthereumInv, Signed
  <2> DEFINE base == header(tx, tx.data_length) - tx.chunk.size + tx.data_length
             c == Chain(tx)
             A == rlp_calculate_length(1, c % 256 <= 127)
             B == rlp_calculate_length(0, TRUE)
             D == hash_rlp_length(0, TRUE)
  <2>2. tx \in EthereumTx  BY EthereumAssumption
  <2>3. base \in Int /\ c \in Nat
    <3>1. c \in Nat /\ tx.data_length \in Nat /\ tx.chunk.size \in Nat
      BY <2>2 DEF EthereumTx, Field, Chain
    <3>2. header(tx, tx.data_length) \in Nat  BY <2>2, HeaderIsAnnounced
    <3> QED  BY <3>1, <3>2
  <2>4. Ctx(tx, 0).hashed = base
    <3>1. tx.data_length - 0 = tx.data_length  BY <2>2 DEF EthereumTx
    <3> QED  BY <3>1 DEF Ctx
  <2>5. signature.chain = c /\ signature.hashed = base + Suffix(c)
        /\ signature.rlp_length = base + (IF c = 0 THEN 0 ELSE A + 2 * B)
    BY <2>1, <2>2, <2>4, HeaderIsAnnounced DEF Signature
  <2>6. B = 1 /\ D = 1 /\ A \in Nat
    BY SMT, <2>3 DEF rlp_calculate_length, hash_rlp_length
  <2>7. c > 0 => hash_rlp_number(c) \in Nat
    BY <2>3, NumberType
  <2>8. c \in 1 .. 255 => hash_rlp_number(c) = A  BY ShortChain
  <2>9. c > 255 => hash_rlp_number(c) > A  BY <2>3, LongChain
  <2> HIDE DEF base, c, A, B, D
  <2>10. Suffix(c) = IF c = 0 THEN 0 ELSE hash_rlp_number(c) + 2 * D  BY DEF Suffix, D
  <2>11. CASE c = 0
    BY <2>3, <2>5, <2>10, <2>11
  <2>12. CASE c \in 1 .. 255
    BY <2>3, <2>5, <2>6, <2>7, <2>8, <2>10, <2>12
  <2>13. CASE c > 255
    <3>1. /\ signature.hashed = base + (hash_rlp_number(c) + 2)
          /\ signature.rlp_length = base + (A + 2)
      BY <2>3, <2>5, <2>6, <2>7, <2>10, <2>13
    <3> QED  BY <2>3, <2>5, <2>6, <2>7, <2>9, <2>13, <3>1
  <2> QED  BY <2>3, <2>11, <2>12, <2>13
<1> QED  BY <1>1, <1>2, <1>3

\* SigningIsHonest: whatever the messages, their sizes and their order, and whatever a
\* recovery does in between, an Ethereum signature is for the transaction, key and chain
\* the user confirmed in this session (ethereum_signing_init).
THEOREM SigningIsHonest == Spec => []SignsWhatWasConfirmed
<1>1. EthereumInv => SignsWhatWasConfirmed  BY InvImplies
<1> QED  BY InvHolds, <1>1, PTL

\* KeyIsNeeded: the private key is in RAM exactly while data is missing, and what is
\* missing is what the hash lacks (ethereum_signing_txack, ethereum_signing_abort).
THEOREM KeyIsNeeded == Spec => []KeyWaitsForData
<1>1. EthereumInv => KeyWaitsForData  BY InvImplies
<1> QED  BY InvHolds, <1>1, PTL

\* LengthIsTrue: the length computed in stage 1 of ethereum_signing_init is the number of
\* bytes hashed after it, for fields and chunks of any size, if the chain id has one byte.
THEOREM LengthIsTrue == Spec => []SignedLengthIsTrue
<1>1. EthereumInv => SignedLengthIsTrue  BY InvImplies
<1> QED  BY InvHolds, <1>1, PTL

-----------------------------------------------------------------------------
(* A recovery: the invariant.                                              *)

Origins == {"stale", "entered", "astray", "other"}
FromUser == {"entered", "astray"}

\* Scrambled: the words asked for so far are at their places.
ScrambledInv ==
  /\ word_order \in Orders(word_count)
  /\ \A i \in Positions : i < word_index /\ word_order[i] # 0 => words[word_order[i] - 1] = "entered"

\* The matrix: word_pincode has the digits of what was pressed for this word.  Only the
\* third matrix has empty cells; the one after its last choice is still in the tables.
Digits == 0 .. Base - 1
One(x) == Append(<<>>, x)
Two(x, y) == Append(One(x), y)
Three(x, y, z) == Append(Two(x, y), z)
PressedInv ==
  \/ Level = 0 /\ word_pincode = 0 /\ pressed = <<>>
  \/ Level = 1 /\ \E a \in Digits : word_pincode = a /\ pressed = One(RangeAt(0, 0, a))
  \/ /\ Level = 2
     /\ \E a, b \in Digits : /\ word_pincode = a * Base + b
                             /\ pressed = Two(RangeAt(0, 0, a), RangeAt(1, a, b))
  \/ /\ Level = 3
     /\ \E a, b, c \in Digits :
          /\ word_pincode = (a * Base + b) * Base + c
          /\ TABLE1[a * Base + b] + c < TABLE1[Base * Base]
          /\ \E last \in {NoRange, RangeAt(2, a * Base + b, c)} :
               pressed = Three(RangeAt(0, 0, a), RangeAt(1, a, b), last)
\* The words before the one that is chosen are the user's.
MatrixInv ==
  /\ word_index < 4 * word_count
  /\ \A s \in Positions : s < Slot => words[s] \in FromUser
\* One digit sleeps: its choice is that of a cell of the last matrix.
MarkedInv ==
  /\ Level = 3 /\ pressed # <<>>
  /\ \E a, b, c \in Digits :
       /\ word_pincode = (a * Base + b) * Base + c
       /\ TABLE1[a * Base + b] + c < TABLE1[Base * Base]
  /\ \E cell \in Nat :
       /\ Last(pressed) = Shown(cell)
       /\ sleeping = One([choice |-> Clamp(cell, NumChoices(3, word_pincode)), slot |-> Slot])

\* What holds of any recovery whose data is followed ...
FollowedInv ==
  /\ awaiting_word = 1 => /\ sleeping = <<>>
                          /\ word_index < Slots /\ word_order[word_index] = word_pos
  /\ awaiting_word = 2 /\ sleeping = <<>> => PressedInv
  /\ sleeping # <<>> => MarkedInv
\* ... and of one that was not disturbed.
OwnInv ==
  /\ awaiting_word # 0 \/ sleeping # <<>> =>
       word_count \in WordCounts /\ (dry_run \/ asked = "real")
  /\ awaiting_word = 1 => ScrambledInv
  /\ awaiting_word = 2 \/ sleeping # <<>> => MatrixInv
RecoveryTypes ==
  /\ awaiting_word \in 0 .. 2 /\ word_index \in Nat
  /\ words \in [Positions -> Origins] /\ stored \in {NoSeed, "entered", "disturbed"}
RecoveryInv ==
  /\ RecoveryTypes
  /\ disturbed # "nested" => FollowedInv
  /\ disturbed = "no" => OwnInv

-----------------------------------------------------------------------------
(* Arithmetic.                                                             *)

\* word_index counts the matrices, four to a word.
LEMMA Quarters ==
  ASSUME NEW n \in Nat
  PROVE  /\ n % 4 \in 0 .. 3 /\ n \div 4 \in Nat /\ n = 4 * (n \div 4) + (n % 4)
         /\ n % 4 = 0 /\ n > 0 =>
              n - 4 \in Nat /\ (n - 4) \div 4 = (n \div 4) - 1 /\ (n - 4) % 4 = 0
         /\ n % 4 # 0 => n - 1 \in Nat /\ (n - 1) \div 4 = n \div 4 /\ (n - 1) % 4 = (n % 4) - 1
         /\ n % 4 # 3 => (n + 1) \div 4 = n \div 4 /\ (n + 1) % 4 = (n % 4) + 1
         /\ n % 4 = 3 => (n + 1) \div 4 = (n \div 4) + 1 /\ (n + 1) % 4 = 0
         /\ 0 \div 4 = 0 /\ 0 % 4 = 0
OBVIOUS

\* word_pincode is a number of digits.
LEMMA LastDigit ==
  ASSUME NEW b \in Nat \ {0}, NEW g \in Nat, NEW r \in 0 .. b - 1
  PROVE  (g * b + r) \div b = g /\ (g * b + r) % b = r /\ g * b + r \in Nat /\ b * g + r = g * b + r
OBVIOUS
LEMMA TwoDigits ==
  ASSUME NEW b \in Nat \ {0}, NEW g \in 0 .. b - 1, NEW r \in 0 .. b - 1
  PROVE  g * b + r \in 0 .. b * b - 1
<1>1. g * b <= (b - 1) * b  OBVIOUS
<1>2. (b - 1) * b = b * b - b /\ g * b \in Nat /\ b * b \in Nat  OBVIOUS
<1> QED  BY <1>1, <1>2
LEMMA Groups ==
  ASSUME NEW b \in Nat \ {0}, NEW i \in 0 .. b - 1
  PROVE  /\ b * i \in Nat /\ b * i < b * (i + 1) /\ b * (i + 1) <= b * b /\ b * (i + 1) = b * i + b
         /\ b * 0 = 0 /\ b * (b - 1 + 1) = b * b /\ b * b \in Nat \ {0}
OBVIOUS

-----------------------------------------------------------------------------
(* The tables.                                                             *)

Last1 == Base * Base
Last2 == TABLE1[Last1]
LEMMA TableFacts ==
  /\ Base \in Nat \ {0} /\ Narrow \in Nat \ {0} /\ Last1 \in Nat \ {0} /\ Last2 \in Nat
  /\ TABLE1[0] = 0 /\ TABLE2[0] = 0
  /\ \A g \in 0 .. Last1 : TABLE1[g] \in 0 .. Last2
  /\ \A g \in 0 .. Last1 - 1 : TABLE1[g] < Last2 /\ TABLE1[g + 1] - TABLE1[g] \in 1 .. Base
  /\ \A g, h \in 0 .. Last1 : g < h => TABLE1[g] < TABLE1[h]
  /\ Last2 - TABLE1[Last1 - 1] = Base
  /\ \A r \in 0 .. Last2 : TABLE2[r] \in Nat
  /\ \A r \in 0 .. Last2 - 1 : TABLE2[r + 1] - TABLE2[r] \in 1 .. Narrow
  /\ \A r, t \in 0 .. Last2 : r < t => TABLE2[r] < TABLE2[t]
<1>1. Base \in Nat \ {0} /\ Narrow \in Nat \ {0}  BY RecoveryAssumption
<1>2. Last1 \in Nat \ {0}  BY <1>1 DEF Last1
<1>3. /\ TABLE1 \in [0 .. Last1 -> Nat] /\ TABLE1[0] = 0 /\ Grows(TABLE1, Last1)
      /\ \A g \in 0 .. Last1 - 1 : TABLE1[g + 1] - TABLE1[g] <= Base
      /\ TABLE1[Last1] - TABLE1[Last1 - 1] = Base
      /\ TABLE2 \in [0 .. Last2 -> Nat] /\ TABLE2[0] = 0 /\ Grows(TABLE2, Last2)
      /\ \A r \in 0 .. Last2 - 1 : TABLE2[r + 1] - TABLE2[r] <= Narrow
  BY RecoveryAssumption DEF Tables, Last1, Last2
<1>4. \A g \in 0 .. Last1 : TABLE1[g] \in Nat  BY <1>3
<1>5. Last2 \in Nat  BY <1>2, <1>4 DEF Last2
<1>6. \A g, h \in 0 .. Last1 : g < h => TABLE1[g] < TABLE1[h]
  <2> TAKE g, h \in 0 .. Last1
  <2>1. g < h => g \in 0 .. h - 1  OBVIOUS
  <2> QED  BY <1>3, <2>1 DEF Grows
<1>7. \A r, t \in 0 .. Last2 : r < t => TABLE2[r] < TABLE2[t]
  <2> TAKE r, t \in 0 .. Last2
  <2>1. r < t => r \in 0 .. t - 1  OBVIOUS
  <2> QED  BY <1>3, <2>1 DEF Grows
<1>8. ASSUME NEW g \in 0 .. Last1 - 1
      PROVE  TABLE1[g] < Last2 /\ TABLE1[g + 1] - TABLE1[g] \in 1 .. Base
  <2>1. g \in 0 .. Last1 /\ g + 1 \in 0 .. Last1 /\ Last1 \in 0 .. Last1 /\ g < g + 1 /\ g < Last1
    BY <1>2
  <2>2. TABLE1[g] < TABLE1[Last1] /\ TABLE1[g] < TABLE1[g + 1]  BY <1>6, <2>1
  <2>3. TABLE1[g] \in Nat /\ TABLE1[g + 1] \in Nat  BY <1>4, <2>1
  <2>4. TABLE1[g + 1] - TABLE1[g] <= Base  BY <1>3
  <2> QED  BY <1>1, <2>2, <2>3, <2>4 DEF Last2
<1>9. ASSUME NEW r \in 0 .. Last2 - 1
      PROVE  TABLE2[r + 1] - TABLE2[r] \in 1 .. Narrow
  <2>1. r \in 0 .. Last2 /\ r + 1 \in 0 .. Last2 /\ r < r + 1  BY <1>5
  <2>2. TABLE2[r] < TABLE2[r + 1]  BY <1>7, <2>1
  <2>3. TABLE2[r] \in Nat /\ TABLE2[r + 1] \in Nat  BY <1>3, <2>1
  <2>4. TABLE2[r + 1] - TABLE2[r] <= Narrow  BY <1>3
  <2> QED  BY <1>1, <2>2, <2>3, <2>4
<1>10. \A g \in 0 .. Last1 : TABLE1[g] \in 0 .. Last2
  <2> TAKE g \in 0 .. Last1
  <2>1. g = Last1 \/ g \in 0 .. Last1 - 1  BY <1>2
  <2> QED  BY <1>4, <1>5, <1>8, <2>1 DEF Last2
<1>11. \A r \in 0 .. Last2 : TABLE2[r] \in Nat  BY <1>3
<1>12. Last2 - TABLE1[Last1 - 1] = Base  BY <1>3 DEF Last2
<1> QED  BY <1>1, <1>2, <1>3, <1>5, <1>6, <1>7, <1>8, <1>9, <1>10, <1>11, <1>12

\* next_matrix, level by level.
LEMMA Ranges ==
  ASSUME NEW p, NEW i
  PROVE  /\ RangeAt(0, p, i) = <<TABLE2[TABLE1[Base * i]], TABLE2[TABLE1[Base * (i + 1)]] - 1>>
         /\ RangeAt(1, p, i) = <<TABLE2[TABLE1[Base * p + i]], TABLE2[TABLE1[Base * p + i + 1]] - 1>>
         /\ RangeAt(2, p, i) = <<TABLE2[TABLE1[p] + i], TABLE2[TABLE1[p] + i + 1] - 1>>
         /\ LET first == TABLE2[TABLE1[p \div Base] + (p % Base)]
            IN RangeAt(3, p, i) = <<first + i, first + i>>
BY DEF RangeAt
LEMMA Nums ==
  ASSUME NEW p
  PROVE  /\ NumChoices(0, p) = Base /\ NumChoices(1, p) = Base
         /\ NumChoices(2, p) = TABLE1[p + 1] - TABLE1[p]
         /\ LET idx == TABLE1[p \div Base] + (p % Base)
            IN NumChoices(3, p) = TABLE2[idx + 1] - TABLE2[idx]
BY DEF NumChoices
LEMMA RangesAreRanges ==
  ASSUME NEW p, NEW i, NEW level \in 0 .. 3
  PROVE  RangeAt(level, p, i) # NoRange
<1>1. \A u, v : <<u, v>> # NoRange  BY DEF NoRange
<1>2. level = 0 \/ level = 1 \/ level = 2 \/ level = 3  OBVIOUS
<1> QED  BY <1>1, <1>2, Ranges

-----------------------------------------------------------------------------
(* What was pressed.                                                       *)

LEMMA FrontOfAppend ==
  ASSUME NEW S, NEW s \in Seq(S), NEW e \in S
  PROVE  Front(Append(s, e)) = s /\ Last(Append(s, e)) = e
<1> DEFINE t == Append(s, e)
<1>1. t \in Seq(S) /\ Len(t) = Len(s) + 1 /\ (\A i \in 1 .. Len(s) : t[i] = s[i]) /\ t[Len(s) + 1] = e
  BY AppendProperties
<1> HIDE DEF t
<1>2. Len(s) \in Nat  OBVIOUS
<1>3. Front(t) = SubSeq(t, 1, Len(s))  BY <1>1, <1>2 DEF Front
<1>4. \A i \in 1 .. Len(s) : t[i] \in S  BY <1>1, ElementOfSeq
<1>5. /\ SubSeq(t, 1, Len(s)) \in Seq(S)
      /\ Len(SubSeq(t, 1, Len(s))) = IF 1 <= Len(s) THEN Len(s) - 1 + 1 ELSE 0
      /\ \A i \in 1 .. Len(s) - 1 + 1 : SubSeq(t, 1, Len(s))[i] = t[1 + i - 1]
  BY <1>2, <1>4, SubSeqProperties
<1> DEFINE f == SubSeq(t, 1, Len(s))
<1>6. f \in Seq(S)  BY <1>5
<1>7. Len(f) = Len(s)  BY <1>2, <1>5
<1>8. ASSUME NEW i \in 1 .. Len(s) PROVE f[i] = s[i]
  <2>1. f[i] = t[1 + i - 1]  BY <1>2, <1>5
  <2>2. 1 + i - 1 = i  BY <1>2
  <2> QED  BY <1>1, <2>1, <2>2
<1> HIDE DEF f
<1>9. f = s  BY <1>6, <1>7, <1>8, SeqEqual
<1>10. Last(t) = e  BY <1>1 DEF Last
<1> QED  BY <1>3, <1>9, <1>10 DEF f, t

LEMMA PressedFacts ==
  ASSUME NEW x, NEW y, NEW z
  PROVE  /\ Front(One(x)) = <<>> /\ Front(Two(x, y)) = One(x) /\ Front(Three(x, y, z)) = Two(x, y)
         /\ Last(One(x)) = x /\ Last(Two(x, y)) = y /\ Last(Three(x, y, z)) = z
         /\ One(x) # <<>> /\ Two(x, y) # <<>> /\ Three(x, y, z) # <<>>
         /\ \A e : Last(Append(Three(x, y, z), e)) = e /\ Append(Three(x, y, z), e) # <<>>
<1> DEFINE S == {x, y, z}
<1>1. x \in S /\ y \in S /\ z \in S  OBVIOUS
<1> HIDE DEF S
<1>2. <<>> \in Seq(S)  BY EmptySeq
<1>3. One(x) \in Seq(S) /\ One(x) # <<>>  BY <1>1, <1>2, AppendProperties DEF One
<1>4. Two(x, y) \in Seq(S) /\ Two(x, y) # <<>>  BY <1>1, <1>3, AppendProperties DEF Two
<1>5. Three(x, y, z) # <<>>  BY <1>1, <1>4, AppendProperties DEF Three
<1>6. Front(One(x)) = <<>> /\ Last(One(x)) = x  BY <1>1, <1>2, FrontOfAppend DEF One
<1>7. Front(Two(x, y)) = One(x) /\ Last(Two(x, y)) = y  BY <1>1, <1>3, FrontOfAppend DEF Two
<1>8. Front(Three(x, y, z)) = Two(x, y) /\ Last(Three(x, y, z)) = z
  BY <1>1, <1>4, FrontOfAppend DEF Three
<1>9. ASSUME NEW e
      PROVE  Last(Append(Three(x, y, z), e)) = e /\ Append(Three(x, y, z), e) # <<>>
  <2> DEFINE T == {x, y, z, e}
  <2>1. x \in T /\ y \in T /\ z \in T /\ e \in T  OBVIOUS
  <2> HIDE DEF T
  <2>2. <<>> \in Seq(T)  BY EmptySeq
  <2>3. One(x) \in Seq(T)  BY <2>1, <2>2, AppendProperties DEF One
  <2>4. Two(x, y) \in Seq(T)  BY <2>1, <2>3, AppendProperties DEF Two
  <2>5. Three(x, y, z) \in Seq(T)  BY <2>1, <2>4, AppendProperties DEF Three
  <2> QED  BY <2>1, <2>5, FrontOfAppend, AppendProperties
<1> QED  BY <1>3, <1>4, <1>5, <1>6, <1>7, <1>8, <1>9

\* A digit, of a word that is not complete.
LEMMA PressKeeps ==
  ASSUME PressedInv, word_index \in Nat, Level # 3, NEW cell \in 0 .. Cells(Level) - 1,
         word_pincode' = word_pincode * Base + Clamp(cell, NumChoices(Level, word_pincode)),
         word_index' = word_index + 1, pressed' = Append(pressed, Shown(cell))
  PROVE  PressedInv'
<1>1. Base \in Nat \ {0}  BY TableFacts
<1>2. Level' = Level + 1  BY Quarters DEF Level
<1>3. Cells(Level) = Base  BY DEF Cells
<1>4. cell \in Digits /\ ~(cell > Base) /\ cell < Base  BY <1>1, <1>3 DEF Digits
<1>5. CASE Level = 0 /\ word_pincode = 0 /\ pressed = <<>>
  <2>1. NumChoices(Level, word_pincode) = Base  BY <1>5, Nums
  <2>2. word_pincode' = 0 * Base + cell  BY <1>4, <1>5, <2>1 DEF Clamp
  <2>3. Shown(cell) = RangeAt(0, 0, cell)  BY <1>4, <1>5, <2>1 DEF Shown
  <2>4. word_pincode' = cell  BY <1>1, <1>4, <2>2 DEF Digits
  <2>5. pressed' = One(RangeAt(0, 0, cell))  BY <1>5, <2>3 DEF One
  <2>6. Level' = 1  BY <1>2, <1>5
  <2> QED  BY <1>4, <2>4, <2>5, <2>6 DEF PressedInv
<1>6. ASSUME Level = 1, NEW a \in Digits, word_pincode = a, pressed = One(RangeAt(0, 0, a))
      PROVE  PressedInv'
  <2>1. NumChoices(Level, word_pincode) = Base  BY <1>6, Nums
  <2>2. word_pincode' = a * Base + cell  BY <1>4, <1>6, <2>1 DEF Clamp
  <2>3. Shown(cell) = RangeAt(1, a, cell)  BY <1>4, <1>6, <2>1 DEF Shown
  <2>4. pressed' = Two(RangeAt(0, 0, a), RangeAt(1, a, cell))  BY <1>6, <2>3 DEF Two
  <2>5. Level' = 2  BY <1>2, <1>6
  <2> QED  BY <1>4, <2>2, <2>4, <2>5 DEF PressedInv
<1>7. ASSUME Level = 2, NEW a \in Digits, NEW b \in Digits, word_pincode = a * Base + b,
             pressed = Two(RangeAt(0, 0, a), RangeAt(1, a, b))
      PROVE  PressedInv'
  <2> DEFINE p == a * Base + b
             num == TABLE1[p + 1] - TABLE1[p]
             c == Clamp(cell, num)
  <2>1. p \in 0 .. Last1 - 1
    BY <1>1, TwoDigits DEF Digits, Last1
  <2>2. NumChoices(Level, word_pincode) = num  BY <1>7, Nums
  <2>3. word_pincode' = p * Base + c  BY <1>7, <2>2
  <2> HIDE DEF p
  <2>4. num \in 1 .. Base /\ TABLE1[p] < Last2 /\ TABLE1[p] \in Nat /\ Last2 \in Nat
    <3>1. Last1 \in Nat /\ Last2 \in Nat  BY TableFacts
    <3>2. p \in 0 .. Last1  BY <2>1, <3>1
    <3>3. TABLE1[p] \in 0 .. Last2  BY ONLY <3>2, TableFacts
    <3>4. TABLE1[p] < Last2 /\ num \in 1 .. Base  BY ONLY <2>1, TableFacts
    <3> QED  BY <3>1, <3>3, <3>4
  <2>5. c \in Digits /\ c <= num /\ (c = cell \/ c = 0)
    BY <1>1, <1>4, <2>4 DEF Clamp, Digits
  <2>6. TABLE1[p] + c < Last2
    <3>1. CASE p = Last1 - 1
      <4>1. Last2 - TABLE1[p] = Base  BY <3>1, TableFacts
      <4>2. c < Base  BY <2>5, <1>1 DEF Digits
      <4> QED  BY <1>1, <2>4, <2>5, <4>1, <4>2 DEF Digits
    <3>2. CASE p + 1 \in 0 .. Last1 - 1
      <4>1. TABLE1[p + 1] < Last2  BY <3>2, TableFacts
      <4>2. TABLE1[p + 1] \in Nat
        <5>1. p + 1 \in 0 .. Last1
          <6>1. Last1 \in Nat  BY TableFacts
          <6> QED  BY <3>2, <6>1
        <5> QED  BY <5>1, TableFacts
      <4>3. TABLE1[p] + c <= TABLE1[p + 1]  BY <2>4, <2>5, <4>2 DEF Digits
      <4> QED  BY <2>4, <2>5, <4>1, <4>2, <4>3 DEF Digits
    <3>3. p = Last1 - 1 \/ p + 1 \in 0 .. Last1 - 1
      <4>1. Last1 \in Nat  BY TableFacts
      <4> QED  BY <2>1, <4>1
    <3> QED  BY <3>1, <3>2, <3>3
  <2>7. Shown(cell) \in {NoRange, RangeAt(2, p, c)}
    <3>1. CASE cell < num
      <4>1. c = cell  BY <1>1, <1>4, <2>4, <3>1 DEF Clamp, Digits
      <4>2. Shown(cell) = RangeAt(2, p, cell)  BY <1>7, <2>2, <3>1 DEF Shown, p
      <4> QED  BY <4>1, <4>2
    <3>2. CASE ~(cell < num)
      BY <1>7, <2>2, <3>2 DEF Shown
    <3> QED  BY <3>1, <3>2
  <2>8. pressed' = Three(RangeAt(0, 0, a), RangeAt(1, a, b), Shown(cell))  BY <1>7 DEF Three
  <2>9. Level' = 3  BY <1>2, <1>7
  <2> HIDE DEF c
  <2> QED  BY <2>3, <2>5, <2>6, <2>7, <2>8, <2>9 DEF PressedInv, p, Last1, Last2
<1> QED  BY <1>5, <1>6, <1>7 DEF PressedInv

\* A backspace within a word.
LEMMA BackspaceUndoes ==
  ASSUME PressedInv, word_index \in Nat, Level # 0,
         word_pincode' = word_pincode \div Base, word_index' = word_index - 1,
         pressed' = Front(pressed)
  PROVE  PressedInv'
<1>1. Base \in Nat \ {0}  BY TableFacts
<1>2. Level' = Level - 1  BY Quarters DEF Level
<1>3. ASSUME Level = 1, NEW a \in Digits, word_pincode = a, pressed = One(RangeAt(0, 0, a))
      PROVE  PressedInv'
  <2>1. a = 0 * Base + a /\ a \in 0 .. Base - 1  BY <1>1 DEF Digits
  <2>2. word_pincode' = 0
    <3>1. (0 * Base + a) \div Base = 0  BY <1>1, <2>1, LastDigit
    <3> QED  BY <1>3, <2>1, <3>1
  <2>3. pressed' = <<>>  BY <1>3, PressedFacts
  <2>4. Level' = 0  BY <1>2, <1>3
  <2> QED  BY <2>2, <2>3, <2>4 DEF PressedInv
<1>4. ASSUME Level = 2, NEW a \in Digits, NEW b \in Digits, word_pincode = a * Base + b,
             pressed = Two(RangeAt(0, 0, a), RangeAt(1, a, b))
      PROVE  PressedInv'
  <2>1. word_pincode' = a
    <3>1. (a * Base + b) \div Base = a  BY <1>1, LastDigit DEF Digits
    <3> QED  BY <1>4, <3>1
  <2>2. pressed' = One(RangeAt(0, 0, a))  BY <1>4, PressedFacts
  <2>3. Level' = 1  BY <1>2, <1>4
  <2> QED  BY <2>1, <2>2, <2>3 DEF PressedInv
<1>5. ASSUME Level = 3, NEW a \in Digits, NEW b \in Digits, NEW c \in Digits, NEW last,
             word_pincode = (a * Base + b) * Base + c,
             pressed = Three(RangeAt(0, 0, a), RangeAt(1, a, b), last)
      PROVE  PressedInv'
  <2>1. a * Base + b \in Nat  BY <1>1, LastDigit DEF Digits
  <2>2. word_pincode' = a * Base + b  BY <1>1, <1>5, <2>1, LastDigit DEF Digits
  <2>3. pressed' = Two(RangeAt(0, 0, a), RangeAt(1, a, b))  BY <1>5, PressedFacts
  <2>4. Level' = 2  BY <1>2, <1>5
  <2> QED  BY <2>2, <2>3, <2>4 DEF PressedInv
<1> QED  BY <1>3, <1>4, <1>5 DEF PressedInv

\* The cell of the last matrix: its number of choices, and its words.
LEMMA LastMatrix ==
  ASSUME NEW a \in Digits, NEW b \in Digits, NEW c \in Digits,
         word_pincode = (a * Base + b) * Base + c,
         TABLE1[a * Base + b] + c < TABLE1[Base * Base]
  PROVE  \E idx \in 0 .. Last2 - 1 :
           /\ NumChoices(3, word_pincode) = TABLE2[idx + 1] - TABLE2[idx]
           /\ TABLE2[idx] \in Nat /\ TABLE2[idx + 1] - TABLE2[idx] \in 1 .. Narrow
           /\ \A i : RangeAt(3, word_pincode, i) = <<TABLE2[idx] + i, TABLE2[idx] + i>>
           /\ RangeAt(2, a * Base + b, c) = <<TABLE2[idx], TABLE2[idx + 1] - 1>>
<1>2. Base \in Nat \ {0} /\ Last1 \in Nat /\ Last2 \in Nat  BY TableFacts
<1> DEFINE p == a * Base + b
           idx == TABLE1[p] + c
<1>3. p \in 0 .. Last1 - 1  BY <1>2, TwoDigits DEF Digits, Last1
<1>4. p \in Nat  BY <1>2, <1>3
<1>5. word_pincode \div Base = p /\ word_pincode % Base = c
  <2>1. word_pincode = p * Base + c /\ c \in 0 .. Base - 1  BY DEF Digits
  <2> HIDE DEF p
  <2> QED  BY ONLY <1>2, <1>4, <2>1, LastDigit
<1>6. TABLE1[p] \in Nat
  <2>1. p \in 0 .. Last1  BY <1>2, <1>3
  <2> QED  BY <2>1, TableFacts
<1>7. idx \in 0 .. Last2 - 1
  <2>1. TABLE1[p] + c < Last2  BY DEF Last1, Last2
  <2> HIDE DEF p
  <2> QED  BY <1>2, <1>6, <2>1 DEF Digits
<1>8. NumChoices(3, word_pincode) = TABLE2[idx + 1] - TABLE2[idx]  BY <1>5, Nums
<1>9. \A i : RangeAt(3, word_pincode, i) = <<TABLE2[idx] + i, TABLE2[idx] + i>>  BY <1>5, Ranges
<1>10. RangeAt(2, p, c) = <<TABLE2[idx], TABLE2[idx + 1] - 1>>  BY Ranges
<1> HIDE DEF idx
<1>11. TABLE2[idx] \in Nat /\ TABLE2[idx + 1] - TABLE2[idx] \in 1 .. Narrow
  <2>1. idx \in 0 .. Last2  BY <1>2, <1>7
  <2> QED  BY <1>7, <2>1, TableFacts
<1> QED  BY <1>7, <1>8, <1>9, <1>10, <1>11

-----------------------------------------------------------------------------
(* The steps of a recovery.                                                *)

\* Every word has its turn in a scrambled order.
LEMMA EveryWordIsAsked ==
  ASSUME NEW count, NEW o \in Orders(count), NEW p \in 1 .. count
  PROVE  \E i \in Positions : o[i] = p
<1> DEFINE T == {i \in Positions : o[i] = p}
<1>1. Cardinality(T) = 1  BY DEF Orders
<1>2. Cardinality({}) = 0  BY FS_EmptySet
<1>3. T # {}  BY <1>1, <1>2
<1> QED  BY <1>3

\* The word that is written is the one behind the cell the user pressed.
LEMMA EnteredIsFromUser ==
  ASSUME MarkedInv
  PROVE  /\ sleeping' = Front(sleeping) => sleeping' = <<>>
         /\ LET d == Last(sleeping)
            IN Entered(d, RangeAt(3, word_pincode, d.choice)[1]) \in FromUser
<1>1. PICK cell \in Nat :
        /\ Last(pressed) = Shown(cell)
        /\ sleeping = One([choice |-> Clamp(cell, NumChoices(3, word_pincode)), slot |-> Slot])
  BY DEF MarkedInv
<1>2. Level = 3 /\ pressed # <<>>  BY DEF MarkedInv
<1>3. PICK idx \in 0 .. Last2 - 1 :
        /\ NumChoices(3, word_pincode) = TABLE2[idx + 1] - TABLE2[idx]
        /\ TABLE2[idx] \in Nat /\ TABLE2[idx + 1] - TABLE2[idx] \in 1 .. Narrow
        /\ \A i : RangeAt(3, word_pincode, i) = <<TABLE2[idx] + i, TABLE2[idx] + i>>
  BY LastMatrix DEF MarkedInv
<1> DEFINE num == TABLE2[idx + 1] - TABLE2[idx]
           first == TABLE2[idx]
           d == Last(sleeping)
<1>4. d.choice = Clamp(cell, num) /\ d.slot = Slot /\ Front(sleeping) = <<>>
  <2>1. d = [choice |-> Clamp(cell, NumChoices(3, word_pincode)), slot |-> Slot]
        /\ Front(sleeping) = <<>>
    BY <1>1, PressedFacts
  <2> HIDE DEF d
  <2> QED  BY <1>3, <2>1
<1> HIDE DEF d
<1>5. ASSUME Shown(cell) = NoRange
      PROVE  Entered(d, RangeAt(3, word_pincode, d.choice)[1]) \in FromUser
  BY <1>1, <1>2, <1>4, <1>5 DEF Entered, FromUser
<1>6. ASSUME Shown(cell) # NoRange
      PROVE  Entered(d, RangeAt(3, word_pincode, d.choice)[1]) \in FromUser
  <2>1. cell < num /\ Shown(cell) = RangeAt(3, word_pincode, cell)
    BY <1>2, <1>3, <1>6 DEF Shown
  <2>2. num \in Int  BY <1>3, TableFacts
  <2>3. d.choice = cell  BY <1>4, <2>1, <2>2 DEF Clamp
  <2>4. RangeAt(3, word_pincode, cell) = <<first + cell, first + cell>>  BY <1>3
  <2>5. RangeAt(3, word_pincode, d.choice)[1] = first + cell  BY <2>3, <2>4
  <2>6. Last(pressed) = <<first + cell, first + cell>>  BY <1>1, <2>1, <2>4
  <2> HIDE DEF first
  <2> QED  BY <1>1, <1>2, <1>4, <1>6, <2>5, <2>6 DEF Entered, FromUser
<1>7. Entered(d, RangeAt(3, word_pincode, d.choice)[1]) \in FromUser  BY <1>5, <1>6
<1> QED  BY <1>4, <1>7 DEF d

\* What is entered has its type, whether it is followed or not.
LEMMA EnterTypes ==
  ASSUME NEW w \in [Positions -> Origins], NEW pincode, NEW ranges, Enter(w, pincode, ranges)
  PROVE  words' \in [Positions -> Origins]
<1>1. Words("other") \in [Positions -> Origins]  BY DEF Words, Origins
<1> QED  BY <1>1 DEF Enter

\* When no recovery is left, nothing is to be shown.
LEMMA ForgetKeeps ==
  ASSUME Forget, awaiting_word' = 0, sleeping' = <<>>,
         stored' \in {NoSeed, "entered", "disturbed"}
  PROVE  RecoveryInv'
<1>1. words' \in [Positions -> Origins] /\ word_index' = 0  BY DEF Forget, Words, Origins
<1>2. RecoveryTypes'  BY <1>1 DEF RecoveryTypes
<1>3. FollowedInv' /\ OwnInv'  BY DEF FollowedInv, OwnInv
<1> QED  BY <1>2, <1>3 DEF RecoveryInv

LEMMA DoneKeeps ==
  ASSUME RecoveryTypes, NEW w \in [Positions -> Origins], recovery_done(w),
         disturbed = "no" => /\ dry_run \/ asked = "real"
                             /\ \A t \in 0 .. word_count - 1 : w[t] \in FromUser
  PROVE  RecoveryInv'
<1>1. stored' \in {NoSeed, "entered", "disturbed"}
  <2>1. CASE UNCHANGED stored  BY <2>1 DEF RecoveryTypes
  <2>2. CASE disturbed # "no" /\ stored' = Seed(w)  BY <2>2 DEF Seed
  <2>3. CASE disturbed = "no" /\ ~dry_run /\ stored' = Seed(w)
    <3>1. {w[i] : i \in 0 .. word_count - 1} \subseteq {"entered", "astray"}  BY <2>3 DEF FromUser
    <3>2. Seed(w) = "entered"  BY <2>3, <3>1 DEF Seed
    <3> QED  BY <2>3, <3>2
  <2> QED  BY <2>1, <2>2, <2>3 DEF recovery_done
<1>2. CASE sleeping' = <<>>  BY <1>1, <1>2, ForgetKeeps DEF recovery_done
<1>3. CASE sleeping' # <<>>
  <2>1. /\ awaiting_word' = 0 /\ word_index' = word_index /\ disturbed' = "nested"
        /\ Enter(w, 0, <<>>)
    BY <1>3 DEF recovery_done
  <2>2. words' \in [Positions -> Origins]  BY <2>1, EnterTypes
  <2> QED  BY <1>1, <2>1, <2>2 DEF RecoveryInv, RecoveryTypes
<1> QED  BY <1>2, <1>3

LEMMA Sizes ==
  /\ Slots \in Nat \ {0}
  /\ \A count \in WordCounts : count \in 1 .. Slots
BY RecoveryAssumption

\* A handler of recovery.c in the sleep of another one disturbs it.
LEMMA NestedIs ==
  ASSUME disturbed' = Nested, disturbed' # "nested"
  PROVE  sleeping = <<>> /\ disturbed' = disturbed
BY DEF Nested

LEMMA ScrambledKeeps ==
  ASSUME RecoveryInv, awaiting_word = 1, recovery_scrambledword
  PROVE  RecoveryInv'
<1> DEFINE w == IF word_pos = 0 THEN words ELSE [words EXCEPT ![word_pos - 1] = "entered"]
<1>1. word_index \in Positions /\ words \in [Positions -> Origins] /\ RecoveryTypes
  BY DEF recovery_scrambledword, RecoveryInv, RecoveryTypes
<1>2. Slots \in Nat \ {0}  BY Sizes
<1>3. w \in [Positions -> Origins]
  <2>1. "entered" \in Origins  BY DEF Origins
  <2> QED  BY <1>1, <2>1
<1>4. ASSUME disturbed = "no"
      PROVE  /\ word_count \in WordCounts /\ word_count \in 1 .. Slots /\ (dry_run \/ asked = "real")
             /\ word_order \in Orders(word_count)
             /\ \A i \in Positions : i < word_index + 1 /\ word_order[i] # 0 =>
                                       w[word_order[i] - 1] = "entered"
  <2>1. /\ word_order \in Orders(word_count) /\ word_order[word_index] = word_pos
        /\ word_count \in WordCounts /\ (dry_run \/ asked = "real")
        /\ \A i \in Positions : i < word_index /\ word_order[i] # 0 => words[word_order[i] - 1] = "entered"
    BY <1>4 DEF RecoveryInv, FollowedInv, OwnInv, ScrambledInv
  <2>2. word_count \in 1 .. Slots  BY <2>1, Sizes
  <2>3. word_order \in [Positions -> 0 .. word_count]  BY <2>1 DEF Orders
  <2>4. word_pos \in 0 .. word_count /\ (word_pos # 0 => word_pos - 1 \in Positions)
    BY <1>1, <1>2, <2>1, <2>2, <2>3 DEF Positions
  <2>5. \A p \in Positions : w[p] = IF p + 1 = word_pos THEN "entered" ELSE words[p]
    BY <1>1, <2>4 DEF Positions
  <2>6. ASSUME NEW i \in Positions, i < word_index + 1, word_order[i] # 0
        PROVE  w[word_order[i] - 1] = "entered"
    <3>1. word_order[i] \in 1 .. word_count  BY <2>3, <2>6
    <3>2. word_order[i] - 1 \in Positions /\ word_order[i] - 1 + 1 = word_order[i]
      BY <1>2, <2>2, <3>1 DEF Positions
    <3>3. i = word_index \/ i < word_index  BY <1>1, <2>6 DEF Positions
    <3> HIDE DEF w
    <3> QED  BY <2>1, <2>5, <2>6, <3>2, <3>3
  <2> QED  BY <2>1, <2>2, <2>6
<1> HIDE DEF w
<1>5. CASE word_index + 1 = Slots /\ recovery_done(w)
  <2>1. ASSUME disturbed = "no", NEW t \in 0 .. word_count - 1 PROVE w[t] \in FromUser
    <3>1. t + 1 \in 1 .. word_count /\ t + 1 # 0 /\ t + 1 - 1 = t  BY <1>4, <2>1
    <3>2. PICK i \in Positions : word_order[i] = t + 1
      BY <1>4, <2>1, <3>1, EveryWordIsAsked
    <3>3. i < word_index + 1  BY <1>2, <1>5 DEF Positions
    <3>4. w[word_order[i] - 1] = "entered"  BY <1>4, <2>1, <3>1, <3>2, <3>3
    <3> QED  BY <3>1, <3>2, <3>4 DEF FromUser
  <2> QED  BY <1>1, <1>3, <1>4, <1>5, <2>1, DoneKeeps
<1>6. CASE /\ word_index + 1 # Slots
           /\ UNCHANGED <<awaiting_word, word_order, stored>> /\ UNCHANGED request
           /\ word_index' = word_index + 1 /\ next_word(word_index + 1)
           /\ disturbed' = Nested /\ Enter(w, word_pincode, <<>>)
  <2>1. word_index + 1 \in Nat /\ word_index + 1 < Slots  BY <1>1, <1>2, <1>6 DEF Positions
  <2>2. words' \in [Positions -> Origins]  BY <1>3, <1>6, EnterTypes
  <2>3. RecoveryTypes'  BY <1>1, <1>6, <2>1, <2>2 DEF RecoveryTypes
  <2>4. ASSUME disturbed' # "nested" PROVE FollowedInv'
    <3>1. sleeping' = <<>>  BY <1>6, <2>4, NestedIs DEF recovery_scrambledword
    <3>2. word_order'[word_index'] = word_pos'  BY <1>6 DEF next_word
    <3> QED  BY <1>6, <2>1, <3>1, <3>2 DEF FollowedInv
  <2>5. ASSUME disturbed' = "no" PROVE OwnInv'
    <3>1. disturbed = "no" /\ sleeping' = <<>>
      BY <1>6, <2>5, NestedIs DEF recovery_scrambledword
    <3>2. words' = w  BY <1>6, <2>5 DEF Enter
    <3>3. /\ word_count' = word_count /\ dry_run' = dry_run /\ asked' = asked
          /\ word_order' = word_order
      BY <1>6 DEF request
    <3>4. ScrambledInv'  BY <1>4, <1>6, <3>1, <3>2, <3>3 DEF ScrambledInv, Positions
    <3> QED  BY <1>4, <1>6, <3>1, <3>3, <3>4 DEF OwnInv
  <2> QED  BY <2>3, <2>4, <2>5 DEF RecoveryInv
<1> QED  BY <1>5, <1>6 DEF recovery_scrambledword, w

\* What is known of the word that is chosen.
LEMMA SlotFacts ==
  ASSUME word_index \in Nat
  PROVE  /\ Slot \in Nat /\ Level \in 0 .. 3 /\ word_index = 4 * Slot + Level
         /\ word_index < 4 * word_count /\ word_count \in Nat => Slot < word_count
BY Quarters DEF Slot, Level

LEMMA ChosenKeeps ==
  ASSUME RecoveryInv, WordChosen
  PROVE  RecoveryInv'
<1> DEFINE d == Last(sleeping)
           e == Entered(d, RangeAt(3, word_pincode, d.choice)[1])
           w == [words EXCEPT ![Slot] = e]
<1>1. /\ RecoveryTypes /\ words \in [Positions -> Origins] /\ word_index \in Nat
      /\ awaiting_word \in 0 .. 2 /\ Slot \in Positions /\ sleeping # <<>>
      /\ Slot \in Nat /\ word_index = 4 * Slot + Level
  BY SlotFacts DEF RecoveryInv, RecoveryTypes, WordChosen, InWords
<1>2. e \in Origins  BY DEF Entered, Origins
<1>3. ASSUME disturbed # "nested" PROVE MarkedInv
  BY <1>1, <1>3 DEF RecoveryInv, FollowedInv
<1>4. ASSUME disturbed # "nested" PROVE e \in FromUser /\ sleeping' = <<>> /\ Level = 3
  BY <1>3, <1>4, EnteredIsFromUser DEF WordChosen, MarkedInv
<1>5. \/ IsLast /\ recovery_done(w)
      \/ awaiting_word = 0 /\ sleeping' = <<>> /\ UNCHANGED <<awaiting_word, stored>> /\ Forget
      \/ /\ ~IsLast /\ ~(awaiting_word = 0 /\ sleeping' = <<>>)
         /\ UNCHANGED <<awaiting_word, stored>>
         /\ UNCHANGED disturbed /\ UNCHANGED request /\ UNCHANGED scrambled
         /\ word_index' = word_index + 1 /\ Enter(w, 0, <<>>)
  BY DEF WordChosen
<1> HIDE DEF e, d
<1>6. w \in [Positions -> Origins] /\ w[Slot] = e  BY <1>1, <1>2
<1>7. \A t \in Positions : t # Slot => w[t] = words[t]  BY <1>1
<1> HIDE DEF w
<1>8. ASSUME disturbed = "no"
      PROVE  /\ word_count \in WordCounts /\ word_count \in 1 .. Slots /\ (dry_run \/ asked = "real")
             /\ Slot < word_count /\ Slots \in Nat
             /\ \A t \in Positions : t < Slot \/ t = Slot => w[t] \in FromUser
  <2>1. /\ word_count \in WordCounts /\ (dry_run \/ asked = "real") /\ word_index < 4 * word_count
        /\ \A t \in Positions : t < Slot => words[t] \in FromUser
    BY <1>1, <1>8 DEF RecoveryInv, OwnInv, MatrixInv
  <2>2. word_count \in 1 .. Slots /\ Slots \in Nat  BY <2>1, Sizes
  <2>3. Slot < word_count  BY <1>1, <2>1, <2>2, SlotFacts
  <2>4. \A t \in Positions : t < Slot => t # Slot  BY <1>1 DEF Positions
  <2> QED  BY <1>4, <1>6, <1>7, <1>8, <2>1, <2>2, <2>3, <2>4
<1>9. CASE IsLast /\ recovery_done(w)
  <2>1. ASSUME disturbed = "no", NEW t \in 0 .. word_count - 1 PROVE w[t] \in FromUser
    <3>1. word_count = Slot + 1 /\ word_count \in 1 .. Slots /\ Slots \in Nat
      BY <1>8, <1>9, <2>1 DEF IsLast
    <3>2. t \in Positions /\ (t < Slot \/ t = Slot)  BY <1>1, <3>1 DEF Positions
    <3> QED  BY <1>8, <2>1, <3>2
  <2> QED  BY <1>1, <1>6, <1>8, <1>9, <2>1, DoneKeeps
<1>10. CASE awaiting_word = 0 /\ sleeping' = <<>> /\ UNCHANGED <<awaiting_word, stored>> /\ Forget
  BY <1>1, <1>10, ForgetKeeps DEF RecoveryTypes
<1>11. CASE /\ ~IsLast /\ ~(awaiting_word = 0 /\ sleeping' = <<>>)
            /\ UNCHANGED <<awaiting_word, stored>>
            /\ UNCHANGED disturbed /\ UNCHANGED request /\ UNCHANGED scrambled
            /\ word_index' = word_index + 1 /\ Enter(w, 0, <<>>)
  <2>1. RecoveryTypes'
    <3>1. words' \in [Positions -> Origins]  BY <1>6, <1>11, EnterTypes
    <3> QED  BY <1>1, <1>11, <3>1 DEF RecoveryTypes
  <2>2. ASSUME disturbed' # "nested"
        PROVE  /\ awaiting_word' = 2 /\ sleeping' = <<>> /\ Level' = 0 /\ Slot' = Slot + 1
               /\ words' = w /\ word_pincode' = 0 /\ pressed' = <<>>
    <3>1. sleeping' = <<>> /\ Level = 3  BY <1>4, <1>11, <2>2
    <3>2. awaiting_word # 1  BY <1>1, <1>11, <2>2 DEF RecoveryInv, FollowedInv
    <3>3. (word_index + 1) \div 4 = word_index \div 4 + 1 /\ (word_index + 1) % 4 = 0
      BY <1>1, <3>1, Quarters DEF Level
    <3> QED  BY <1>1, <1>11, <2>2, <3>1, <3>2, <3>3 DEF Level, Slot, Enter
  <2>3. ASSUME disturbed' # "nested" PROVE FollowedInv'
    BY <2>2, <2>3 DEF FollowedInv, PressedInv
  <2>4. ASSUME disturbed' = "no" PROVE OwnInv'
    <3>1. disturbed = "no" /\ disturbed' # "nested"  BY <1>11, <2>4
    <3>2. word_count' = word_count /\ dry_run' = dry_run /\ asked' = asked  BY <1>11 DEF request
    <3>3. word_index' < 4 * word_count'
      <4>1. Slot + 1 # word_count /\ Level = 3  BY <1>4, <1>11, <3>1 DEF IsLast
      <4> QED  BY <1>1, <1>8, <1>11, <3>1, <3>2, <4>1
    <3>4. \A t \in Positions : t < Slot' => words'[t] \in FromUser
      <4>1. \A t \in Positions : t < Slot + 1 => t < Slot \/ t = Slot  BY <1>1 DEF Positions
      <4> QED  BY <1>8, <2>2, <3>1, <4>1
    <3>5. MatrixInv'  BY <3>3, <3>4 DEF MatrixInv, Positions
    <3> QED  BY <1>8, <2>2, <3>1, <3>2, <3>5 DEF OwnInv
  <2> QED  BY <2>1, <2>3, <2>4 DEF RecoveryInv
<1> QED  BY <1>5, <1>9, <1>10, <1>11

LEMMA BackspaceKeeps ==
  ASSUME RecoveryInv, awaiting_word = 2, Backspace
  PROVE  RecoveryInv'
<1>1. /\ RecoveryTypes /\ word_index \in Nat /\ words \in [Positions -> Origins]
      /\ Slot \in Nat /\ Level \in 0 .. 3
  BY SlotFacts DEF RecoveryInv, RecoveryTypes
<1>2. /\ UNCHANGED <<awaiting_word, sleeping, stored>> /\ UNCHANGED request
      /\ disturbed' = Nested
      /\ Level = 0 => /\ word_index' = IF word_index > 0 THEN word_index - 4 ELSE 0
                      /\ Enter(words, word_pincode, pressed)
      /\ Level # 0 => /\ word_index' = word_index - 1
                      /\ Enter(words, word_pincode \div Base, Front(pressed))
  BY DEF Backspace
<1>3. /\ word_index' \in Nat /\ word_index' <= word_index
      /\ Slot' \in Nat /\ Slot' <= Slot
      /\ Level = 0 => Level' = 0
  <2>1. /\ Level = 0 /\ word_index > 0 =>
             word_index - 4 \in Nat /\ (word_index - 4) \div 4 = (word_index \div 4) - 1
               /\ (word_index - 4) % 4 = 0
        /\ Level # 0 => word_index - 1 \in Nat /\ (word_index - 1) \div 4 = word_index \div 4
        /\ 0 \div 4 = 0 /\ 0 % 4 = 0
    BY <1>1, Quarters DEF Level
  <2>2. CASE Level # 0  BY <1>1, <1>2, <2>1, <2>2 DEF Slot
  <2>3. CASE Level = 0 /\ word_index > 0
    <3>1. word_index' = word_index - 4  BY <1>2, <2>3
    <3>2. Slot' = Slot - 1 /\ word_index' \in Nat /\ Level' = 0
      BY <2>1, <2>3, <3>1 DEF Slot, Level
    <3>3. Slot' \in Nat  BY <3>2, Quarters DEF Slot
    <3> QED  BY <1>1, <3>1, <3>2, <3>3
  <2>4. CASE Level = 0 /\ ~(word_index > 0)
    <3>1. word_index' = 0  BY <1>2, <2>4
    <3> QED  BY <1>1, <2>1, <3>1 DEF Slot, Level
  <2> QED  BY <2>2, <2>3, <2>4
<1>4. RecoveryTypes'
  <2>1. words' \in [Positions -> Origins]  BY <1>1, <1>2, EnterTypes
  <2> QED  BY <1>1, <1>2, <1>3, <2>1 DEF RecoveryTypes
<1>5. ASSUME disturbed' # "nested"
      PROVE  FollowedInv' /\ words' = words /\ sleeping' = <<>> /\ disturbed' = disturbed
  <2>1. sleeping = <<>> /\ disturbed' = disturbed  BY <1>2, <1>5, NestedIs
  <2>2. PressedInv  BY <1>5, <2>1 DEF RecoveryInv, FollowedInv
  <2>3. PressedInv' /\ words' = words
    <3>1. CASE Level = 0
      <4>1. words' = words /\ word_pincode' = 0 /\ pressed' = <<>>
        BY <1>1, <1>2, <1>5, <2>2, <3>1 DEF PressedInv, Enter
      <4> QED  BY <1>3, <3>1, <4>1 DEF PressedInv
    <3>2. CASE Level # 0
      <4>1. /\ words' = words /\ word_pincode' = word_pincode \div Base /\ pressed' = Front(pressed)
            /\ word_index' = word_index - 1
        BY <1>2, <1>5, <3>2 DEF Enter
      <4> QED  BY <1>1, <2>2, <3>2, <4>1, BackspaceUndoes
    <3> QED  BY <3>1, <3>2
  <2> QED  BY <1>2, <2>1, <2>3 DEF FollowedInv
<1>6. ASSUME disturbed' = "no" PROVE OwnInv'
  <2>1. disturbed = "no" /\ words' = words /\ sleeping' = <<>>  BY <1>5, <1>6
  <2>2. word_count' = word_count /\ dry_run' = dry_run /\ asked' = asked  BY <1>2 DEF request
  <2>3. /\ word_count \in WordCounts /\ (dry_run \/ asked = "real") /\ word_index < 4 * word_count
        /\ \A t \in Positions : t < Slot => words[t] \in FromUser
    BY <2>1 DEF RecoveryInv, OwnInv, MatrixInv
  <2>4. word_count \in 1 .. Slots /\ Slots \in Nat  BY <2>3, Sizes
  <2>5. \A t \in Positions : t < Slot' => t < Slot  BY <1>1, <1>3, <2>4 DEF Positions
  <2>6. word_index' < 4 * word_count'  BY <1>1, <1>3, <2>2, <2>3, <2>4
  <2>7. MatrixInv'  BY <2>1, <2>3, <2>5, <2>6 DEF MatrixInv, Positions
  <2> QED  BY <1>2, <2>1, <2>2, <2>3, <2>7 DEF OwnInv
<1> QED  BY <1>4, <1>5, <1>6 DEF RecoveryInv

LEMMA DigitKeeps ==
  ASSUME RecoveryInv, awaiting_word = 2,
         NEW cell \in 0 .. Cells(Level) - 1, recovery_digit(cell)
  PROVE  RecoveryInv'
<1> DEFINE choice == Clamp(cell, NumChoices(Level, word_pincode))
           shown == Append(pressed, Shown(cell))
<1>1. /\ RecoveryTypes /\ word_index \in Nat /\ words \in [Positions -> Origins]
      /\ Slot \in Nat /\ Level \in 0 .. 3 /\ word_index = 4 * Slot + Level
  BY SlotFacts DEF RecoveryInv, RecoveryTypes
<1>2. /\ UNCHANGED <<awaiting_word, stored>> /\ UNCHANGED request /\ disturbed' = Nested
      /\ \/ /\ Level = 3 /\ sleeping' = Append(sleeping, [choice |-> choice, slot |-> Slot])
            /\ word_index' = word_index /\ Enter(words, word_pincode, shown)
         \/ /\ Level # 3 /\ UNCHANGED sleeping
            /\ word_index' = word_index + 1 /\ Enter(words, word_pincode * Base + choice, shown)
  BY DEF recovery_digit
<1>3. word_count' = word_count /\ dry_run' = dry_run /\ asked' = asked  BY <1>2 DEF request
<1>4. RecoveryTypes'
  <2>1. words' \in [Positions -> Origins]  BY <1>1, <1>2, EnterTypes
  <2> QED  BY <1>1, <1>2, <2>1 DEF RecoveryTypes
<1>5. Slot' = Slot
  <2>1. CASE Level = 3  BY <1>2, <2>1 DEF Slot
  <2>2. CASE Level # 3
    <3>1. (word_index + 1) \div 4 = word_index \div 4  BY <1>1, <2>2, Quarters DEF Level
    <3> QED  BY <1>2, <2>2, <3>1 DEF Slot
  <2> QED  BY <2>1, <2>2
<1>6. ASSUME disturbed' # "nested"
      PROVE  sleeping = <<>> /\ disturbed' = disturbed /\ PressedInv
  BY <1>2, <1>6, NestedIs DEF RecoveryInv, FollowedInv
<1>7. ASSUME disturbed' # "nested" PROVE FollowedInv' /\ words' = words
  <2>1. CASE Level = 3
    <3>1. /\ word_index' = word_index /\ word_pincode' = word_pincode /\ words' = words
          /\ pressed' = shown
          /\ sleeping' = One([choice |-> choice, slot |-> Slot])
      BY <1>2, <1>6, <1>7, <2>1 DEF Enter, One
    <3>2. Shown(cell)' = Shown(cell)  BY <3>1 DEF Shown, Level, NumChoices, RangeAt
    <3>3. cell \in Nat  OBVIOUS
    <3>4. PICK a \in Digits, b \in Digits, c \in Digits :
            /\ word_pincode = (a * Base + b) * Base + c
            /\ TABLE1[a * Base + b] + c < TABLE1[Base * Base]
            /\ \E last \in {NoRange, RangeAt(2, a * Base + b, c)} :
                 pressed = Three(RangeAt(0, 0, a), RangeAt(1, a, b), last)
      BY <1>6, <1>7, <2>1 DEF PressedInv
    <3>5. Last(shown) = Shown(cell) /\ shown # <<>>  BY <3>4, PressedFacts
    <3>6. choice = Clamp(cell, NumChoices(3, word_pincode))  BY <2>1
    <3> HIDE DEF shown, choice
    <3>7. Level' = 3 /\ Slot' = Slot /\ NumChoices(3, word_pincode)' = NumChoices(3, word_pincode)
      BY <2>1, <3>1 DEF Level, Slot
    <3>8. \E n \in Nat : Last(pressed') = Shown(n)'
                         /\ sleeping' = One([choice |-> Clamp(n, NumChoices(3, word_pincode')), slot |-> Slot'])
      <4>1. sleeping' = One([choice |-> Clamp(cell, NumChoices(3, word_pincode')), slot |-> Slot'])
        BY <3>1, <3>6, <3>7
      <4> QED  BY <3>1, <3>2, <3>3, <3>5, <4>1
    <3>9. MarkedInv'  BY <3>1, <3>4, <3>5, <3>7, <3>8 DEF MarkedInv
    <3>10. sleeping' # <<>>  BY <3>1, PressedFacts
    <3> QED  BY <1>2, <3>1, <3>9, <3>10, <1>6, <1>7 DEF FollowedInv
  <2>2. CASE Level # 3
    <3>1. /\ sleeping' = <<>> /\ word_index' = word_index + 1 /\ words' = words
          /\ word_pincode' = word_pincode * Base + choice /\ pressed' = shown
      BY <1>2, <1>6, <1>7, <2>2 DEF Enter
    <3>2. PressedInv'  BY <1>1, <1>6, <1>7, <2>2, <3>1, PressKeeps
    <3> QED  BY <1>2, <3>1, <3>2 DEF FollowedInv
  <2> QED  BY <2>1, <2>2
<1>8. ASSUME disturbed' = "no" PROVE OwnInv'
  <2>1. disturbed = "no" /\ words' = words  BY <1>6, <1>7, <1>8
  <2>2. /\ word_count \in WordCounts /\ (dry_run \/ asked = "real") /\ word_index < 4 * word_count
        /\ \A t \in Positions : t < Slot => words[t] \in FromUser
    BY <2>1 DEF RecoveryInv, OwnInv, MatrixInv
  <2>3. word_count \in 1 .. Slots  BY <2>2, Sizes
  <2>4. Slot < word_count  BY <1>1, <2>2, <2>3, SlotFacts
  <2>5. word_index' < 4 * word_count'  BY <1>1, <1>2, <1>3, <2>2, <2>3, <2>4
  <2>6. MatrixInv'  BY <1>5, <2>1, <2>2, <2>5 DEF MatrixInv, Positions
  <2> QED  BY <1>2, <1>3, <2>2, <2>6 DEF OwnInv
<1> QED  BY <1>4, <1>7, <1>8 DEF RecoveryInv

LEMMA BeginKeeps ==
  ASSUME RecoveryInv, NEW count \in WordCounts, NEW dry \in BOOLEAN, recovery_init(count, dry)
  PROVE  RecoveryInv'
<1>1. /\ word_index' = 0 /\ word_count' = count
      /\ dry_run' = dry /\ asked' = (IF dry THEN "dry" ELSE "real")
      /\ Enter(Words("stale"), 0, <<>>) /\ UNCHANGED <<sleeping, stored>>
      /\ disturbed' = (IF sleeping = <<>> THEN "no" ELSE "nested")
      /\ \/ awaiting_word' = 2
         \/ awaiting_word' = 1 /\ word_order' \in Orders(count) /\ word_pos' = word_order'[0]
  BY DEF recovery_init, Start, next_word
<1>2. count \in 1 .. Slots /\ Slots \in Nat \ {0}  BY RecoveryAssumption
<1>3. Slot' = 0 /\ Level' = 0  BY <1>1, Quarters DEF Slot, Level
<1>4. RecoveryTypes'
  <2>1. Words("stale") \in [Positions -> Origins]  BY DEF Words, Origins
  <2>2. words' \in [Positions -> Origins]  BY <1>1, <2>1, EnterTypes
  <2>3. stored' \in {NoSeed, "entered", "disturbed"}  BY <1>1 DEF RecoveryInv, RecoveryTypes
  <2> QED  BY <1>1, <2>2, <2>3 DEF RecoveryTypes
<1>5. ASSUME disturbed' # "nested" PROVE FollowedInv' /\ OwnInv'
  <2>1. sleeping' = <<>> /\ word_pincode' = 0 /\ pressed' = <<>>  BY <1>1, <1>5 DEF Enter
  <2>2. PressedInv'  BY <1>3, <2>1 DEF PressedInv
  <2>3. FollowedInv'  BY <1>1, <1>2, <2>1, <2>2 DEF FollowedInv
  <2>4. dry_run' \/ asked' = "real"  BY <1>1
  <2>5. \A i \in Positions : ~(i < 0)  BY <1>2 DEF Positions
  <2>6. awaiting_word' = 1 => ScrambledInv'  BY <1>1, <2>5 DEF ScrambledInv, Positions
  <2>7. 0 < 4 * count  BY <1>2
  <2>8. MatrixInv'  BY <1>1, <1>3, <2>5, <2>7 DEF MatrixInv, Positions
  <2>9. OwnInv'  BY <1>1, <2>1, <2>4, <2>6, <2>8 DEF OwnInv
  <2> QED  BY <2>3, <2>9
<1> QED  BY <1>4, <1>5 DEF RecoveryInv

\* What was followed is followed still if nothing changes but what was asked for.
LEMMA FollowedStays ==
  ASSUME FollowedInv, awaiting_word' \in {awaiting_word, 0},
         UNCHANGED <<word_index, word_order, word_pos, word_pincode, pressed, sleeping>>,
         awaiting_word' = 0 => awaiting_word = 0 \/ sleeping # <<>>
  PROVE  FollowedInv'
<1>1. PressedInv => PressedInv'  BY DEF PressedInv, Level
<1>2. MarkedInv => MarkedInv'
  <2>1. \A cell : Shown(cell)' = Shown(cell)  BY DEF Shown, Level, NumChoices, RangeAt
  <2> QED  BY <2>1 DEF MarkedInv, Level, Slot, NumChoices
<1> QED  BY <1>1, <1>2 DEF FollowedInv

\* A recovery that is given up in its PIN dialog disturbs the older one.
LEMMA MismatchKeeps ==
  ASSUME RecoveryInv, NEW count, PinMismatch(count)
  PROVE  RecoveryInv'
<1>1. /\ UNCHANGED <<awaiting_word, word_index, sleeping, stored, asked>> /\ UNCHANGED scrambled
      /\ Enter(words, word_pincode, pressed) /\ disturbed' # "no"
      /\ disturbed' # "nested" => disturbed # "nested" /\ UNCHANGED <<word_pincode, pressed>>
  BY DEF PinMismatch, Enter
<1>2. RecoveryTypes /\ words \in [Positions -> Origins]  BY DEF RecoveryInv, RecoveryTypes
<1>3. words' \in [Positions -> Origins]  BY <1>1, <1>2, EnterTypes
<1>4. RecoveryTypes'  BY <1>1, <1>2, <1>3 DEF RecoveryTypes
<1>5. ASSUME disturbed' # "nested" PROVE FollowedInv'
  <2>1. FollowedInv  BY <1>1, <1>5 DEF RecoveryInv
  <2>2. UNCHANGED <<word_index, word_order, word_pos, word_pincode, pressed, sleeping>>
    BY <1>1, <1>5 DEF scrambled
  <2>3. awaiting_word' = 0 => awaiting_word = 0 \/ sleeping # <<>>  BY <1>1
  <2> QED  BY <1>1, <2>1, <2>2, <2>3, FollowedStays
<1> QED  BY <1>1, <1>4, <1>5 DEF RecoveryInv

LEMMA AbortKeeps ==
  ASSUME RecoveryInv, recovery_abort
  PROVE  RecoveryInv'
<1>1. awaiting_word' = 0 /\ UNCHANGED <<sleeping, stored>>  BY DEF recovery_abort
<1>2. RecoveryTypes  BY DEF RecoveryInv
<1>3. CASE sleeping = <<>>
  BY <1>1, <1>2, <1>3, ForgetKeeps DEF recovery_abort, RecoveryTypes
<1>4. CASE sleeping # <<>>
  <2>1. UNCHANGED <<word_index, disturbed, word_count, dry_run, asked, word_pos, word_order,
                    words, word_pincode, pressed>>
    BY <1>4 DEF recovery_abort, request, scrambled, data
  <2>2. RecoveryTypes'  BY <1>1, <1>2, <2>1 DEF RecoveryTypes
  <2>3. FollowedInv => FollowedInv'  BY <1>1, <1>4, <2>1, FollowedStays
  <2>4. OwnInv => OwnInv'  BY <1>1, <1>4, <2>1 DEF OwnInv, MatrixInv, Slot
  <2> QED  BY <2>1, <2>2, <2>3, <2>4 DEF RecoveryInv
<1> QED  BY <1>3, <1>4

\* A handler that leaves a recovery alone, and WipeDevice, which erases the seed.
LEMMA OthersKeep ==
  ASSUME RecoveryInv, stored' \in {stored, NoSeed},
         UNCHANGED <<awaiting_word, word_count, dry_run, word_pos, word_index, word_order,
                     words, word_pincode, sleeping, pressed, asked, disturbed>>
  PROVE  RecoveryInv'
<1>1. FollowedInv => FollowedInv'  BY FollowedStays
<1>2. OwnInv => OwnInv'  BY DEF OwnInv, MatrixInv, ScrambledInv, Slot
<1>3. RecoveryTypes'  BY DEF RecoveryInv, RecoveryTypes
<1> QED  BY <1>1, <1>2, <1>3 DEF RecoveryInv

-----------------------------------------------------------------------------
(* The choices of a matrix.                                                *)

\* The choices of a level split the words of all.
Split(level, p, num, all) ==
  /\ RangeAt(level, p, 0)[1] = all[1] /\ RangeAt(level, p, num - 1)[2] = all[2]
  /\ \A i \in 0 .. num - 1 : RangeAt(level, p, i)[1] <= RangeAt(level, p, i)[2]
  /\ \A i \in 1 .. num - 1 : RangeAt(level, p, i)[1] = RangeAt(level, p, i - 1)[2] + 1

\* They do if they lie between the bounds b, which grow.
LEMMA Cuts ==
  ASSUME NEW level, NEW p, NEW num \in Nat \ {0}, NEW b, NEW all,
         \A i \in 0 .. num : b[i] \in Nat,
         \A i \in 0 .. num - 1 : b[i] < b[i + 1],
         \A i \in 0 .. num - 1 : RangeAt(level, p, i) = <<b[i], b[i + 1] - 1>>,
         all = <<b[0], b[num] - 1>>
  PROVE  Split(level, p, num, all)
<1>1. \A i \in 0 .. num - 1 : i \in 0 .. num /\ i + 1 \in 0 .. num  OBVIOUS
<1>2. \A i \in 0 .. num - 1 : RangeAt(level, p, i)[1] = b[i] /\ RangeAt(level, p, i)[2] = b[i + 1] - 1
  OBVIOUS
<1>3. all[1] = b[0] /\ all[2] = b[num] - 1  OBVIOUS
<1>4. 0 \in 0 .. num - 1 /\ num - 1 \in 0 .. num - 1 /\ num - 1 + 1 = num  OBVIOUS
<1>5. \A i \in 1 .. num - 1 : i \in 0 .. num - 1 /\ i - 1 \in 0 .. num - 1 /\ i - 1 + 1 = i  OBVIOUS
<1>6. RangeAt(level, p, 0)[1] = all[1] /\ RangeAt(level, p, num - 1)[2] = all[2]
  BY <1>2, <1>3, <1>4
<1>7. ASSUME NEW i \in 0 .. num - 1 PROVE RangeAt(level, p, i)[1] <= RangeAt(level, p, i)[2]
  <2>1. b[i] \in Nat /\ b[i + 1] \in Nat /\ b[i] < b[i + 1]  BY <1>1
  <2> QED  BY <1>2, <2>1
<1>8. ASSUME NEW i \in 1 .. num - 1
      PROVE  RangeAt(level, p, i)[1] = RangeAt(level, p, i - 1)[2] + 1
  <2>1. RangeAt(level, p, i)[1] = b[i] /\ RangeAt(level, p, i - 1)[2] = b[i] - 1  BY <1>2, <1>5
  <2>2. b[i] \in Nat  BY <1>1, <1>5
  <2> QED  BY <2>1, <2>2
<1> QED  BY <1>6, <1>7, <1>8 DEF Split

\* The first word behind a bound of the first table.
LEMMA Bounds ==
  ASSUME NEW g \in 0 .. Last1
  PROVE  /\ TABLE2[TABLE1[g]] \in Nat
         /\ \A h \in 0 .. Last1 : g < h => TABLE2[TABLE1[g]] < TABLE2[TABLE1[h]]
<1>1. \A h \in 0 .. Last1 : TABLE1[h] \in 0 .. Last2  BY TableFacts
<1>2. \A h \in 0 .. Last1 : g < h => TABLE1[g] < TABLE1[h]  BY TableFacts
<1>3. \A r, t \in 0 .. Last2 : r < t => TABLE2[r] < TABLE2[t]  BY TableFacts
<1>4. \A r \in 0 .. Last2 : TABLE2[r] \in Nat  BY TableFacts
<1> QED  BY ONLY <1>1, <1>2, <1>3, <1>4, g \in 0 .. Last1

LEMMA SplitFirst ==
  ASSUME NEW p
  PROVE  Split(0, p, Base, <<TABLE2[TABLE1[0]], TABLE2[TABLE1[Base * Base]] - 1>>)
<1>1. Base \in Nat \ {0} /\ Last1 \in Nat /\ Last1 = Base * Base  BY TableFacts DEF Last1
<1> DEFINE b == [i \in 0 .. Base |-> TABLE2[TABLE1[Base * i]]]
<1>2. ASSUME NEW i \in 0 .. Base PROVE Base * i \in 0 .. Last1
  <2>1. i = Base \/ i \in 0 .. Base - 1  BY <1>1
  <2> QED  BY <1>1, <2>1, Groups
<1>3. \A i \in 0 .. Base : b[i] \in Nat  BY <1>2, Bounds
<1>4. ASSUME NEW i \in 0 .. Base - 1
      PROVE  b[i] < b[i + 1] /\ RangeAt(0, p, i) = <<b[i], b[i + 1] - 1>>
  <2>1. i \in 0 .. Base /\ i + 1 \in 0 .. Base  BY <1>1
  <2>2. Base * i < Base * (i + 1)  BY <1>1, Groups
  <2>3. b[i] = TABLE2[TABLE1[Base * i]] /\ b[i + 1] = TABLE2[TABLE1[Base * (i + 1)]]  BY <2>1
  <2>4. TABLE2[TABLE1[Base * i]] < TABLE2[TABLE1[Base * (i + 1)]]  BY <1>2, <2>1, <2>2, Bounds
  <2> QED  BY <2>3, <2>4, Ranges
<1>5. b[0] = TABLE2[TABLE1[0]] /\ b[Base] = TABLE2[TABLE1[Base * Base]]
  <2>1. 0 \in 0 .. Base /\ Base \in 0 .. Base /\ Base * 0 = 0  BY <1>1
  <2> QED  BY <2>1
<1> HIDE DEF b
<1> QED  BY <1>1, <1>3, <1>4, <1>5, Cuts

LEMMA SplitSecond ==
  ASSUME NEW a \in Digits
  PROVE  Split(1, a, Base, RangeAt(0, 0, a))
<1>1. Base \in Nat \ {0} /\ Last1 \in Nat /\ Last1 = Base * Base  BY TableFacts DEF Last1
<1> DEFINE b == [i \in 0 .. Base |-> TABLE2[TABLE1[Base * a + i]]]
<1>2. Base * a \in Nat /\ Base * (a + 1) = Base * a + Base /\ Base * a + Base <= Last1
  BY <1>1, Groups DEF Digits
<1>3. \A i \in 0 .. Base : Base * a + i \in 0 .. Last1
  <2> DEFINE n == Base * a
  <2>1. n \in Nat /\ n + Base <= Last1  BY <1>2
  <2> HIDE DEF n
  <2>2. \A i \in 0 .. Base : n + i \in 0 .. Last1  BY ONLY <1>1, <2>1
  <2> QED  BY <2>2 DEF n
<1>4. \A i \in 0 .. Base : b[i] \in Nat  BY <1>3, Bounds
<1>5. ASSUME NEW i \in 0 .. Base - 1
      PROVE  b[i] < b[i + 1] /\ RangeAt(1, a, i) = <<b[i], b[i + 1] - 1>>
  <2>1. i \in 0 .. Base /\ i + 1 \in 0 .. Base  BY <1>1
  <2>2. Base * a + i < Base * a + (i + 1) /\ Base * a + (i + 1) = Base * a + i + 1  BY <1>2
  <2>3. b[i] = TABLE2[TABLE1[Base * a + i]] /\ b[i + 1] = TABLE2[TABLE1[Base * a + (i + 1)]]
    BY <2>1
  <2>4. TABLE2[TABLE1[Base * a + i]] < TABLE2[TABLE1[Base * a + (i + 1)]]
    BY <1>3, <2>1, <2>2, Bounds
  <2> QED  BY <2>2, <2>3, <2>4, Ranges
<1>6. b[0] = TABLE2[TABLE1[Base * a]] /\ b[Base] = TABLE2[TABLE1[Base * (a + 1)]]
  <2>1. 0 \in 0 .. Base /\ Base \in 0 .. Base /\ Base * a + 0 = Base * a  BY <1>1, <1>2
  <2> QED  BY <1>2, <2>1
<1>7. RangeAt(0, 0, a) = <<b[0], b[Base] - 1>>  BY <1>6, Ranges
<1> HIDE DEF b
<1> QED  BY <1>1, <1>4, <1>5, <1>7, Cuts

LEMMA SplitThird ==
  ASSUME NEW a \in Digits, NEW c \in Digits
  PROVE  LET p == a * Base + c
             num == NumChoices(2, p)
         IN num \in 1 .. Base /\ Split(2, p, num, RangeAt(1, a, c))
<1> DEFINE p == a * Base + c
           num == NumChoices(2, p)
           b == [i \in 0 .. num |-> TABLE2[TABLE1[p] + i]]
<1>1. Base \in Nat \ {0} /\ Last1 \in Nat /\ Last2 \in Nat  BY TableFacts
<1>2. p \in 0 .. Last1 - 1  BY <1>1, TwoDigits DEF Digits, Last1
<1>3. Base * a + c = p  BY <1>1 DEF Digits
<1> HIDE DEF p
<1>4. num = TABLE1[p + 1] - TABLE1[p]  BY Nums
<1>5. p \in 0 .. Last1 /\ p + 1 \in 0 .. Last1  BY <1>1, <1>2
<1>6. TABLE1[p] \in 0 .. Last2 /\ TABLE1[p + 1] \in 0 .. Last2  BY <1>5, TableFacts
<1>7. num \in 1 .. Base  BY <1>2, <1>4, TableFacts
<1> HIDE DEF num
<1>8. TABLE1[p] + num = TABLE1[p + 1]  BY <1>1, <1>4, <1>6
<1>9. \A i \in 0 .. num : TABLE1[p] + i \in 0 .. Last2  BY ONLY <1>1, <1>6, <1>7, <1>8
<1>10. \A i \in 0 .. num : b[i] \in Nat  BY <1>9, TableFacts
<1>11. ASSUME NEW i \in 0 .. num - 1
       PROVE  b[i] < b[i + 1] /\ RangeAt(2, p, i) = <<b[i], b[i + 1] - 1>>
  <2>1. i \in 0 .. num /\ i + 1 \in 0 .. num  BY <1>1, <1>7
  <2>2. TABLE1[p] + i < TABLE1[p] + (i + 1) /\ TABLE1[p] + (i + 1) = TABLE1[p] + i + 1
    BY <1>1, <1>6
  <2>3. b[i] = TABLE2[TABLE1[p] + i] /\ b[i + 1] = TABLE2[TABLE1[p] + (i + 1)]  BY <2>1
  <2>4. TABLE1[p] + i \in 0 .. Last2 /\ TABLE1[p] + (i + 1) \in 0 .. Last2  BY <1>9, <2>1
  <2>5. TABLE2[TABLE1[p] + i] < TABLE2[TABLE1[p] + (i + 1)]  BY <2>2, <2>4, TableFacts
  <2> QED  BY <2>2, <2>3, <2>5, Ranges
<1>12. b[0] = TABLE2[TABLE1[p]] /\ b[num] = TABLE2[TABLE1[p + 1]]
  <2>1. 0 \in 0 .. num /\ num \in 0 .. num /\ TABLE1[p] + 0 = TABLE1[p]  BY <1>1, <1>6, <1>7
  <2> QED  BY <1>8, <2>1
<1>13. RangeAt(1, a, c) = <<b[0], b[num] - 1>>  BY <1>3, <1>12, Ranges
<1>14. num \in Nat \ {0}  BY <1>1, <1>7
<1> HIDE DEF b
<1>15. Split(2, p, num, RangeAt(1, a, c))  BY <1>10, <1>11, <1>13, <1>14, Cuts
<1> QED  BY <1>7, <1>15 DEF p, num

LEMMA SplitLast ==
  ASSUME NEW p, NEW idx \in 0 .. Last2 - 1, NEW num \in 1 .. Narrow,
         num = TABLE2[idx + 1] - TABLE2[idx], TABLE2[idx] \in Nat,
         \A i : RangeAt(3, p, i) = <<TABLE2[idx] + i, TABLE2[idx] + i>>
  PROVE  Split(3, p, num, <<TABLE2[idx], TABLE2[idx + 1] - 1>>)
<1> DEFINE first == TABLE2[idx]
           b == [i \in 0 .. num |-> first + i]
<1>1. first \in Nat /\ num \in Nat \ {0}  BY TableFacts
<1>2. TABLE2[idx + 1] \in Nat
  <2>1. idx + 1 \in 0 .. Last2
    <3>1. Last2 \in Nat  BY TableFacts
    <3> QED  BY <3>1
  <2> QED  BY <2>1, TableFacts
<1>3. first + num = TABLE2[idx + 1]  BY <1>1, <1>2
<1>4. \A i : RangeAt(3, p, i) = <<first + i, first + i>>  OBVIOUS
<1> HIDE DEF first
<1>5. \A i \in 0 .. num : b[i] = first + i /\ b[i] \in Nat  BY <1>1
<1>6. ASSUME NEW i \in 0 .. num - 1
      PROVE  b[i] < b[i + 1] /\ RangeAt(3, p, i) = <<b[i], b[i + 1] - 1>>
  <2>1. i \in 0 .. num /\ i + 1 \in 0 .. num  BY <1>1
  <2>2. b[i] = first + i /\ b[i + 1] = first + (i + 1)  BY <1>5, <2>1
  <2>3. b[i + 1] - 1 = first + i /\ b[i] < b[i + 1]  BY <1>1, <2>2
  <2> QED  BY <1>4, <2>2, <2>3
<1>7. b[0] = first /\ b[num] = first + num
  <2>1. 0 \in 0 .. num /\ num \in 0 .. num /\ first + 0 = first  BY <1>1
  <2> QED  BY <2>1
<1> HIDE DEF b
<1>8. Split(3, p, num, <<b[0], b[num] - 1>>)  BY <1>1, <1>5, <1>6, Cuts
<1> QED  BY <1>3, <1>7, <1>8 DEF first

-----------------------------------------------------------------------------
(* The theorems.                                                           *)

LEMMA RecoveryInvHolds == Spec => []RecoveryInv
<1>1. Init => RecoveryInv
  <2> SUFFICES ASSUME Init PROVE RecoveryInv  OBVIOUS
  <2>1. /\ awaiting_word = 0 /\ word_index = 0 /\ sleeping = <<>> /\ stored = NoSeed
        /\ words = Words("stale")
    BY DEF Init, InitRecovery
  <2>2. RecoveryTypes  BY <2>1 DEF RecoveryTypes, Words, Origins
  <2> QED  BY <2>1, <2>2 DEF RecoveryInv, FollowedInv, OwnInv
<1>2. RecoveryInv /\ [Next]_vars => RecoveryInv'
  <2> SUFFICES ASSUME RecoveryInv, [Next]_vars PROVE RecoveryInv'  OBVIOUS
  <2>1. CASE fsm_msgInitialize \/ fsm_msgCancel
    <3>1. recovery_abort  BY <2>1 DEF fsm_msgInitialize, fsm_msgCancel
    <3> QED  BY <3>1, AbortKeeps
  <2>2. CASE fsm_msgRecoveryDevice
    <3>1. PICK count \in WordCounts, dry \in BOOLEAN : RecoveryDevice(count, dry)
      BY <2>2 DEF fsm_msgRecoveryDevice
    <3> QED  BY <3>1, BeginKeeps, MismatchKeeps DEF RecoveryDevice
  <2>3. CASE fsm_msgWordAck
    <3>1. CASE WordChosen  BY <3>1, ChosenKeeps
    <3>2. CASE recovery_word
      <4>1. CASE awaiting_word = 1 /\ recovery_scrambledword  BY <4>1, ScrambledKeeps
      <4>2. CASE awaiting_word = 2 /\ Backspace  BY <4>2, BackspaceKeeps
      <4>3. ASSUME awaiting_word = 2, NEW cell \in 0 .. Cells(Level) - 1, recovery_digit(cell)
            PROVE  RecoveryInv'
        BY <4>3, DigitKeeps
      <4> QED  BY <3>2, <4>1, <4>2, <4>3 DEF recovery_word
    <3> QED  BY <2>3, <3>1, <3>2 DEF fsm_msgWordAck
  <2>4. CASE \/ fsm_msgEthereumSignTx \/ fsm_msgEthereumTxAck
             \/ fsm_msgWipeDevice \/ UNCHANGED vars
    <3>1. /\ stored' \in {stored, NoSeed}
          /\ UNCHANGED <<awaiting_word, word_count, dry_run, word_pos, word_index, word_order,
                         words, word_pincode, sleeping, pressed, asked, disturbed>>
      BY <2>4 DEF fsm_msgEthereumSignTx, fsm_msgEthereumTxAck, fsm_msgWipeDevice, vars, recovery,
                  request, scrambled, data
    <3> QED  BY <3>1, OthersKeep
  <2> QED  BY <2>1, <2>2, <2>3, <2>4 DEF Next
<1> QED  BY <1>1, <1>2, PTL DEF Spec

\* recovery_done stores a seed only if the user did not ask for a dry run, and made of words
\* entered in this recovery, each at its place, whatever other messages come in between;
\* unless a recovery that is given up in its PIN dialog, or a handler of recovery.c in a
\* usbSleep of recovery_digit, disturbed it: then the seed is marked as such.
THEOREM SeedWasEntered == Spec => []SeedIsEntered
<1>1. RecoveryInv => SeedIsEntered  BY DEF RecoveryInv, RecoveryTypes, SeedIsEntered, NoSeed
<1> QED  BY <1>1, RecoveryInvHolds, PTL

\* The word that next_word asks for is the one that recovery_scrambledword will store, and
\* word_order is never read past its end, whatever comes in between, a recovery that is
\* given up included, unless the recovery began in a usbSleep of recovery_digit.
THEOREM WordOrderIsKept == Spec => []WordOrderHolds
<1>1. RecoveryInv => WordOrderHolds  BY DEF RecoveryInv, FollowedInv, WordOrderHolds
<1> QED  BY <1>1, RecoveryInvHolds, PTL

\* recovery_digit never asks for more words than the new seed has, in a recovery that
\* nothing of recovery.c disturbed.
THEOREM NoMoreWordsAreAsked == Spec => [](disturbed = "no" => NoMoreWordsThanExpected)
<1>1. RecoveryInv => (disturbed = "no" => NoMoreWordsThanExpected)
  BY DEF RecoveryInv, OwnInv, MatrixInv, NoMoreWordsThanExpected
<1> QED  BY <1>1, RecoveryInvHolds, PTL

\* The matrix of the next digit splits the words of the choice that was pressed before,
\* without gaps and overlaps, after any digits and backspaces, unless one of them was
\* handled in the usbSleep of another; a cell that next_matrix leaves empty is no choice.
THEOREM MatrixSplits == Spec => []MatrixSplitsThePressed
<1> DEFINE all == IF pressed = <<>> THEN <<TABLE2[TABLE1[0]], TABLE2[TABLE1[Base * Base]] - 1>>
                  ELSE Last(pressed)
           num == NumChoices(Level, word_pincode)
<1>1. ASSUME PressedInv, pressed = <<>> \/ Last(pressed) # NoRange
      PROVE  num \in 1 .. Cells(Level) /\ Split(Level, word_pincode, num, all)
  <2>1. PressedInv  BY <1>1
  <2>2. Base \in 1 .. Base  BY TableFacts
  <2>3. CASE Level = 0 /\ word_pincode = 0 /\ pressed = <<>>
    <3>1. num = Base  BY <2>3, Nums
    <3>2. all = <<TABLE2[TABLE1[0]], TABLE2[TABLE1[Base * Base]] - 1>>  BY <2>3
    <3>3. Cells(Level) = Base  BY <2>3 DEF Cells
    <3> HIDE DEF all, num
    <3> QED  BY <2>2, <2>3, <3>1, <3>2, <3>3, SplitFirst
  <2>4. ASSUME Level = 1, NEW a \in Digits, word_pincode = a, pressed = One(RangeAt(0, 0, a))
        PROVE  num \in 1 .. Cells(Level) /\ Split(Level, word_pincode, num, all)
    <3>1. num = Base  BY <2>4, Nums
    <3>2. all = RangeAt(0, 0, a)  BY <2>4, PressedFacts
    <3>3. Cells(Level) = Base  BY <2>4 DEF Cells
    <3> HIDE DEF all, num
    <3> QED  BY <2>2, <2>4, <3>1, <3>2, <3>3, SplitSecond
  <2>5. ASSUME Level = 2, NEW a \in Digits, NEW b \in Digits, word_pincode = a * Base + b,
               pressed = Two(RangeAt(0, 0, a), RangeAt(1, a, b))
        PROVE  num \in 1 .. Cells(Level) /\ Split(Level, word_pincode, num, all)
    <3>1. all = RangeAt(1, a, b)  BY <2>5, PressedFacts
    <3>2. Cells(Level) = Base  BY <2>5 DEF Cells
    <3>3. num = NumChoices(2, a * Base + b)  BY <2>5
    <3> HIDE DEF all, num
    <3> QED  BY <2>5, <3>1, <3>2, <3>3, SplitThird
  <2>6. CASE Level = 3
    <3>0. PICK a \in Digits, b \in Digits, c \in Digits :
            /\ word_pincode = (a * Base + b) * Base + c
            /\ TABLE1[a * Base + b] + c < TABLE1[Base * Base]
            /\ \E last \in {NoRange, RangeAt(2, a * Base + b, c)} :
                 pressed = Three(RangeAt(0, 0, a), RangeAt(1, a, b), last)
      BY <2>1, <2>6 DEF PressedInv
    <3>1. PICK idx \in 0 .. Last2 - 1 :
            /\ NumChoices(3, word_pincode) = TABLE2[idx + 1] - TABLE2[idx]
            /\ TABLE2[idx] \in Nat /\ TABLE2[idx + 1] - TABLE2[idx] \in 1 .. Narrow
            /\ \A i : RangeAt(3, word_pincode, i) = <<TABLE2[idx] + i, TABLE2[idx] + i>>
            /\ RangeAt(2, a * Base + b, c) = <<TABLE2[idx], TABLE2[idx + 1] - 1>>
      BY <3>0, LastMatrix
    <3>2. all = <<TABLE2[idx], TABLE2[idx + 1] - 1>>  BY <1>1, <3>0, <3>1, PressedFacts
    <3>3. Cells(Level) = Narrow  BY <2>6 DEF Cells
    <3>4. num = TABLE2[idx + 1] - TABLE2[idx] /\ num \in 1 .. Narrow  BY <2>6, <3>1
    <3> HIDE DEF all, num
    <3>5. Split(3, word_pincode, num, <<TABLE2[idx], TABLE2[idx + 1] - 1>>)
      BY <3>1, <3>4, SplitLast
    <3> QED  BY <2>6, <3>2, <3>3, <3>4, <3>5
  <2> HIDE DEF all, num
  <2> QED  BY <2>1, <2>3, <2>4, <2>5, <2>6 DEF PressedInv
<1>2. RecoveryInv => MatrixSplitsThePressed
  <2> SUFFICES ASSUME RecoveryInv, awaiting_word = 2, disturbed # "nested", sleeping = <<>>,
                      pressed = <<>> \/ Last(pressed) # NoRange
               PROVE  LET R(i) == RangeAt(Level, word_pincode, i)
                      IN /\ num \in 1 .. Cells(Level)
                         /\ R(0)[1] = all[1] /\ R(num - 1)[2] = all[2]
                         /\ \A i \in 0 .. num - 1 : R(i)[1] <= R(i)[2]
                         /\ \A i \in 1 .. num - 1 : R(i)[1] = R(i - 1)[2] + 1
    BY DEF MatrixSplitsThePressed
  <2>1. PressedInv  BY DEF RecoveryInv, FollowedInv
  <2>2. num \in 1 .. Cells(Level) /\ Split(Level, word_pincode, num, all)  BY <1>1, <2>1
  <2> HIDE DEF all, num
  <2> QED  BY <2>2 DEF Split
<1> QED  BY <1>2, RecoveryInvHolds, PTL
=============================================================================
