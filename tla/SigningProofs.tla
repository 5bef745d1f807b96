--------------------------- MODULE SigningProofs ---------------------------
(***************************************************************************)
(* What Signing guarantees for every transaction, every coin and every     *)
(* choice of what the host may send.                                       *)
(***************************************************************************)
EXTENDS Signing, TLAPS

-----------------------------------------------------------------------------
(* Types.                                                                  *)

\* Amounts stay in their 64 bits when they are added.
LEMMA WrapType == ASSUME NEW n \in Int PROVE Wrap(n) \in Amounts
  BY SigningAssumption DEF Wrap, Amounts

\* What compile_output makes of an output can be hashed and shown.
LEMMA CompileType == ASSUME NEW o \in Outputs, Compiles(o), root \in Nodes
                     PROVE /\ compile_output(o) \in BinOutputs
                           /\ compile_output(o).script \in Scripts
                           /\ compile_output(o).amount = o.amount
<1>1. CASE o.kind = "PAYTOOPRETURN"
  BY <1>1 DEF Outputs, compile_output, BinOutputs, Scripts
<1>2. CASE o.kind # "PAYTOOPRETURN" /\ HasPath(o)
  <2>1. Key(o.path) \in Nodes \X Paths
    BY DEF Outputs, Key
  <2> QED
    BY <1>2, <2>1 DEF Outputs, compile_output, BinOutputs, Scripts
<1>3. CASE o.kind # "PAYTOOPRETURN" /\ ~HasPath(o)
  <2>1. o.address \in Addresses
    BY <1>3 DEF Outputs, Compiles
  <2>2. <<"address", o.address>> \in {"address"} \X Addresses
    BY <2>1
  <2> QED
    BY <1>3, <2>2 DEF Outputs, compile_output, BinOutputs, Scripts
<1> QED
  BY <1>1, <1>2, <1>3

\* The messages of the host are of the types of messages.pb.h.
LEMMA MessageTypes ==
  /\ \A m \in InputMsgs : m \in Inputs
  /\ \A o \in OutputMsgs : o \in Outputs
  /\ \A n \in PrevAmounts : n \in Amounts
  /\ \A meta \in MetaMsgs : meta \in [ins : Nat, outs : Nat, extra : Nat]
  /\ Amounts \subseteq Nat /\ 0 \in Amounts
  BY SigningAssumption DEF Amounts

USE DEF control, session, money, wallet, digests, history

LEMMA ReplyTypes ==
  /\ \A r \in Replies : <<r>> \in Seq(Replies) /\ <<"Failure", r>> \in Seq(Replies)
  /\ <<"TxRequest">> \in Seq(Replies) /\ <<"TxFinished">> \in Seq(Replies)
  /\ <<"Failure">> \in Seq(Replies) /\ <<"Features">> \in Seq(Replies)
  /\ <<"PublicKey">> \in Seq(Replies)
  BY DEF Replies

LEMMA FailType == ASSUME TypeOK, NEW r \in {"Failure", "Features"}, Fail(r)
                  PROVE TypeOK'
<1>1. resp' \in Seq(Replies)
  BY ReplyTypes DEF Fail, Replies
<1> QED
  BY <1>1 DEF TypeOK, Fail

LEMMA NextInputType ==
  ASSUME TypeOK, NEW h \in Seq(HashedInputs \cup BinOutputs),
         phase1_request_next_input(h)
  PROVE  /\ idx1' \in Nat /\ signing_stage' \in Stages
         /\ hasher' \in Seq(HashedInputs \cup BinOutputs)
<1>1. idx1 \in Nat /\ idx1 + 1 \in Nat
  BY DEF TypeOK
<1>2. <<>> \in Seq(HashedInputs \cup BinOutputs)
  OBVIOUS
<1>3. {"REQUEST_1_INPUT", "REQUEST_3_OUTPUT"} \subseteq Stages
  BY DEF Stages
<1>4. CASE signing_stage' = "REQUEST_1_INPUT" /\ idx1' = idx1 + 1 /\ hasher' = h
  BY <1>1, <1>3, <1>4
<1>5. CASE signing_stage' = "REQUEST_3_OUTPUT" /\ idx1' = 0 /\ hasher' = <<>>
  BY <1>2, <1>3, <1>5
<1> QED
  BY <1>4, <1>5 DEF phase1_request_next_input

LEMMA InputType ==
  ASSUME TypeOK, NEW m \in InputMsgs,
         RefuseInput(m) \/ CheckInputWithAmount(m) \/ CheckInputLegacy(m)
  PROVE  TypeOK'
<1> m \in Inputs
  BY MessageTypes
<1>1. HashedInput(m) \in HashedInputs \cup BinOutputs
  BY DEF Inputs, HashedInput, HashedInputs
<1>2. HashAfter(m) \in Seq(HashedInputs \cup BinOutputs)
  BY <1>1 DEF HashAfter, TypeOK
<1>3. /\ CheckedReply(m, "Failure") \in Seq(Replies)
      /\ CheckedReply(m, "TxRequest") \in Seq(Replies)
  BY ReplyTypes DEF CheckedReply, Replies
<1>4. CASE RefuseInput(m)
  BY <1>3, <1>4 DEF TypeOK, RefuseInput
<1>5. ASSUME signing_check_input(m) PROVE
        /\ in_address_n' \in [len : Nat, account : Accounts] \cup {Unset, NoChangeAllowed}
        /\ multisig_fp' \in Fingerprints \cup {NoFingerprint, Mismatch}
        /\ signing' \in BOOLEAN
        /\ signing' => signing
  <2>1. NextAddressN(m.path) \in [len : Nat, account : Accounts] \cup {Unset, NoChangeAllowed}
    <3>1. PathOf(m.path) \in [len : Nat, account : Accounts]
      BY DEF Inputs, Paths, PathOf
    <3> QED
      BY <3>1 DEF NextAddressN
  <2>2. ASSUME Fingerprintable(m)
        PROVE NextFingerprint(m) \in Fingerprints \cup {NoFingerprint, Mismatch}
    <3>1. /\ m.multisig \in Fingerprints \cup {SingleSig, BadMultisig}
          /\ multisig_fp \in Fingerprints \cup {NoFingerprint, Mismatch}
      BY DEF Inputs, Multisigs, TypeOK
    <3>2. multisig_fp = Mismatch => multisig_fp \notin {NoFingerprint, m.multisig}
      BY <3>1, SigningAssumption DEF Mismatch, NoFingerprint, SingleSig, BadMultisig
    <3> QED
      BY <2>2, <3>1, <3>2 DEF NextFingerprint, Fingerprintable
  <2> QED
    BY <1>5, <2>1, <2>2 DEF signing_check_input, TypeOK
<1>6. CASE CheckInputWithAmount(m)
  <2>1. /\ to_spend' \in Amounts /\ authorized_amount' \in Amounts
    <3>1. /\ to_spend + m.amount \in Int /\ authorized_amount + m.amount \in Int
      BY DEF TypeOK, Inputs, Amounts
    <3> QED
      BY <1>6, <3>1, WrapType DEF CheckInputWithAmount
  <2>2. /\ idx1' \in Nat /\ signing_stage' \in Stages
        /\ hasher' \in Seq(HashedInputs \cup BinOutputs)
    BY <1>2, <1>6, NextInputType DEF CheckInputWithAmount
  <2>3. input' = NoPrevout \/ input' \in Prevouts
    BY <1>6 DEF CheckInputWithAmount, TypeOK, Inputs
  <2> QED
    BY <1>3, <1>5, <1>6, <2>1, <2>2, <2>3 DEF CheckInputWithAmount, TypeOK, IsSegwit
<1>7. CASE CheckInputLegacy(m)
  BY <1>2, <1>3, <1>5, <1>7 DEF CheckInputLegacy, TypeOK, Inputs, Stages
<1> QED
  BY <1>4, <1>6, <1>7

TpType == [ins : Nat, outs : Nat, extra : Nat, received : Nat, same : BOOLEAN]

LEMMA PrevType ==
  ASSUME TypeOK,
         \/ \E meta \in MetaMsgs : PrevMeta(meta)
         \/ \E same \in BOOLEAN : PrevInput(same)
         \/ \E amount \in PrevAmounts, same \in BOOLEAN : PrevOutput(amount, same)
         \/ \E size \in 0 .. 2, same \in BOOLEAN : PrevExtraData(size, same)
  PROVE  TypeOK'
<1> /\ tp \in TpType /\ idx2 \in Nat /\ idx1 \in Nat
    /\ hasher \in Seq(HashedInputs \cup BinOutputs) /\ to_spend \in Amounts
  BY DEF TypeOK, TpType
<1>1. ASSUME NEW meta \in MetaMsgs, PrevMeta(meta) PROVE TypeOK'
  <2> meta \in [ins : Nat, outs : Nat, extra : Nat]
    BY MessageTypes
  <2>1. CASE Fail("Failure")
    BY <2>1, FailType
  <2>2. CASE ~Fail("Failure")
    <3>1. tp' \in TpType
      <4> DEFINE real == /\ meta.ins = PrevTx[input.hash].ins
                         /\ meta.outs = Len(PrevTx[input.hash].outs)
                         /\ meta.extra = PrevTx[input.hash].extra
      <4>1. tp' = [ins |-> meta.ins, outs |-> meta.outs, extra |-> meta.extra,
                   received |-> 0, same |-> real]
        BY <1>1, <2>2, Zenon DEF PrevMeta
      <4>2. real \in BOOLEAN
        OBVIOUS
      <4> HIDE DEF real
      <4> QED
        BY <4>1, <4>2 DEF TpType
    <3>2. idx2' \in Nat /\ signing_stage' \in Stages
      BY <1>1, <2>2 DEF PrevMeta, Stages
    <3>3. resp' \in Seq(Replies)
      BY <1>1, <2>2, ReplyTypes DEF PrevMeta
    <3>4. UNCHANGED <<signing, idx1, next_nonsegwit_input, session, money,
                      wallet, root, input, hasher, shown, signtx>>
      BY <1>1, <2>2 DEF PrevMeta
    <3> QED
      BY <3>1, <3>2, <3>3, <3>4 DEF TypeOK, TpType
  <2> QED
    BY <2>1, <2>2
<1>2. ASSUME NEW same \in BOOLEAN, PrevInput(same) PROVE TypeOK'
  <2>1. tp' \in TpType
    BY <1>2 DEF PrevInput, TpType
  <2>2. idx2' \in Nat /\ signing_stage' \in Stages
    BY <1>2 DEF PrevInput, Stages
  <2>3. resp' \in Seq(Replies)
    BY <1>2, ReplyTypes DEF PrevInput
  <2> QED
    BY <1>2, <2>1, <2>2, <2>3 DEF PrevInput, TypeOK, TpType
<1>3. ASSUME NEW amount \in PrevAmounts, NEW same \in BOOLEAN, PrevOutput(amount, same)
      PROVE TypeOK'
  <2>1. CASE Fail("Failure")
    BY <2>1, FailType
  <2>2. CASE ~Fail("Failure")
    <3>1. to_spend' \in Amounts
      <4>1. to_spend \in Int /\ amount \in Int
        BY MessageTypes DEF Amounts
      <4> QED
        BY <1>3, <2>2, <4>1, WrapType DEF PrevOutput
    <3>2. tp' \in TpType
      BY <1>3, <2>2 DEF PrevOutput, TpType, RealAmount
    <3>3. /\ idx2' \in Nat /\ idx1' \in Nat /\ signing_stage' \in Stages
          /\ hasher' \in Seq(HashedInputs \cup BinOutputs)
      <4>1. CASE UNCHANGED <<idx1, hasher>>
        BY <1>3, <2>2, <4>1 DEF PrevOutput, Stages, TypeOK, signing_check_prevtx_hash, phase1_request_next_input
      <4>2. CASE phase1_request_next_input(hasher) /\ UNCHANGED idx2
        BY <4>2, NextInputType
      <4> QED
        BY <1>3, <2>2, <4>1, <4>2 DEF PrevOutput, signing_check_prevtx_hash
    <3>4. resp' \in Seq(Replies)
      BY <1>3, <2>2, ReplyTypes DEF PrevOutput
    <3>5. UNCHANGED <<signing, next_nonsegwit_input, session, authorized_amount,
                      spending, change_spend, wallet, root, input, shown, signtx>>
      BY <1>3, <2>2 DEF PrevOutput, signing_check_prevtx_hash
    <3> QED
      BY <3>1, <3>2, <3>3, <3>4, <3>5 DEF TypeOK, TpType
  <2> QED
    BY <2>1, <2>2
<1>4. ASSUME NEW size \in 0 .. 2, NEW same \in BOOLEAN, PrevExtraData(size, same)
      PROVE TypeOK'
  <2>1. CASE Fail("Failure")
    BY <2>1, FailType
  <2>2. CASE ~Fail("Failure")
    <3>1. tp' \in TpType
      <4> DEFINE good == tp.same /\ same
      <4>1. tp' = [tp EXCEPT !.received = tp.received + size, !.same = good]
        BY <1>4, <2>2, Zenon DEF PrevExtraData
      <4>2. good \in BOOLEAN /\ tp.received + size \in Nat
        BY DEF TpType
      <4> HIDE DEF good
      <4> QED
        BY <4>1, <4>2 DEF TpType
    <3>2. /\ idx2' \in Nat /\ idx1' \in Nat /\ signing_stage' \in Stages
          /\ hasher' \in Seq(HashedInputs \cup BinOutputs)
      <4>1. CASE UNCHANGED <<control, hasher, hash_check>>
        BY <4>1 DEF TypeOK
      <4>2. CASE phase1_request_next_input(hasher) /\ UNCHANGED idx2
        BY <4>2, NextInputType
      <4> QED
        BY <1>4, <2>2, <4>1, <4>2 DEF PrevExtraData, signing_check_prevtx_hash
    <3>3. resp' \in Seq(Replies)
      BY <1>4, <2>2, ReplyTypes DEF PrevExtraData
    <3>4. UNCHANGED <<signing, next_nonsegwit_input, session, money,
                      wallet, root, input, shown, signtx>>
      BY <1>4, <2>2 DEF PrevExtraData, signing_check_prevtx_hash
    <3> QED
      BY <3>1, <3>2, <3>3, <3>4 DEF TypeOK, TpType
  <2> QED
    BY <2>1, <2>2
<1> QED
  BY <1>1, <1>2, <1>3, <1>4

HashType == Seq(HashedInputs \cup BinOutputs)

LEMMA OutputType ==
  ASSUME TypeOK, NEW o \in OutputMsgs, RefuseOutput(o) \/ CheckOutput(o)
  PROVE  TypeOK'
<1> o \in Outputs
  BY MessageTypes
<1>1. CASE RefuseOutput(o)
  BY <1>1, FailType DEF RefuseOutput
<1>2. CASE CheckOutput(o)
  <2>1. spending' \in Amounts
    <3>1. spending \in Int /\ o.amount \in Int
      BY DEF TypeOK, Outputs, Amounts
    <3> QED
      BY <1>2, <3>1, WrapType DEF CheckOutput
  <2>2. change_spend' \in Amounts
    BY <1>2 DEF CheckOutput, TypeOK, Outputs
  <2>3. Compiles(o)
    BY <1>2 DEF CheckOutput, RefusedOutput
  <2>4. /\ compile_output(o) \in BinOutputs
        /\ compile_output(o).script \in Scripts
    BY <2>3, CompileType DEF TypeOK
  <2>5. hasher' \in HashType
    BY <1>2, <2>4 DEF CheckOutput, TypeOK, HashType
  <2>6. shown' \in Seq(ShownOutputs)
    <3> DEFINE yes == ~SkipsConfirmation(o)
    <3>1. shown' = Append(shown, [amount |-> o.amount,
                                  script |-> compile_output(o).script,
                                  confirmed |-> yes])
      BY <1>2, Zenon DEF CheckOutput
    <3>2. yes \in BOOLEAN /\ o.amount \in Amounts
      BY DEF Outputs
    <3>3. shown \in Seq(ShownOutputs)
      BY DEF TypeOK
    <3> HIDE DEF yes
    <3>4. [amount |-> o.amount, script |-> compile_output(o).script,
           confirmed |-> yes] \in ShownOutputs
      BY <2>4, <3>2 DEF ShownOutputs
    <3> QED
      BY <3>1, <3>3, <3>4
  <2>7. /\ idx1' \in Nat /\ idx2' \in Nat /\ signing_stage' \in Stages
        /\ resp' \in Seq(Replies)
    BY <1>2, ReplyTypes DEF CheckOutput, phase2_request_next_input, TypeOK, Stages
  <2>8. UNCHANGED <<signing, next_nonsegwit_input, session, to_spend,
                    authorized_amount, wallet, root, input, tp, signtx>>
    BY <1>2 DEF CheckOutput
  <2> QED
    BY <2>1, <2>2, <2>5, <2>6, <2>7, <2>8 DEF TypeOK, HashType
<1> QED
  BY <1>1, <1>2

LEMMA NextToSignType == ASSUME TypeOK, NextToSign
                        PROVE idx1' \in Nat /\ idx2' \in Nat /\ signing_stage' \in Stages
  BY DEF NextToSign, phase2_request_next_input, TypeOK, Stages

\* The budget check keeps authorized_amount from wrapping below zero.
LEMMA Bip143Type ==
  ASSUME TypeOK, NEW m \in InputMsgs, MayHashBip143(m), signing_hash_bip143(m)
  PROVE  authorized_amount' \in Amounts /\ hasher' \in HashType
<1>1. /\ m.amount \in 0 .. AmountMod - 1 /\ authorized_amount \in 0 .. AmountMod - 1
      /\ AmountMod \in Nat /\ m.amount <= authorized_amount
  BY MessageTypes, SigningAssumption DEF TypeOK, Inputs, Amounts, MayHashBip143
<1>2. <<>> \in HashType
  BY DEF HashType
<1> QED
  BY <1>1, <1>2 DEF signing_hash_bip143, Amounts

LEMMA SignType ==
  ASSUME TypeOK,
         \/ \E m \in InputMsgs : SignInputPart(m) \/ SegwitInput(m) \/ SegwitWitness(m)
         \/ \E o \in OutputMsgs : SignOutputPart(o) \/ SerializeOutput(o)
  PROVE  TypeOK'
<1> /\ idx1 \in Nat /\ idx2 \in Nat /\ hasher \in HashType /\ <<>> \in HashType
    /\ authorized_amount \in Amounts
  BY DEF TypeOK, HashType
<1>0. CASE Fail("Failure")
  BY <1>0, FailType
<1>1. ASSUME NEW m \in InputMsgs, SignInputPart(m), ~Fail("Failure") PROVE TypeOK'
  <2>1. m \in Inputs /\ HashedInput(m) \in HashedInputs
    BY MessageTypes DEF Inputs, HashedInput, HashedInputs
  <2>2. hasher' \in HashType
    <3>1. hasher' \in {<<>>, Append(<<>>, HashedInput(m)), Append(hasher, HashedInput(m))}
      BY <1>1 DEF SignInputPart
    <3>2. /\ Append(<<>>, HashedInput(m)) \in HashType
          /\ Append(hasher, HashedInput(m)) \in HashType
      BY <2>1 DEF HashType
    <3> QED
      BY <3>1, <3>2
  <2>3. input' = NoPrevout \/ input' \in Prevouts
    BY <1>1, <2>1 DEF SignInputPart, Inputs, TypeOK
  <2>4. /\ next_nonsegwit_input' \in Nat \cup {NoLegacyInput} /\ idx2' \in Nat
        /\ signing_stage' \in Stages
    BY <1>1 DEF SignInputPart, NextLegacyInput, TypeOK, Stages
  <2>5. resp' \in Seq(Replies)
    BY <1>1, ReplyTypes DEF SignInputPart
  <2>6. UNCHANGED <<signing, idx1, session, money, wallet, root, tp, shown, signtx>>
    BY <1>1 DEF SignInputPart
  <2> QED
    BY <2>2, <2>3, <2>4, <2>5, <2>6 DEF TypeOK, HashType
<1>2. ASSUME NEW o \in OutputMsgs, SignOutputPart(o), ~Fail("Failure") PROVE TypeOK'
  <2>1. o \in Outputs /\ Compiles(o)
    BY <1>2, MessageTypes DEF SignOutputPart
  <2>2. compile_output(o) \in BinOutputs
    BY <2>1, CompileType DEF TypeOK
  <2>3. hasher' \in HashType
    <3>1. hasher' = Append(hasher, compile_output(o))
      BY <1>2 DEF SignOutputPart
    <3> QED
      BY <2>2, <3>1 DEF HashType
  <2>4. idx1' \in Nat /\ idx2' \in Nat /\ signing_stage' \in Stages
    BY <1>2, NextToSignType DEF SignOutputPart, TypeOK
  <2>5. resp' \in Seq(Replies)
    BY <1>2, ReplyTypes DEF SignOutputPart
  <2>6. UNCHANGED <<signing, next_nonsegwit_input, session, money, wallet, root,
                    input, tp, shown, signtx>>
    BY <1>2 DEF SignOutputPart
  <2> QED
    BY <2>3, <2>4, <2>5, <2>6 DEF TypeOK, HashType
<1>3. ASSUME NEW m \in InputMsgs, SegwitInput(m), ~Fail("Failure") PROVE TypeOK'
  <2>1. authorized_amount' \in Amounts /\ hasher' \in HashType
    BY <1>3, Bip143Type DEF SegwitInput
  <2>2. idx1' \in Nat /\ idx2' \in Nat /\ signing_stage' \in Stages
    BY <1>3, NextToSignType DEF SegwitInput
  <2>3. resp' \in Seq(Replies)
    BY <1>3, ReplyTypes DEF SegwitInput
  <2>4. UNCHANGED <<signing, next_nonsegwit_input, session, to_spend, spending,
                    change_spend, wallet, root, input, tp, shown, signtx>>
    BY <1>3 DEF SegwitInput
  <2> QED
    BY <2>1, <2>2, <2>3, <2>4 DEF TypeOK, HashType
<1>4. ASSUME NEW o \in OutputMsgs, SerializeOutput(o), ~Fail("Failure") PROVE TypeOK'
  <2>1. idx1' \in Nat /\ signing_stage' \in Stages
        /\ (signing' = signing \/ signing' = FALSE)
    <3>1. \/ idx1' = idx1 + 1 /\ UNCHANGED <<signing, signing_stage>>
          \/ idx1' = 0 /\ signing_stage' \in Stages /\ UNCHANGED signing
          \/ Finish
      BY <1>4 DEF SerializeOutput, Stages
    <3> QED
      BY <3>1 DEF Finish, TypeOK
  <2>2. resp' \in Seq(Replies)
    BY <1>4, ReplyTypes DEF SerializeOutput, Finish
  <2>3. UNCHANGED <<idx2, next_nonsegwit_input, session, money, wallet, root,
                    input, tp, hasher, shown, signtx>>
    BY <1>4 DEF SerializeOutput
  <2> QED
    <3>0. signing \in BOOLEAN
      BY DEF TypeOK
    <3>1. signing' \in BOOLEAN /\ (signing' => signing)
      <4>1. CASE signing' = signing
        BY <3>0, <4>1
      <4>2. CASE signing' = FALSE
        BY <4>2
      <4> QED
        BY <2>1, <4>1, <4>2
    <3> QED
      BY <2>1, <2>2, <2>3, <3>1 DEF TypeOK
<1>5. ASSUME NEW m \in InputMsgs, SegwitWitness(m), ~Fail("Failure") PROVE TypeOK'
  <2>1. authorized_amount' \in Amounts /\ hasher' \in HashType
    BY <1>5, Bip143Type DEF SegwitWitness
  <2>2. idx1' \in Nat /\ signing_stage' \in Stages
        /\ (signing' = signing \/ signing' = FALSE)
    <3>1. \/ idx1' = idx1 + 1 /\ UNCHANGED <<signing, signing_stage>>
          \/ idx1' = 0 /\ signing_stage' \in Stages /\ UNCHANGED signing
          \/ Finish
      BY <1>5 DEF SegwitWitness, Stages
    <3> QED
      BY <3>1 DEF Finish, TypeOK
  <2>3. resp' \in Seq(Replies)
    BY <1>5, ReplyTypes DEF SegwitWitness, Finish
  <2>4. UNCHANGED <<idx2, next_nonsegwit_input, session, to_spend, spending,
                    change_spend, wallet, root, input, tp, shown, signtx>>
    BY <1>5 DEF SegwitWitness
  <2> QED
    <3>0. signing \in BOOLEAN
      BY DEF TypeOK
    <3>1. signing' \in BOOLEAN /\ (signing' => signing)
      <4>1. CASE signing' = signing
        BY <3>0, <4>1
      <4>2. CASE signing' = FALSE
        BY <4>2
      <4> QED
        BY <2>2, <4>1, <4>2
    <3> QED
      BY <2>1, <2>2, <2>3, <2>4, <3>1 DEF TypeOK, HashType
<1> QED
  BY <1>0, <1>1, <1>2, <1>3, <1>4, <1>5

LEMMA InitType == Init => TypeOK
<1> SUFFICES ASSUME Init PROVE TypeOK
  OBVIOUS
<1>1. tp \in TpType
  BY DEF Init, NoPrev, TpType
<1>2. <<>> \in HashType /\ <<>> \in Seq(ShownOutputs) /\ <<>> \in Seq(Replies)
  BY DEF HashType
<1>3. signing_stage \in Stages /\ root \in Nodes
  BY DEF Init, Stages, Nodes
<1> QED
  BY <1>1, <1>2, <1>3, MessageTypes DEF Init, TypeOK, TpType, HashType

LEMMA OtherType ==
  ASSUME TypeOK,
         \/ signing_init \/ RefuseSignTx \/ CancelOrInitialize \/ TxAckNotSigning
         \/ OtherKeyRequest \/ UNCHANGED vars
  PROVE  TypeOK'
<1>1. CASE signing_init
  <2>1. /\ to_spend' \in Amounts /\ authorized_amount' \in Amounts
        /\ spending' \in Amounts /\ change_spend' \in Amounts
    BY <1>1, MessageTypes DEF signing_init
  <2>2. /\ signing_stage' \in Stages /\ root' \in Nodes
        /\ next_nonsegwit_input' \in Nat \cup {NoLegacyInput}
    BY <1>1 DEF signing_init, Stages, Nodes
  <2>3. /\ inputs_count' \in Nat \ {0} /\ outputs_count' \in Nat \ {0}
        /\ signtx' \in Nat
    BY <1>1, SigningAssumption DEF signing_init, TypeOK
  <2>4. resp' \in Seq(Replies)
    BY <1>1, ReplyTypes DEF signing_init
  <2>5. <<>> \in HashType /\ <<>> \in Seq(ShownOutputs)
    BY DEF HashType
  <2>6. /\ coin' \in Coins /\ signing' = TRUE /\ idx1' = 0 /\ is_segwit' = FALSE
        /\ in_address_n' = Unset /\ multisig_fp' = NoFingerprint
        /\ input' = NoPrevout /\ hasher' = <<>> /\ shown' = <<>>
        /\ UNCHANGED <<idx2, tp>>
    BY <1>1 DEF signing_init
  <2> QED
    <3>1. signing' \in BOOLEAN /\ is_segwit' \in BOOLEAN
      BY <2>6
    <3> QED
      BY <2>1, <2>2, <2>3, <2>4, <2>5, <2>6, <3>1 DEF TypeOK, HashType
<1>2. CASE RefuseSignTx
  BY <1>2, ReplyTypes DEF RefuseSignTx, TypeOK
<1>3. CASE CancelOrInitialize \/ TxAckNotSigning
  BY <1>3, FailType DEF CancelOrInitialize, TxAckNotSigning
<1>4. CASE OtherKeyRequest
  BY <1>4, ReplyTypes DEF OtherKeyRequest, TypeOK, Nodes
<1>5. CASE UNCHANGED vars
  BY <1>5 DEF vars, TypeOK
<1> QED
  BY <1>1, <1>2, <1>3, <1>4, <1>5

LEMMA StepType == ASSUME TypeOK, [Next]_vars PROVE TypeOK'
  BY OtherType, InputType, PrevType, OutputType, SignType DEF Next, TxAck

\* The static variables of signing.c keep their types and ranges: in
\* particular the four 64-bit sums never leave their 64 bits.
THEOREM TypeCorrect == Spec => []TypeOK
<1>1. Init => TypeOK
  BY InitType
<1>2. TypeOK /\ [Next]_vars => TypeOK'
  BY StepType
<1> QED
  BY <1>1, <1>2, PTL DEF Spec

-----------------------------------------------------------------------------
(* Approval before signatures.  Every step of the firmware is of one of six *)
(* kinds, of which only the last three touch what is shown, approved or     *)
(* signed.  The kinds make the invariant and the refinement short.          *)

InputStages == Phase1Stages \ {"REQUEST_3_OUTPUT"}

Closes == ~signing' /\ UNCHANGED <<shown, approved, sigs>>

Idles == UNCHANGED <<signing, signing_stage, hasher, hash_outputs, ti, shown,
                     approved, sigs>>

Gathers ==
  /\ signing /\ signing_stage \in InputStages
  /\ signing_stage' \in Phase1Stages
  /\ signing_stage' = "REQUEST_3_OUTPUT" => hasher' = <<>>
  /\ UNCHANGED <<shown, approved, sigs>>

Starts ==
  /\ signing_stage' \in InputStages
  /\ shown' = <<>> /\ approved' = NotApproved /\ sigs' = <<>>

Confirms ==
  /\ signing /\ signing_stage = "REQUEST_3_OUTPUT"
  /\ \E x \in ShownOutputs :
       /\ shown' = Append(shown, x)
       /\ hasher' = Append(hasher, [amount |-> x.amount, script |-> x.script])
  /\ sigs' = sigs
  /\ \/ signing_stage' = "REQUEST_3_OUTPUT" /\ approved' = approved
     \/ /\ signing_stage' \in {"REQUEST_4_INPUT", "REQUEST_SEGWIT_INPUT"}
        /\ hash_outputs' = hasher'
        /\ approved' # NotApproved /\ approved'.outs = hasher'

Signs ==
  /\ signing /\ signing_stage \in Phase2Stages
  /\ signing_stage' \in Phase2Stages
  /\ UNCHANGED <<shown, approved, hash_outputs>>
  /\ signing_stage' = "REQUEST_4_OUTPUT" => ti'.outs = hasher'
  /\ \/ sigs' = sigs
     \/ \E s : s.outs = approved.outs /\ sigs' = Append(sigs, s)

IsSequence(s) == \E S : s \in Seq(S)

\* The inductive invariant: nothing is approved or signed in phase 1, the
\* digest of the outputs follows what was shown, and the digest approved is
\* the one phase 2 compares with.
ApprovalInv ==
  /\ IsSequence(sigs)
  /\ signing /\ signing_stage \in Phase1Stages => sigs = <<>> /\ approved = NotApproved
  /\ signing /\ signing_stage \in InputStages => shown = <<>>
  /\ signing /\ signing_stage = "REQUEST_3_OUTPUT" => hasher = ShownOuts
  /\ signing /\ signing_stage \in Phase2Stages =>
       /\ approved # NotApproved
       /\ approved.outs = hash_outputs /\ approved.outs = ShownOuts
  /\ signing /\ signing_stage = "REQUEST_4_OUTPUT" => ti.outs = hasher
  /\ SignedOutputsWereApproved

LEMMA ShownOutsAppend ==
  ASSUME shown \in Seq(ShownOutputs), NEW x \in ShownOutputs, shown' = Append(shown, x)
  PROVE  ShownOuts' = Append(ShownOuts, [amount |-> x.amount, script |-> x.script])
<1> DEFINE Out(e) == [amount |-> e.amount, script |-> e.script]
<1>1. /\ DOMAIN shown = 1 .. Len(shown) /\ Len(shown) \in Nat
      /\ DOMAIN shown' = 1 .. Len(shown) + 1
      /\ \A i \in 1 .. Len(shown) : shown'[i] = shown[i]
      /\ shown'[Len(shown) + 1] = x
  OBVIOUS
<1>2. /\ ShownOuts = [i \in 1 .. Len(shown) |-> Out(shown[i])]
      /\ ShownOuts' = [i \in 1 .. Len(shown) + 1 |-> Out(shown'[i])]
  BY <1>1 DEF ShownOuts
<1>3. ShownOuts \in Seq({Out(shown[i]) : i \in 1 .. Len(shown)}) /\ Len(ShownOuts) = Len(shown)
  BY <1>1, <1>2
<1> HIDE DEF Out
<1>4. Append(ShownOuts, Out(x)) = [i \in 1 .. Len(shown) + 1 |-> Out(shown'[i])]
  BY <1>1, <1>2, <1>3
<1> QED
  BY <1>2, <1>4 DEF Out

LEMMA StageSets ==
  /\ "REQUEST_3_OUTPUT" \in Phase1Stages /\ "REQUEST_3_OUTPUT" \notin InputStages
  /\ "REQUEST_3_OUTPUT" \notin Phase2Stages /\ "REQUEST_4_OUTPUT" \in Phase2Stages
  /\ "REQUEST_4_OUTPUT" \notin Phase1Stages
  /\ InputStages \subseteq Phase1Stages
  /\ Phase1Stages \cap Phase2Stages = {}
  /\ "REQUEST_1_INPUT" \in InputStages
  /\ {"REQUEST_4_INPUT", "REQUEST_SEGWIT_INPUT"} \subseteq Phase2Stages \ {"REQUEST_4_OUTPUT"}
  BY DEF Stages, Phase1Stages, Phase2Stages, InputStages

\* The properties of the signatures, when neither they nor what they are
\* compared with changes.
LEMMA ApprovalKept ==
  ASSUME ApprovalInv, UNCHANGED <<shown, approved, sigs>>
  PROVE  IsSequence(sigs)' /\ SignedOutputsWereApproved' /\ ShownOuts' = ShownOuts
  BY DEF ApprovalInv, SignedOutputsWereApproved, ShownOuts, IsSequence

LEMMA ApprovalStep ==
  ASSUME TypeOK, ApprovalInv,
         Closes \/ Idles \/ Gathers \/ Starts \/ Confirms \/ Signs
  PROVE  ApprovalInv'
<1>1. CASE Closes
  BY <1>1, ApprovalKept DEF Closes, ApprovalInv
<1>2. CASE Idles
  BY <1>2, ApprovalKept DEF Idles, ApprovalInv
<1>3. CASE Gathers
  <2>1. shown' = <<>> /\ ShownOuts' = <<>> /\ sigs' = <<>> /\ approved' = NotApproved
    BY <1>3, StageSets DEF Gathers, ApprovalInv, ShownOuts
  <2> QED
    BY <1>3, <2>1, ApprovalKept, StageSets DEF Gathers, ApprovalInv
<1>4. CASE Starts
  <2>1. <<>> \in Seq({})
    OBVIOUS
  <2> QED
    BY <1>4, <2>1, StageSets DEF Starts, ApprovalInv, SignedOutputsWereApproved, IsSequence
<1>5. CASE Confirms
  <2>1. PICK x \in ShownOutputs :
          /\ shown' = Append(shown, x)
          /\ hasher' = Append(hasher, [amount |-> x.amount, script |-> x.script])
    BY <1>5 DEF Confirms
  <2>2. hasher' = ShownOuts'
    BY <1>5, <2>1, ShownOutsAppend DEF Confirms, ApprovalInv, TypeOK
  <2>3. sigs' = <<>> /\ IsSequence(sigs)' /\ SignedOutputsWereApproved'
    BY <1>5, StageSets DEF Confirms, ApprovalInv, IsSequence, SignedOutputsWereApproved
  <2> QED
    BY <1>5, <2>2, <2>3, StageSets DEF Confirms, ApprovalInv
<1>6. CASE Signs
  <2>1. /\ approved' # NotApproved /\ ShownOuts' = ShownOuts
        /\ approved'.outs = hash_outputs' /\ approved'.outs = ShownOuts'
    BY <1>6 DEF Signs, ApprovalInv, ShownOuts
  <2>2. IsSequence(sigs)' /\ SignedOutputsWereApproved'
    <3>1. CASE sigs' = sigs
      BY <1>6, <3>1, ApprovalKept DEF Signs
    <3>2. ASSUME NEW s, s.outs = approved.outs, sigs' = Append(sigs, s)
          PROVE  IsSequence(sigs)' /\ SignedOutputsWereApproved'
      <4>1. PICK S : sigs \in Seq(S)
        BY DEF ApprovalInv, IsSequence
      <4>2. sigs \in Seq(S \cup {s}) /\ sigs' \in Seq(S \cup {s})
        BY <3>2, <4>1
      <4>3. \A k \in DOMAIN sigs' : sigs'[k] = s \/ (k \in DOMAIN sigs /\ sigs'[k] = sigs[k])
        BY <3>2, <4>2
      <4> QED
        BY <1>6, <2>1, <3>2, <4>2, <4>3
        DEF Signs, ApprovalInv, IsSequence, SignedOutputsWereApproved
    <3> QED
      BY <1>6, <3>1, <3>2 DEF Signs
  <2>3. signing_stage' = "REQUEST_4_OUTPUT" => ti'.outs = hasher'
    BY <1>6 DEF Signs
  <2> QED
    BY <1>6, <2>1, <2>2, <2>3, StageSets DEF Signs, ApprovalInv
<1> QED
  BY <1>1, <1>2, <1>3, <1>4, <1>5, <1>6

LEMMA FailCloses == ASSUME NEW r, Fail(r) PROVE Closes
  BY DEF Fail, Closes

LEMMA InputKinds1 ==
  ASSUME NEW m, RefuseInput(m) \/ CheckInputWithAmount(m) \/ CheckInputLegacy(m)
  PROVE  Closes \/ Gathers
<1>1. CASE RefuseInput(m)
  BY <1>1 DEF RefuseInput, Closes
<1>2. CASE CheckInputWithAmount(m)
  BY <1>2, StageSets DEF CheckInputWithAmount, AtStage, Gathers, phase1_request_next_input,
                         InputStages
<1>3. CASE CheckInputLegacy(m)
  BY <1>3 DEF CheckInputLegacy, AtStage, Gathers, InputStages, Phase1Stages
<1> QED
  BY <1>1, <1>2, <1>3

LEMMA PrevKinds ==
  ASSUME \/ \E meta \in MetaMsgs : PrevMeta(meta)
         \/ \E same \in BOOLEAN : PrevInput(same)
         \/ \E amount \in PrevAmounts, same \in BOOLEAN : PrevOutput(amount, same)
         \/ \E size \in 0 .. 2, same \in BOOLEAN : PrevExtraData(size, same)
  PROVE  Closes \/ Gathers
<1> USE StageSets DEF AtStage, Gathers, InputStages, Phase1Stages, phase1_request_next_input,
                      signing_check_prevtx_hash
<1>1. ASSUME NEW meta \in MetaMsgs, PrevMeta(meta) PROVE Closes \/ Gathers
  BY <1>1, FailCloses DEF PrevMeta
<1>2. ASSUME NEW same \in BOOLEAN, PrevInput(same) PROVE Closes \/ Gathers
  BY <1>2 DEF PrevInput
<1>3. ASSUME NEW amount \in PrevAmounts, NEW same \in BOOLEAN, PrevOutput(amount, same)
      PROVE  Closes \/ Gathers
  BY <1>3, FailCloses DEF PrevOutput
<1>4. ASSUME NEW size \in 0 .. 2, NEW same \in BOOLEAN, PrevExtraData(size, same)
      PROVE  Closes \/ Gathers
  BY <1>4, FailCloses DEF PrevExtraData
<1> QED
  BY <1>1, <1>2, <1>3, <1>4

LEMMA Difference == ASSUME NEW a \in Nat, NEW b \in Nat, a <= b PROVE b - a >= 0
  OBVIOUS

\* The fee that is confirmed is never negative: it was compared before.
LEMMA OutputKinds1 ==
  ASSUME TypeOK, NEW o \in OutputMsgs, RefuseOutput(o) \/ CheckOutput(o)
  PROVE  Closes \/ Confirms
<1>1. CASE RefuseOutput(o)
  BY <1>1, FailCloses DEF RefuseOutput
<1>2. CASE CheckOutput(o)
  <2> DEFINE x == [amount |-> o.amount, script |-> compile_output(o).script,
                   confirmed |-> ~SkipsConfirmation(o)]
  <2>1. /\ o \in Outputs /\ Compiles(o)
    BY <1>2, MessageTypes DEF CheckOutput, RefusedOutput
  <2>2. /\ compile_output(o).script \in Scripts /\ compile_output(o).amount = o.amount
        /\ compile_output(o) = [amount |-> x.amount, script |-> x.script]
    BY <2>1, CompileType DEF TypeOK, compile_output
  <2>3. x \in ShownOutputs
    <3>1. x.confirmed \in BOOLEAN /\ o.amount \in Amounts
      BY <2>1 DEF Outputs
    <3> QED
      BY <2>2, <3>1 DEF ShownOutputs
  <2>4. shown' = Append(shown, x) /\ hasher' = Append(hasher, compile_output(o))
    BY <1>2, Zenon DEF CheckOutput
  <2>5. CASE signing_stage' = signing_stage /\ approved' = approved
    BY <1>2, <2>2, <2>3, <2>4, <2>5 DEF CheckOutput, Confirms, AtStage
  <2>6. CASE /\ hash_outputs' = hasher'
             /\ spending' <= to_spend
             /\ approved' = [outs |-> hasher', amount |-> to_spend - change_spend',
                             fee |-> to_spend - spending']
             /\ phase2_request_next_input(0, next_nonsegwit_input)
    <3>1. approved'.fee >= 0
      <4>1. spending' \in Nat /\ to_spend \in Nat
        BY <1>2, OutputType, MessageTypes DEF TypeOK
      <4>2. approved'.fee = to_spend - spending' /\ spending' <= to_spend
        BY <2>6
      <4>3. to_spend - spending' >= 0
        BY <4>1, <4>2, Difference
      <4> QED
        BY <4>2, <4>3
    <3>2. approved' # NotApproved /\ approved'.outs = hasher'
      BY <2>6, <3>1 DEF NotApproved
    <3>3. signing_stage' \in {"REQUEST_4_INPUT", "REQUEST_SEGWIT_INPUT"}
      BY <2>6 DEF phase2_request_next_input
    <3> HIDE DEF x
    <3> QED
      BY <1>2, <2>2, <2>3, <2>4, <2>6, <3>2, <3>3 DEF CheckOutput, Confirms, AtStage
  <2> QED
    BY <1>2, <2>5, <2>6 DEF CheckOutput
<1> QED
  BY <1>1, <1>2

LEMMA NextToSignStage ==
  ASSUME NextToSign
  PROVE  signing_stage' \in Phase2Stages /\ signing_stage' # "REQUEST_4_OUTPUT"
  BY DEF NextToSign, phase2_request_next_input, Phase2Stages, Stages, Phase1Stages

\* Every legacy digest that is signed has the outputs just compared; every
\* BIP 143 digest has the approved digest itself.
LEMMA SignKinds ==
  ASSUME ApprovalInv,
         \/ \E m \in InputMsgs : SignInputPart(m) \/ SegwitInput(m) \/ SegwitWitness(m)
         \/ \E o \in OutputMsgs : SignOutputPart(o) \/ SerializeOutput(o)
  PROVE  Closes \/ Signs
<1>0. CASE Fail("Failure")
  BY <1>0, FailCloses
<1>a. ASSUME NEW stage \in Phase2Stages, AtStage(stage)
      PROVE  signing /\ signing_stage \in Phase2Stages /\ approved.outs = hash_outputs
  BY <1>a DEF AtStage, ApprovalInv
<1>b. {"REQUEST_4_INPUT", "REQUEST_4_OUTPUT", "REQUEST_SEGWIT_INPUT",
       "REQUEST_5_OUTPUT", "REQUEST_SEGWIT_WITNESS"} \subseteq Phase2Stages
  BY DEF Phase2Stages, Stages, Phase1Stages
<1>1. ASSUME NEW m \in InputMsgs, SignInputPart(m), ~Fail("Failure") PROVE Signs
  <2>1. signing /\ signing_stage \in Phase2Stages
    BY <1>1, <1>a, <1>b DEF SignInputPart
  <2>2. signing_stage' \in Phase2Stages
    BY <1>1, <1>b DEF SignInputPart
  <2>3. signing_stage' = "REQUEST_4_OUTPUT" => ti'.outs = hasher'
    BY <1>1 DEF SignInputPart
  <2>4. UNCHANGED <<shown, approved, hash_outputs, sigs>>
    BY <1>1 DEF SignInputPart
  <2> QED
    BY <2>1, <2>2, <2>3, <2>4 DEF Signs
<1>2. ASSUME NEW o \in OutputMsgs, SignOutputPart(o), ~Fail("Failure") PROVE Signs
  <2> DEFINE checked == Append(hasher, compile_output(o))
             digest == Append(ti.outs, compile_output(o))
             last == idx2 >= outputs_count - 1
             sig == [form |-> "legacy", idx |-> idx1, ins |-> ti.ins,
                     prevout |-> ti.ins[idx1 + 1], amount |-> 0,
                     outs |-> digest, key |-> ti.key]
  <2>1. /\ signing /\ signing_stage \in Phase2Stages /\ approved.outs = hash_outputs
        /\ signing_stage = "REQUEST_4_OUTPUT"
    BY <1>2, <1>a, <1>b DEF SignOutputPart, AtStage
  <2>2. digest = checked
    BY <2>1 DEF ApprovalInv
  <2>3. /\ hasher' = checked /\ ti' = [ti EXCEPT !.outs = digest]
        /\ UNCHANGED <<shown, approved, hash_outputs>>
        /\ last => checked = hash_outputs
        /\ \/ ~last /\ UNCHANGED <<signing_stage, sigs>>
           \/ last /\ sigs' = Append(sigs, sig) /\ NextToSign
    BY <1>2, Zenon DEF SignOutputPart, OutputsMatch
  <2>4. sig.outs = digest
    OBVIOUS
  <2> HIDE DEF sig, digest, checked, last
  <2>5. CASE last
    BY <2>1, <2>2, <2>3, <2>4, <2>5, NextToSignStage DEF Signs
  <2>6. CASE ~last
    <3>1. ti'.outs = hasher'
      BY <2>1, <2>2, <2>3, <2>6 DEF TypeOK
    <3> QED
      BY <2>1, <2>3, <2>6, <3>1 DEF Signs
  <2> QED
    BY <2>5, <2>6
<1>3. ASSUME NEW m \in InputMsgs, signing_hash_bip143(m), approved.outs = hash_outputs
      PROVE  \E s : s.outs = approved.outs /\ sigs' = Append(sigs, s)
  BY <1>3 DEF signing_hash_bip143
<1>4. ASSUME NEW m \in InputMsgs, SegwitInput(m), ~Fail("Failure") PROVE Signs
  <2>1. signing /\ signing_stage \in Phase2Stages /\ approved.outs = hash_outputs
    BY <1>4, <1>a, <1>b DEF SegwitInput
  <2>2. UNCHANGED <<shown, approved, hash_outputs>>
    BY <1>4 DEF SegwitInput
  <2>3. NextToSign /\ (signing_hash_bip143(m) \/ sigs' = sigs)
    BY <1>4 DEF SegwitInput
  <2> QED
    BY <1>3, <2>1, <2>2, <2>3, NextToSignStage DEF Signs
<1>5. ASSUME NEW o \in OutputMsgs, SerializeOutput(o), ~Fail("Failure") PROVE Signs
  <2>1. signing /\ signing_stage = "REQUEST_5_OUTPUT" /\ signing_stage \in Phase2Stages
    BY <1>5, <1>a, <1>b DEF SerializeOutput, AtStage
  <2>2. UNCHANGED <<shown, approved, sigs, hash_outputs>>
    BY <1>5 DEF SerializeOutput
  <2>3. signing_stage' \in {signing_stage, "REQUEST_SEGWIT_WITNESS"}
    BY <1>5 DEF SerializeOutput, Finish
  <2> QED
    BY <1>b, <2>1, <2>2, <2>3 DEF Signs
<1>6. ASSUME NEW m \in InputMsgs, SegwitWitness(m), ~Fail("Failure") PROVE Signs
  <2>1. signing /\ signing_stage = "REQUEST_SEGWIT_WITNESS" /\ signing_stage \in Phase2Stages
        /\ approved.outs = hash_outputs
    BY <1>6, <1>a, <1>b DEF SegwitWitness, AtStage
  <2>2. UNCHANGED <<shown, approved, hash_outputs, signing_stage>>
    BY <1>6 DEF SegwitWitness, Finish
  <2>3. signing_hash_bip143(m) \/ sigs' = sigs
    BY <1>6 DEF SegwitWitness
  <2> QED
    BY <1>3, <2>1, <2>2, <2>3 DEF Signs
<1> QED
  BY <1>0, <1>1, <1>2, <1>4, <1>5, <1>6

LEMMA StepKinds ==
  ASSUME TypeOK, ApprovalInv, [Next]_vars
  PROVE  Closes \/ Idles \/ Gathers \/ Starts \/ Confirms \/ Signs
<1>1. CASE TxAck
  BY <1>1, InputKinds1, PrevKinds, OutputKinds1, SignKinds DEF TxAck
<1>2. CASE signing_init
  BY <1>2, StageSets DEF signing_init, Starts
<1>3. CASE CancelOrInitialize \/ TxAckNotSigning
  BY <1>3, FailCloses DEF CancelOrInitialize, TxAckNotSigning
<1>4. CASE RefuseSignTx \/ OtherKeyRequest \/ UNCHANGED vars
  BY <1>4 DEF RefuseSignTx, OtherKeyRequest, vars, Idles
<1> QED
  BY <1>1, <1>2, <1>3, <1>4 DEF Next

LEMMA ApprovalInvariant == Spec => []ApprovalInv
<1>1. Init => ApprovalInv
  <2>1. <<>> \in Seq({})
    OBVIOUS
  <2> QED
    BY <2>1 DEF Init, ApprovalInv, SignedOutputsWereApproved, IsSequence
<1>2. TypeOK /\ ApprovalInv /\ [Next]_vars => ApprovalInv'
  BY StepKinds, ApprovalStep
<1> QED
  BY <1>1, <1>2, TypeCorrect, PTL DEF Spec

\* Whatever the host streams in phases 2 and 3, the device signs only the
\* outputs it showed, and only after the user confirmed them.
THEOREM NothingUnapprovedIsSigned == Spec => []SignedOutputsWereApproved
<1>1. ApprovalInv => SignedOutputsWereApproved
  BY DEF ApprovalInv
<1> QED
  BY <1>1, ApprovalInvariant, PTL

-----------------------------------------------------------------------------
(* Refinement.                                                             *)

LEMMA PromiseStep ==
  ASSUME TypeOK, ApprovalInv,
         Closes \/ Idles \/ Gathers \/ Starts \/ Confirms \/ Signs
  PROVE  [Promise!Next]_<<approved, sigs>>
<1>1. CASE Closes \/ Idles \/ Gathers
  BY <1>1 DEF Closes, Idles, Gathers
<1>2. CASE Starts
  BY <1>2 DEF Starts, Promise!Next, Promise!Begin
<1>3. CASE Confirms
  <2>1. approved = NotApproved /\ sigs' = sigs
    BY <1>3, StageSets DEF Confirms, ApprovalInv
  <2> QED
    BY <1>3, <2>1 DEF Confirms, Promise!Next, Promise!Approve
<1>4. CASE Signs
  <2>1. approved # NotApproved /\ approved' = approved
    BY <1>4 DEF Signs, ApprovalInv
  <2>2. ASSUME NEW s, s.outs = approved.outs, sigs' = Append(sigs, s)
        PROVE  Promise!Release
    <3>1. PICK S : sigs \in Seq(S)
      BY DEF ApprovalInv, IsSequence
    <3>2. sigs \in Seq(S \cup {s})
      BY <3>1
    <3>3. Len(sigs') = Len(sigs) + 1 /\ sigs'[Len(sigs) + 1] = s
      BY <2>2, <3>2
    <3> QED
      BY <2>1, <2>2, <3>3 DEF Promise!Release
  <2> QED
    BY <1>4, <2>1, <2>2 DEF Signs, Promise!Next
<1> QED
  BY <1>1, <1>2, <1>3, <1>4

\* Streaming implements the promise: however the host cuts, repeats, restarts
\* or abandons the stream, the device behaves as one that approves a list of
\* outputs once and then releases signatures for that list only.
THEOREM SigningKeepsPromise == Spec => PromiseKept
<1>1. Init => Promise!Init
  BY DEF Init, Promise!Init
<1>2. TypeOK /\ ApprovalInv /\ [Next]_vars => [Promise!Next]_<<approved, sigs>>
  BY StepKinds, PromiseStep
<1> QED
  BY <1>1, <1>2, TypeCorrect, ApprovalInvariant, PTL DEF Spec, PromiseKept, Promise!Spec
=============================================================================
