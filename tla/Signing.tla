------------------------------ MODULE Signing ------------------------------
(***************************************************************************)
(* Streamed transaction signing (firmware/signing.c).                      *)
(*                                                                         *)
(* The device never holds a whole transaction.  The host streams its parts *)
(* in TxAck messages, in phase 1 to have them checked and confirmed and in *)
(* phases 2 and 3, once more, to have them signed.  The host may answer    *)
(* with any part it likes, so the firmware keeps digests of phase 1 and    *)
(* compares.  One action here is one message handled to its end, including *)
(* the button dialogs the handler waits in.                                *)
(*                                                                         *)
(* Digests are modelled by what was hashed (hashes do not collide), amounts *)
(* are 64-bit words, that is, numbers below AmountMod.  Serialisation,     *)
(* nSequence, version, lock time, weights and progress are left out.       *)
(* After signing_abort every static variable below is dead until           *)
(* signing_init, so Fail changes `signing' only.                           *)
(***************************************************************************)
EXTENDS Integers, Sequences, FiniteSets

CONSTANTS
  AmountMod,     \* 2^64: amounts are uint64_t
  CountMod,      \* 2^32: input and output counts are uint32_t
  Coins,         \* the coins the host may name, [force_bip143, has_segwit]
  MaxInputs, MaxOutputs, \* bounds: on inputs_count and outputs_count
  MaxSignTx,     \* bound: number of SignTx messages
  Accounts,      \* BIP32 account prefixes
  Addresses,     \* addresses of payees
  Fingerprints,  \* fingerprints of multisig scripts
  TxHashes,      \* names of previous transactions
  PrevTx,        \* what those transactions really are, [ins, outs, extra]
  InputMsgs,     \* the TxInputType values the host may send
  OutputMsgs,    \* the TxOutputType values the host may send
  MetaMsgs,      \* the [ins, outs, extra] sizes it may claim of a previous tx
  PrevAmounts,   \* the amounts it may claim for a previous output
  OtherMessages  \* TRUE iff the host may also send key requests meanwhile

Amounts == 0 .. AmountMod - 1
NoAddress == "none"
Prevouts == [hash : TxHashes, index : Nat]
InputKinds == {"SPENDADDRESS", "EXTERNAL", "SPENDWITNESS", "SPENDP2SHWITNESS"}
OutputKinds == {"PAYTOADDRESS", "PAYTOWITNESS", "PAYTOOPRETURN"}

\* A BIP32 path: its length, the account prefix, and the last two elements.
Paths == [len : Nat, account : Accounts, inRange : BOOLEAN]
\* Multisig fingerprints; SingleSig stands for has_multisig = false and
\* BadMultisig for a script whose fingerprint cannot be computed.
SingleSig == "single"
BadMultisig == "bad"
Multisigs == Fingerprints \cup {SingleSig, BadMultisig}

Inputs == [prevout : Prevouts, kind : InputKinds, amount : Amounts,
           hasAmount : BOOLEAN, path : Paths, multisig : Multisigs]
Outputs == [amount : Amounts, kind : OutputKinds, path : Paths,
            address : Addresses \cup {NoAddress}, multisig : Multisigs]

ASSUME SigningAssumption ==
  /\ AmountMod \in Nat \ {0}
  /\ CountMod \in Nat \ {0}
  /\ MaxInputs \in Nat /\ MaxOutputs \in Nat
  /\ MaxSignTx \in Nat
  /\ Coins \subseteq [force_bip143 : BOOLEAN, has_segwit : BOOLEAN]
  /\ PrevTx \in [TxHashes -> [ins : Nat, outs : Seq(Amounts), extra : Nat]]
  /\ InputMsgs \subseteq Inputs
  /\ OutputMsgs \subseteq Outputs
  /\ MetaMsgs \subseteq [ins : Nat, outs : Nat, extra : Nat]
  /\ PrevAmounts \subseteq Amounts
  /\ OtherMessages \in BOOLEAN
  /\ Fingerprints \cap {SingleSig, BadMultisig, "unset", "mismatch"} = {}
  /\ NoAddress \notin Addresses

VARIABLES
  signing,               \* is a signing session open?
  signing_stage,         \* what the last TxRequest asked for
  coin,
  inputs_count, outputs_count,
  idx1, idx2,
  to_spend, authorized_amount, spending, change_spend,
  in_address_n,          \* path of all inputs, Unset or NoChangeAllowed
  multisig_fp,           \* fingerprint of all inputs, Unset or Mismatch
  next_nonsegwit_input,
  is_segwit,             \* to.is_segwit
  root,                  \* the node `root' points to: fsm.c's static node
  input,                 \* prevout of the input whose previous tx is streamed
  tp,                    \* progress of the previous tx, see PrevStart
  ti,                    \* the legacy digest being computed
  hasher,                \* what hashers[2] (inputs), hashers[0] (rest) hashed
  hash_check, hash_outputs,
  resp,                  \* the messages sent in reply to the last message
  \* History variables.
  shown,                 \* outputs of phase 1 and whether each was confirmed
  ledger,                \* inputs of phase 1 with the amount each counted for
  approved,              \* what the user confirmed last, NotApproved before
  sigs,                  \* signatures released in this session
  signtx                 \* number of SignTx messages so far

control == <<signing, signing_stage, idx1, idx2, next_nonsegwit_input>>
session == <<coin, inputs_count, outputs_count>>
money == <<to_spend, authorized_amount, spending, change_spend>>
wallet == <<in_address_n, multisig_fp, is_segwit>>
digests == <<hasher, hash_check, hash_outputs>>
history == <<shown, ledger, approved, sigs>>
vars == <<control, session, money, wallet, root, input, tp, ti, digests,
          resp, history, signtx>>

-----------------------------------------------------------------------------
Unset == [len |-> 0, account |-> "unset"]
NoChangeAllowed == [len |-> 1, account |-> "nochange"]
NoFingerprint == "unset"
Mismatch == "mismatch"
NoLegacyInput == -1                   \* next_nonsegwit_input = 0xffffffff
NotApproved == [outs |-> <<>>, amount |-> -1, fee |-> -1]
NoPrevout == [hash |-> "none", index |-> 0]
NoPrev == [ins |-> 0, outs |-> 0, extra |-> 0, received |-> 0, same |-> FALSE]
NoTi == [ins |-> <<>>, outs |-> <<>>, key |-> <<>>]

IsLegacy(m) == m.kind = "SPENDADDRESS"
IsSegwit(m) == m.kind \in {"SPENDWITNESS", "SPENDP2SHWITNESS"}
Wrap(n) == n % AmountMod

\* Sums of a sequence of numbers, and of the amounts of a sequence of records.
SumOf(f) ==
  LET sum[i \in 0 .. Len(f)] == IF i = 0 THEN 0 ELSE sum[i - 1] + f[i] IN sum[Len(f)]
Total(s) == SumOf([i \in DOMAIN s |-> s[i].amount])

\* The key a path leads to: relative to whatever node `root' holds now.
Key(path) == <<root, path>>

\* fsm_sendFailure and signing_abort.  If a dialog was left because the host
\* sent Initialize, fsm_sendFailure answers that message instead.
Fail(r) ==
  /\ signing' = FALSE
  /\ resp' = <<r>>
  /\ UNCHANGED <<signing_stage, idx1, idx2, next_nonsegwit_input, session,
                 money, wallet, root, input, tp, ti, digests, history, signtx>>

AtStage(stage) == signing /\ signing_stage = stage

Init ==
  /\ signing = FALSE /\ signing_stage = "REQUEST_1_INPUT"
  /\ idx1 = 0 /\ idx2 = 0 /\ next_nonsegwit_input = NoLegacyInput
  /\ coin \in Coins /\ inputs_count = 0 /\ outputs_count = 0
  /\ to_spend = 0 /\ authorized_amount = 0 /\ spending = 0 /\ change_spend = 0
  /\ in_address_n = Unset /\ multisig_fp = NoFingerprint /\ is_segwit = FALSE
  /\ root = "master" /\ input = NoPrevout /\ tp = NoPrev /\ ti = NoTi
  /\ hasher = <<>> /\ hash_check = <<>> /\ hash_outputs = <<>>
  /\ resp = <<>>
  /\ shown = <<>> /\ ledger = <<>> /\ approved = NotApproved /\ sigs = <<>>
  /\ signtx = 0

\* SignTx: fsm_msgSignTx passes its checks and calls signing_init.  There is
\* no check that a session is open: the new one replaces it.  The master node
\* is loaded into the static node of fsm_getDerivedNode, which root points to.
signing_init ==
  /\ signtx < MaxSignTx
  /\ signtx' = signtx + 1
  /\ coin' \in Coins
  /\ inputs_count' \in 1 .. MaxInputs
  /\ outputs_count' \in 1 .. MaxOutputs
  /\ (inputs_count' + outputs_count') % CountMod >= inputs_count'
  /\ signing' = TRUE /\ signing_stage' = "REQUEST_1_INPUT"
  /\ idx1' = 0 /\ next_nonsegwit_input' = NoLegacyInput
  /\ to_spend' = 0 /\ authorized_amount' = 0 /\ spending' = 0
  /\ change_spend' = 0
  /\ in_address_n' = Unset /\ multisig_fp' = NoFingerprint
  /\ is_segwit' = FALSE /\ root' = "master"
  /\ input' = NoPrevout /\ hasher' = <<>>
  /\ resp' = <<"TxRequest">>
  /\ shown' = <<>> /\ ledger' = <<>> /\ approved' = NotApproved /\ sigs' = <<>>
  /\ UNCHANGED <<idx2, tp, ti, hash_check, hash_outputs>>

\* SignTx refused by CHECK_PARAM (no inputs or outputs, or their sum wraps)
\* or by the PIN dialog; an open session survives a refusal.
RefuseSignTx ==
  /\ resp' = <<"Failure">>
  /\ UNCHANGED <<control, session, money, wallet, root, input, tp, ti,
                 digests, history, signtx>>

\* Cancel and Initialize, and TxAck when no session is open.
CancelOrInitialize == \E r \in {"Failure", "Features"} : Fail(r)
TxAckNotSigning == ~signing /\ Fail("Failure")

\* Another request for a key (GetPublicKey, GetAddress, SignMessage, ...): it
\* calls fsm_getDerivedNode, which overwrites the static node.
OtherKeyRequest ==
  /\ OtherMessages
  /\ root' \in {"master", "child"}
  /\ resp' = <<"PublicKey">>
  /\ UNCHANGED <<control, session, money, wallet, input, tp, ti, digests,
                 history, signtx>>

-----------------------------------------------------------------------------
(* Phase 1: inputs and the amounts they are worth.                         *)

PathOf(path) == [len |-> path.len, account |-> path.account]

\* extract_input_bip32_path: BIP32_WALLET_DEPTH is 2.
NextAddressN(path) ==
  IF path.len >= 2 /\ in_address_n \in {Unset, PathOf(path)}
  THEN PathOf(path) ELSE NoChangeAllowed

Fingerprintable(m) == m.multisig # BadMultisig \/ multisig_fp = Mismatch

\* The first half of signing_check_input.
NextFingerprint(m) ==
  IF m.multisig # SingleSig /\ multisig_fp \in {NoFingerprint, m.multisig}
  THEN m.multisig ELSE Mismatch

HashedInput(m) == [prevout |-> m.prevout, kind |-> m.kind]

\* signing_check_input.  Its caller ignores the result: when it has failed and
\* closed the session, the handler still goes on and sends a second reply.
signing_check_input(m) ==
  IF Fingerprintable(m)
  THEN /\ in_address_n' = NextAddressN(m.path)
       /\ multisig_fp' = NextFingerprint(m)
       /\ signing' = signing
  ELSE /\ signing' = FALSE
       /\ UNCHANGED <<in_address_n, multisig_fp>>
HashAfter(m) ==
  IF Fingerprintable(m) THEN Append(hasher, HashedInput(m)) ELSE hasher
CheckedReply(m, r) == IF Fingerprintable(m) THEN <<r>> ELSE <<"Failure", r>>

\* phase1_request_next_input, with h the digest of the inputs so far.
phase1_request_next_input(h) ==
  \/ /\ idx1 < inputs_count - 1
     /\ idx1' = idx1 + 1
     /\ signing_stage' = "REQUEST_1_INPUT"
     /\ hasher' = h
     /\ UNCHANGED hash_check
  \/ /\ idx1 >= inputs_count - 1
     /\ idx1' = 0
     /\ signing_stage' = "REQUEST_3_OUTPUT"
     /\ hasher' = <<>>
     /\ hash_check' = h

\* Does this input's amount come with it, or from its previous transaction?
AmountInMessage(m) == IsSegwit(m) \/ (IsLegacy(m) /\ coin.force_bip143)
Refused1(m) ==
  \/ m.kind = "EXTERNAL"
  \/ IsSegwit(m) /\ ~coin.has_segwit
  \/ AmountInMessage(m) /\ ~m.hasAmount
  \/ AmountInMessage(m) /\ Wrap(to_spend + m.amount) < to_spend

\* STAGE_REQUEST_1_INPUT, the input is refused.
RefuseInput(m) ==
  /\ AtStage("REQUEST_1_INPUT")
  /\ Refused1(m)
  /\ signing' = FALSE
  /\ resp' = CheckedReply(m, "Failure")
  /\ UNCHANGED <<signing_stage, idx1, idx2, next_nonsegwit_input, session,
                 money, wallet, root, input, tp, ti, digests, history, signtx>>

\* STAGE_REQUEST_1_INPUT, segwit input or coin that signs amounts (BIP 143).
CheckInputWithAmount(m) ==
  /\ AtStage("REQUEST_1_INPUT")
  /\ AmountInMessage(m) /\ ~Refused1(m)
  /\ signing_check_input(m)
  /\ to_spend' = Wrap(to_spend + m.amount)
  /\ authorized_amount' = Wrap(authorized_amount + m.amount)
  /\ is_segwit' = (is_segwit \/ IsSegwit(m))
  /\ input' = IF IsLegacy(m) THEN m.prevout ELSE input
  /\ ledger' = Append(ledger, [prevout |-> m.prevout, amount |-> m.amount,
                               streamed |-> FALSE])
  /\ phase1_request_next_input(HashAfter(m))
  /\ resp' = CheckedReply(m, "TxRequest")
  /\ UNCHANGED <<idx2, next_nonsegwit_input, session, spending, change_spend,
                 root, tp, ti, hash_outputs, shown, approved, sigs, signtx>>

\* STAGE_REQUEST_1_INPUT, legacy input: its previous transaction is needed.
CheckInputLegacy(m) ==
  /\ AtStage("REQUEST_1_INPUT")
  /\ IsLegacy(m) /\ ~coin.force_bip143
  /\ signing_check_input(m)
  /\ input' = m.prevout
  /\ next_nonsegwit_input' = IF next_nonsegwit_input = NoLegacyInput
                             THEN idx1 ELSE next_nonsegwit_input
  /\ signing_stage' = "REQUEST_2_PREV_META"
  /\ hasher' = HashAfter(m)
  /\ resp' = CheckedReply(m, "TxRequest")
  /\ UNCHANGED <<idx1, idx2, session, money, is_segwit, root, tp, ti,
                 hash_check, hash_outputs, history, signtx>>

\* STAGE_REQUEST_2_PREV_META.
PrevMeta(meta) ==
  /\ AtStage("REQUEST_2_PREV_META")
  /\ \/ /\ \/ meta.outs <= input.index
           \/ (meta.ins + meta.outs) % CountMod < meta.ins
        /\ Fail("Failure")
     \/ /\ meta.outs > input.index
        /\ (meta.ins + meta.outs) % CountMod >= meta.ins
        /\ tp' = [ins |-> meta.ins, outs |-> meta.outs, extra |-> meta.extra,
                  received |-> 0,
                  same |-> /\ meta.ins = PrevTx[input.hash].ins
                           /\ meta.outs = Len(PrevTx[input.hash].outs)
                           /\ meta.extra = PrevTx[input.hash].extra]
        /\ idx2' = 0
        /\ signing_stage' = IF meta.ins > 0 THEN "REQUEST_2_PREV_INPUT"
                            ELSE "REQUEST_2_PREV_OUTPUT"
        /\ resp' = <<"TxRequest">>
        /\ UNCHANGED <<signing, idx1, next_nonsegwit_input, session, money,
                       wallet, root, input, ti, digests, history, signtx>>

\* STAGE_REQUEST_2_PREV_INPUT; `same' tells whether it is the real one.
PrevInput(same) ==
  /\ AtStage("REQUEST_2_PREV_INPUT")
  /\ tp' = [tp EXCEPT !.same = @ /\ same]
  /\ idx2' = IF idx2 < tp.ins - 1 THEN idx2 + 1 ELSE 0
  /\ signing_stage' = IF idx2 < tp.ins - 1 THEN "REQUEST_2_PREV_INPUT"
                      ELSE "REQUEST_2_PREV_OUTPUT"
  /\ resp' = <<"TxRequest">>
  /\ UNCHANGED <<signing, idx1, next_nonsegwit_input, session, money, wallet,
                 root, input, ti, digests, history, signtx>>

\* Is the claimed amount the one of this output of the real transaction?
RealAmount(amount) ==
  /\ idx2 < Len(PrevTx[input.hash].outs)
  /\ amount = PrevTx[input.hash].outs[idx2 + 1]

\* A mistake the runs must notice: the hash is not compared.
PrevtxHashUnchecked(same) ==
  /\ same \in BOOLEAN
  /\ phase1_request_next_input(hasher)
  /\ UNCHANGED <<signing, idx2, next_nonsegwit_input>>

\* signing_check_prevtx_hash, for a stream that is the real one iff `same'.
signing_check_prevtx_hash(same) ==
  /\ same
  /\ phase1_request_next_input(hasher)
  /\ UNCHANGED <<signing, idx2, next_nonsegwit_input>>

\* STAGE_REQUEST_2_PREV_OUTPUT.  The wanted output's amount is counted before
\* the hash that vouches for it can be checked.
PrevOutput(amount, same) ==
  /\ AtStage("REQUEST_2_PREV_OUTPUT")
  /\ LET wanted == idx2 = input.index
         good == tp.same /\ same /\ RealAmount(amount)
         last == idx2 >= tp.outs - 1
     IN
     \/ /\ \/ wanted /\ Wrap(to_spend + amount) < to_spend
           \/ last /\ tp.extra = 0 /\ ~good
        /\ Fail("Failure")
     \/ /\ wanted => Wrap(to_spend + amount) >= to_spend
        /\ to_spend' = IF wanted THEN Wrap(to_spend + amount) ELSE to_spend
        /\ ledger' = IF wanted
                     THEN Append(ledger, [prevout |-> input, amount |-> amount,
                                          streamed |-> TRUE])
                     ELSE ledger
        /\ tp' = [tp EXCEPT !.same = good]
        /\ \/ /\ ~last
              /\ idx2' = idx2 + 1
              /\ UNCHANGED <<signing, signing_stage, idx1, hasher, hash_check,
                             next_nonsegwit_input>>
           \/ /\ last /\ tp.extra > 0
              /\ signing_stage' = "REQUEST_2_PREV_EXTRADATA"
              /\ UNCHANGED <<signing, idx1, idx2, hasher, hash_check,
                             next_nonsegwit_input>>
           \/ /\ last /\ tp.extra = 0
              /\ signing_check_prevtx_hash(good)
        /\ resp' = <<"TxRequest">>
        /\ UNCHANGED <<session, authorized_amount, spending, change_spend,
                       wallet, root, input, ti, hash_outputs, shown, approved,
                       sigs, signtx>>

\* tx_serialize_extra_data_hash refuses an empty chunk and excess bytes.
EmptyChunkAccepted(size) == tp.received + size > tp.extra   \* a mistake
ChunkRefused(size) == size = 0 \/ tp.received + size > tp.extra

\* STAGE_REQUEST_2_PREV_EXTRADATA, a chunk of `size' bytes.
PrevExtraData(size, same) ==
  /\ AtStage("REQUEST_2_PREV_EXTRADATA")
  /\ LET received == tp.received + size
         good == tp.same /\ same
     IN
     \/ /\ ChunkRefused(size) \/ (received = tp.extra /\ ~good)
        /\ Fail("Failure")
     \/ /\ ~ChunkRefused(size)
        /\ tp' = [tp EXCEPT !.received = received, !.same = good]
        /\ \/ /\ received < tp.extra
              /\ UNCHANGED <<control, hasher, hash_check>>
           \/ /\ received = tp.extra
              /\ signing_check_prevtx_hash(good)
        /\ resp' = <<"TxRequest">>
        /\ UNCHANGED <<session, money, wallet, root, input, ti, hash_outputs,
                       history, signtx>>

-----------------------------------------------------------------------------
(* Phase 1: outputs and confirmations.                                     *)

HasPath(o) == o.path.len > 0

\* check_change_bip32_path: equal length and account prefix imply that the
\* inputs' path is neither unset nor NoChangeAllowed.
check_change_bip32_path(o) ==
  /\ o.path.len >= 2
  /\ in_address_n = PathOf(o.path)
  /\ o.path.inRange

\* The first half of signing_check_output.
IsChange(o) ==
  /\ HasPath(o)
  /\ o.multisig # SingleSig => o.multisig = multisig_fp
  /\ check_change_bip32_path(o)
  /\ o.kind = "PAYTOWITNESS" => o.amount <= authorized_amount

EveryChangeSkips(o) == IsChange(o)   \* a mistake
\* change_spend = 0 stands for "no change output seen yet".
SkipsConfirmation(o) == IsChange(o) /\ change_spend = 0

\* compile_output: the script is an OP_RETURN, or pays to the key the path
\* leads to, or to the address.  It fails if there is nothing to pay to.
Compiles(o) == o.kind = "PAYTOOPRETURN" \/ HasPath(o) \/ o.address # NoAddress
compile_output(o) ==
  [amount |-> o.amount,
   script |-> IF o.kind = "PAYTOOPRETURN" THEN <<"opreturn">>
              ELSE IF HasPath(o) THEN Key(o.path) ELSE <<"address", o.address>>]

RefusedOutput(o) ==
  \/ HasPath(o) /\ o.address # NoAddress
  \/ Wrap(spending + o.amount) < spending
  \/ ~Compiles(o)

\* phase2_request_next_input for input i, next being next_nonsegwit_input.
phase2_request_next_input(i, next) ==
  IF i = next
  THEN idx2' = 0 /\ signing_stage' = "REQUEST_4_INPUT"
  ELSE idx2' = idx2 /\ signing_stage' = "REQUEST_SEGWIT_INPUT"

\* STAGE_REQUEST_3_OUTPUT: the output is refused, or the user refuses it or,
\* after the last output, the fee or the transaction.
RefuseOutput(o) ==
  /\ AtStage("REQUEST_3_OUTPUT")
  /\ LET last == idx1 >= outputs_count - 1
     IN \/ RefusedOutput(o) /\ Fail("Failure")
        \/ /\ ~RefusedOutput(o)
           /\ ~SkipsConfirmation(o) \/ (last /\ Wrap(spending + o.amount) <= to_spend)
           /\ \E r \in {"Failure", "Features"} : Fail(r)
        \/ ~RefusedOutput(o) /\ last /\ Wrap(spending + o.amount) > to_spend
           /\ Fail("Failure")

\* STAGE_REQUEST_3_OUTPUT: the output is good and the user confirms it unless
\* it is change; after the last one the user confirms the fee and the total.
CheckOutput(o) ==
  /\ AtStage("REQUEST_3_OUTPUT")
  /\ ~RefusedOutput(o)
  /\ spending' = Wrap(spending + o.amount)
  /\ change_spend' = IF SkipsConfirmation(o) THEN o.amount ELSE change_spend
  /\ shown' = Append(shown, [amount |-> o.amount,
                             script |-> compile_output(o).script,
                             confirmed |-> ~SkipsConfirmation(o)])
  /\ hasher' = Append(hasher, compile_output(o))
  /\ \/ /\ idx1 < outputs_count - 1
        /\ idx1' = idx1 + 1
        /\ UNCHANGED <<signing_stage, idx2, hash_outputs, approved>>
     \/ /\ idx1 >= outputs_count - 1
        /\ hash_outputs' = hasher'
        /\ spending' <= to_spend
        /\ approved' = [outs |-> hasher', amount |-> to_spend - change_spend',
                        fee |-> to_spend - spending']
        /\ idx1' = 0
        /\ phase2_request_next_input(0, next_nonsegwit_input)
  /\ resp' = <<"TxRequest">>
  /\ UNCHANGED <<signing, next_nonsegwit_input, session, to_spend,
                 authorized_amount, wallet, root, input, tp, ti, hash_check,
                 ledger, sigs, signtx>>

-----------------------------------------------------------------------------
(* Phases 2 and 3: signatures.                                             *)

\* compile_input_script_sig: the input still belongs to the same multisig and
\* the same account as in phase 1.
compile_input_script_sig(m) ==
  /\ multisig_fp # Mismatch =>
       /\ m.multisig \notin {SingleSig, BadMultisig}
       /\ m.multisig = multisig_fp
  /\ in_address_n # NoChangeAllowed =>
       m.path.len >= 2 /\ in_address_n = PathOf(m.path)

\* phase2_request_next_input after input idx1, or the outputs again.
NextToSign ==
  \/ /\ idx1 < inputs_count - 1
     /\ idx1' = idx1 + 1
     /\ phase2_request_next_input(idx1 + 1, next_nonsegwit_input)
  \/ /\ idx1 >= inputs_count - 1
     /\ idx1' = 0 /\ idx2' = idx2
     /\ signing_stage' = "REQUEST_5_OUTPUT"

\* The digests of phase 2 are compared with those of phase 1.
CountsCompared(h) == Len(h) = inputs_count         \* a mistake
InputsMatch(h) == h = hash_check
LastOutputForgotten(h) ==                          \* a mistake
  Len(h) = Len(hash_outputs)
OutputsMatch(h) == h = hash_outputs

\* The chain of legacy inputs: the first one after the one being signed.
ChainTurnsBack(m) ==                               \* a mistake
  IF next_nonsegwit_input = idx1 /\ IsLegacy(m) THEN idx2 ELSE next_nonsegwit_input
NextLegacyInput(m) ==
  IF next_nonsegwit_input = idx1 /\ idx2 > idx1 /\ IsLegacy(m)
  THEN idx2 ELSE next_nonsegwit_input

\* STAGE_REQUEST_4_INPUT: input idx2 goes into the digest for input idx1.
SignInputPart(m) ==
  /\ AtStage("REQUEST_4_INPUT")
  /\ LET before == IF idx2 = 0 THEN <<>> ELSE hasher
         checked == Append(before, HashedInput(m))
         last == idx2 >= inputs_count - 1
     IN
     \/ /\ \/ idx2 = idx1 /\ ~compile_input_script_sig(m)
           \/ last /\ ~InputsMatch(checked)
        /\ Fail("Failure")
     \/ /\ idx2 = idx1 => compile_input_script_sig(m)
        /\ last => InputsMatch(checked)
        /\ hasher' = IF last THEN <<>> ELSE checked
        /\ ti' = [ins |-> Append(IF idx2 = 0 THEN <<>> ELSE ti.ins, m.prevout),
                  outs |-> <<>>,
                  key |-> IF idx2 = idx1 THEN Key(m.path) ELSE ti.key]
        /\ input' = IF idx2 = idx1 THEN m.prevout ELSE input
        /\ next_nonsegwit_input' = NextLegacyInput(m)
        /\ idx2' = IF last THEN 0 ELSE idx2 + 1
        /\ signing_stage' = IF last THEN "REQUEST_4_OUTPUT" ELSE "REQUEST_4_INPUT"
        /\ resp' = <<"TxRequest">>
        /\ UNCHANGED <<signing, idx1, session, money, wallet, root, tp,
                       hash_check, hash_outputs, history, signtx>>

\* STAGE_REQUEST_4_OUTPUT: output idx2 goes into the digest; after the last
\* one signing_sign_input compares the outputs with phase 1 and signs.
SignOutputPart(o) ==
  /\ AtStage("REQUEST_4_OUTPUT")
  /\ LET checked == Append(hasher, compile_output(o))
         digest == Append(ti.outs, compile_output(o))
         last == idx2 >= outputs_count - 1
     IN
     \/ /\ ~Compiles(o) \/ (last /\ ~OutputsMatch(checked))
        /\ Fail("Failure")
     \/ /\ Compiles(o)
        /\ last => OutputsMatch(checked)
        /\ hasher' = checked
        /\ ti' = [ti EXCEPT !.outs = digest]
        /\ \/ /\ ~last
              /\ idx2' = idx2 + 1
              /\ UNCHANGED <<signing_stage, idx1, sigs>>
           \/ /\ last
              /\ sigs' = Append(sigs, [form |-> "legacy", idx |-> idx1,
                                       ins |-> ti.ins, prevout |-> ti.ins[idx1 + 1],
                                       amount |-> 0, outs |-> digest,
                                       key |-> ti.key])
              /\ NextToSign
        /\ resp' = <<"TxRequest">>
        /\ UNCHANGED <<signing, next_nonsegwit_input, session, money, wallet,
                       root, input, tp, hash_check, hash_outputs, shown, ledger,
                       approved, signtx>>

Prevouts1 == [i \in DOMAIN hash_check |-> hash_check[i].prevout]

\* Mistakes the runs must notice: the budget is not charged, and the outputs
\* are taken from the running digest.
BudgetNotCharged(m) ==
  /\ authorized_amount' = authorized_amount
  /\ hasher' = <<>>
  /\ sigs' = Append(sigs, [form |-> "bip143", idx |-> idx1, ins |-> Prevouts1,
                           prevout |-> m.prevout, amount |-> m.amount,
                           outs |-> hash_outputs, key |-> Key(m.path)])
RunningOutputsSigned(m) ==
  /\ authorized_amount' = authorized_amount - m.amount
  /\ hasher' = <<>>
  /\ sigs' = Append(sigs, [form |-> "bip143", idx |-> idx1, ins |-> Prevouts1,
                           prevout |-> m.prevout, amount |-> m.amount,
                           outs |-> hasher, key |-> Key(m.path)])

\* signing_hash_bip143 and signing_sign_hash for input idx1: the digest has
\* the prevouts and outputs of phase 1, the amount as given now.
signing_hash_bip143(m) ==
  /\ authorized_amount' = authorized_amount - m.amount
  /\ hasher' = <<>>
  /\ sigs' = Append(sigs, [form |-> "bip143", idx |-> idx1, ins |-> Prevouts1,
                           prevout |-> m.prevout, amount |-> m.amount,
                           outs |-> hash_outputs, key |-> Key(m.path)])
BudgetUnchecked(m) == compile_input_script_sig(m)   \* a mistake
MayHashBip143(m) == compile_input_script_sig(m) /\ m.amount <= authorized_amount

\* STAGE_REQUEST_SEGWIT_INPUT: serialise a segwit input, or sign a legacy one
\* of a coin that signs amounts.
SegwitInput(m) ==
  /\ AtStage("REQUEST_SEGWIT_INPUT")
  /\ LET signs == IsLegacy(m) /\ coin.force_bip143 /\ MayHashBip143(m)
         serializes ==
           \/ m.kind \in {"SPENDWITNESS", "EXTERNAL"}
           \/ m.kind = "SPENDP2SHWITNESS" /\ IF m.multisig = SingleSig
                                             THEN compile_input_script_sig(m)
                                             ELSE m.multisig # BadMultisig
     IN
     \/ ~signs /\ ~serializes /\ Fail("Failure")
     \/ /\ \/ signs /\ signing_hash_bip143(m)
           \/ serializes /\ UNCHANGED <<authorized_amount, hasher, sigs>>
        /\ NextToSign
        /\ resp' = <<"TxRequest">>
        /\ UNCHANGED <<signing, next_nonsegwit_input, session, to_spend,
                       spending, change_spend, wallet, root, input, tp, ti,
                       hash_check, hash_outputs, shown, ledger, approved, signtx>>

\* send_req_finished and signing_abort.
Finish == signing' = FALSE /\ resp' = <<"TxFinished">> /\ UNCHANGED <<signing_stage, idx1>>

\* STAGE_REQUEST_5_OUTPUT: serialise the outputs.
SerializeOutput(o) ==
  /\ AtStage("REQUEST_5_OUTPUT")
  /\ \/ ~Compiles(o) /\ Fail("Failure")
     \/ /\ Compiles(o)
        /\ \/ /\ idx1 < outputs_count - 1
              /\ idx1' = idx1 + 1
              /\ resp' = <<"TxRequest">>
              /\ UNCHANGED <<signing, signing_stage>>
           \/ /\ idx1 >= outputs_count - 1 /\ is_segwit
              /\ idx1' = 0
              /\ signing_stage' = "REQUEST_SEGWIT_WITNESS"
              /\ resp' = <<"TxRequest">>
              /\ UNCHANGED signing
           \/ idx1 >= outputs_count - 1 /\ ~is_segwit /\ Finish
        /\ UNCHANGED <<idx2, next_nonsegwit_input, session, money, wallet, root,
                       input, tp, ti, digests, history, signtx>>

\* STAGE_REQUEST_SEGWIT_WITNESS: sign a segwit input; others have no witness.
SegwitWitness(m) ==
  /\ AtStage("REQUEST_SEGWIT_WITNESS")
  /\ \/ IsSegwit(m) /\ ~MayHashBip143(m) /\ Fail("Failure")
     \/ /\ \/ IsSegwit(m) /\ MayHashBip143(m) /\ signing_hash_bip143(m)
           \/ ~IsSegwit(m) /\ UNCHANGED <<authorized_amount, hasher, sigs>>
        /\ \/ /\ idx1 < inputs_count - 1
              /\ idx1' = idx1 + 1
              /\ resp' = <<"TxRequest">>
              /\ UNCHANGED <<signing, signing_stage>>
           \/ idx1 >= inputs_count - 1 /\ Finish
        /\ UNCHANGED <<idx2, next_nonsegwit_input, session, to_spend, spending,
                       change_spend, wallet, root, input, tp, ti, hash_check,
                       hash_outputs, shown, ledger, approved, signtx>>

TxAck ==
  \/ \E m \in InputMsgs : \/ RefuseInput(m) \/ CheckInputWithAmount(m)
                          \/ CheckInputLegacy(m) \/ SignInputPart(m)
                          \/ SegwitInput(m) \/ SegwitWitness(m)
  \/ \E meta \in MetaMsgs : PrevMeta(meta)
  \/ \E same \in BOOLEAN : PrevInput(same)
  \/ \E amount \in PrevAmounts, same \in BOOLEAN : PrevOutput(amount, same)
  \/ \E size \in 0 .. 2, same \in BOOLEAN : PrevExtraData(size, same)
  \/ \E o \in OutputMsgs : RefuseOutput(o) \/ CheckOutput(o)
                           \/ SignOutputPart(o) \/ SerializeOutput(o)

Next ==
  \/ signing_init \/ RefuseSignTx
  \/ CancelOrInitialize \/ TxAckNotSigning
  \/ OtherKeyRequest
  \/ TxAck

Spec == Init /\ [][Next]_vars
\* The host answers every TxRequest, and the firmware handles each answer.
FairSpec == Spec /\ WF_vars(TxAck)

-----------------------------------------------------------------------------
(* Properties.                                                             *)

Nodes == {"master", "child"}
Replies == {"TxRequest", "TxFinished", "Failure", "Features", "PublicKey"}
Scripts == {<<"opreturn">>} \cup ({"address"} \X Addresses) \cup (Nodes \X Paths)
BinOutputs == [amount : Amounts, script : Scripts]
HashedInputs == [prevout : Prevouts, kind : InputKinds]
ShownOutputs == [amount : Amounts, script : Scripts, confirmed : BOOLEAN]
Stages == {"REQUEST_1_INPUT", "REQUEST_2_PREV_META", "REQUEST_2_PREV_INPUT",
           "REQUEST_2_PREV_OUTPUT", "REQUEST_2_PREV_EXTRADATA",
           "REQUEST_3_OUTPUT", "REQUEST_4_INPUT", "REQUEST_4_OUTPUT",
           "REQUEST_SEGWIT_INPUT", "REQUEST_5_OUTPUT", "REQUEST_SEGWIT_WITNESS"}
Phase1Stages == {"REQUEST_1_INPUT", "REQUEST_2_PREV_META",
                 "REQUEST_2_PREV_INPUT", "REQUEST_2_PREV_OUTPUT",
                 "REQUEST_2_PREV_EXTRADATA", "REQUEST_3_OUTPUT"}
Phase2Stages == Stages \ Phase1Stages

\* The static variables of signing.c stay within their ranges; amounts never
\* leave their 64 bits and indices stay below the counts.
TypeOK ==
  /\ signing \in BOOLEAN /\ signing_stage \in Stages
  /\ coin \in Coins
  /\ inputs_count \in Nat /\ outputs_count \in Nat
  /\ idx1 \in Nat /\ idx2 \in Nat
  /\ signing => inputs_count > 0 /\ outputs_count > 0
  /\ next_nonsegwit_input \in Nat \cup {NoLegacyInput}
  /\ to_spend \in Amounts /\ authorized_amount \in Amounts
  /\ spending \in Amounts /\ change_spend \in Amounts
  /\ in_address_n \in [len : Nat, account : Accounts] \cup {Unset, NoChangeAllowed}
  /\ multisig_fp \in Fingerprints \cup {NoFingerprint, Mismatch}
  /\ is_segwit \in BOOLEAN /\ root \in Nodes
  /\ input = NoPrevout \/ input \in Prevouts
  /\ tp \in [ins : Nat, outs : Nat, extra : Nat, received : Nat, same : BOOLEAN]
  /\ hasher \in Seq(HashedInputs \cup BinOutputs)
  /\ shown \in Seq(ShownOutputs)
  /\ resp \in Seq(Replies)
  /\ signtx \in Nat

\* The outputs of phase 1 as they are hashed.
ShownOuts == [i \in DOMAIN shown |-> [amount |-> shown[i].amount,
                                     script |-> shown[i].script]]

\* No signature leaves the device unless the user has confirmed the
\* transaction in this session, and it covers exactly the outputs of phase 1,
\* each shown or skipped by signing_check_output, whatever the host streamed
\* afterwards.
SignedOutputsWereApproved ==
  \A k \in DOMAIN sigs :
    /\ approved # NotApproved
    /\ sigs[k].outs = approved.outs
    /\ approved.outs = ShownOuts

\* Every signature covers exactly the inputs, in their order, whose amounts
\* the confirmed fee was computed from; a legacy signature is for its own one.
SignedInputsWereAccounted ==
  \A k \in DOMAIN sigs :
    /\ sigs[k].ins = [i \in DOMAIN ledger |-> ledger[i].prevout]
    /\ sigs[k].form = "legacy" => sigs[k].prevout = ledger[sigs[k].idx + 1].prevout

\* The amount and the fee the user confirms are what the counted inputs leave
\* after the outputs: the amount is the fee plus every output that was shown,
\* even when several change outputs were skipped; nothing wrapped.
ConfirmedAmountsAddUp ==
  approved # NotApproved =>
    /\ approved.fee >= 0
    /\ approved.fee = Total(ledger) - Total(approved.outs)
    /\ approved.amount = approved.fee
                         + SumOf([i \in DOMAIN shown |-> IF shown[i].confirmed
                                                         THEN shown[i].amount ELSE 0])

\* When a previous transaction had to be streamed, the amount counted for the
\* input is the real one, although it is added before the hash is checked.
StreamedAmountsAreReal ==
  signing /\ signing_stage \in {"REQUEST_1_INPUT", "REQUEST_3_OUTPUT"} \cup Phase2Stages =>
    \A i \in DOMAIN ledger : LET e == ledger[i] IN
      e.streamed => e.amount = PrevTx[e.prevout.hash].outs[e.prevout.index + 1]

\* The amounts in BIP 143 signatures and the amount still authorized add up to
\* what phase 1 counted for inputs that brought their amount along.
Bip143Total == SumOf([k \in DOMAIN sigs |-> IF sigs[k].form = "bip143"
                                             THEN sigs[k].amount ELSE 0])
BroughtTotal == SumOf([i \in DOMAIN ledger |-> IF ledger[i].streamed
                                               THEN 0 ELSE ledger[i].amount])
SegwitBudget == signing => authorized_amount + Bip143Total = BroughtTotal

\* When the device says it has finished, every input whose previous
\* transaction was streamed has exactly one legacy signature and no other
\* input has one: the chain of next_nonsegwit_input misses none.
LegacyInputsSignedOnce ==
  resp = <<"TxFinished">> =>
    \A i \in DOMAIN ledger :
      Cardinality({k \in DOMAIN sigs : sigs[k].form = "legacy" /\ sigs[k].idx = i - 1})
        = IF ledger[i].streamed THEN 1 ELSE 0

\* A host that keeps answering ends the session: every answer is progress.
SessionEnds == signing ~> ~signing

\* An output that is not shown pays to a key of this wallet: it is derived
\* from the master node ("change addresses must use the same bip32 path as all
\* inputs").
UnshownOutputsReturnToWallet ==
  \A i \in DOMAIN shown : ~shown[i].confirmed => shown[i].script[1] = "master"

-----------------------------------------------------------------------------
\* What signing promises: it releases only signatures for what was approved.
Promise == INSTANCE SigningPromise WITH released <- sigs, NotApproved <- NotApproved
PromiseKept == Promise!Spec
=============================================================================
