------------------------------ MODULE Handlers ------------------------------
(***************************************************************************)
(* The message handlers of fsm.c, from the request to its answer.          *)
(*                                                                         *)
(* A handler is a straight sequence of checks, dialogs and effects, each   *)
(* of which may end it with a failure.  Here it is the sequence of its     *)
(* steps, one operator per handler; the actions below run the steps, one   *)
(* action per kind of step, so that a new handler is a new sequence.  A    *)
(* dialog is one step with its outcomes: yes, no (or Cancel), Initialize.  *)
(*                                                                         *)
(* frames is the stack of handlers that run.  There is one, but for the    *)
(* "Waking up" of a stored node, whose usbSleep polls outside tiny mode:   *)
(* a packet that arrives there is appended to the message in progress,     *)
(* and msg_read_common handles that message once more, inside the first.   *)
(*                                                                         *)
(* The handlers that begin a workflow (SignTx, EthereumSignTx,             *)
(* ResetDevice, RecoveryDevice, ...) are in the modules of these; what the *)
(* storage and the crypto memory do is in Vault and Storage.               *)
(***************************************************************************)
EXTENDS Nem

CONSTANTS
  Requests,      \* what the host may ask
  MaxNesting     \* bound: handlers inside handlers
Types == {"GetFeatures", "Initialize", "ClearSession", "ApplyFlags", "Ping", "ChangePin",
          "WipeDevice", "GetEntropy", "GetPublicKey", "LoadDevice", "CipherKeyValue",
          "ApplySettings", "GetAddress", "EthereumGetAddress", "EthereumSignMessage",
          "EthereumVerifyMessage", "SignMessage", "VerifyMessage", "SignIdentity",
          "GetECDHSessionKey", "SetU2FCounter", "NEMGetAddress", "NEMSignTx",
          "NEMDecryptMessage", "CosiCommit", "CosiSign"}
Devices(has) == [has : has, pin : BOOLEAN, passphrase : BOOLEAN]
\* A request has a type, and the fields that its handler looks at.
ASSUME HandlersAssumption ==
  /\ MaxNesting \in Nat \ {0}
  /\ \A r \in Requests :
       /\ r.type \in Types
       /\ r.type = "ApplySettings" => r.settings \in Seq(STRING)
       /\ r.type = "LoadDevice" => r.device \in Devices({"none", "mnemonic", "node"})
       /\ r.type = "NEMSignTx" => r.tx \in Transactions

VARIABLES
  device,        \* what the storage says
  session,       \* what the session has cached
  aborted,       \* protectAbortedByInitialize
  request,       \* msg_data: the message that is handled
  frames,        \* the handlers that run, the innermost last
  node,          \* the static node of fsm_getDerivedNode
  screen,        \* what the display shows
  last           \* history: the handler that returned last
vars == <<device, session, aborted, request, frames, node, screen, last>>

NoRequest == [type |-> "none"]
Nothing == [request |-> NoRequest, answers |-> <<>>, handled |-> 0]
Empty == [has |-> "none", pin |-> FALSE, passphrase |-> FALSE]
NoSession == [pin |-> FALSE, passphrase |-> "none", seed |-> FALSE]
Plain == [decrypted |-> 0, derived |-> 0]

storage_isInitialized == device.has # "none"
session_clear(clear_pin) == [NoSession EXCEPT !.pin = session.pin /\ ~clear_pin]

-----------------------------------------------------------------------------
(* The steps.                                                              *)

Step(op) == [op |-> op]
Check(b) == [op |-> "Check", holds |-> b]
Ask(shows) == [op |-> "Ask", shows |-> shows, only |-> FALSE]
Confirm(shows) == [op |-> "Ask", shows |-> shows, only |-> TRUE]
Address(qrcode) == [op |-> "Address", qrcode |-> qrcode]
ShowAddress == Address(FALSE)
Pin(use_cached) == [op |-> "Pin", use_cached |-> use_cached]
Answer(what) == [op |-> "Answer", what |-> what, home |-> TRUE]
AnswerOnly(what) == [op |-> "Answer", what |-> what, home |-> FALSE]
Fail == [op |-> "Failure", home |-> TRUE]
FailOnly == [op |-> "Failure", home |-> FALSE]
Build(loud) == [op |-> "Build", loud |-> loud]
Node(secp256k1) == [op |-> "Node", secp256k1 |-> secp256k1]
Initialized == Step("Initialized")
Passphrase == Step("Passphrase")
Hash == Step("Hash")
Own == Answer("own")
Success == Answer("Success")
Dialogs(s) == [i \in DOMAIN s |-> Ask(s[i])]

-----------------------------------------------------------------------------
(* The handlers.                                                           *)

fsm_msgPing(r) ==
  When(r.button, <<Ask(Parts({"ping"}))>>) \o When(r.pin, <<Pin(TRUE)>>)
  \o When(r.passphrase, <<Passphrase>>) \o <<Success>>

fsm_msgChangePin(r) ==
  IF r.remove /\ ~device.pin THEN <<AnswerOnly("Success")>>
  ELSE When(~device.pin, <<Initialized>>) \o <<Ask(Parts({"pin"})), Pin(FALSE)>>
       \o <<IF r.remove THEN Step("RemovePin") ELSE Step("NewPin"), Success>>

fsm_msgWipeDevice(r) ==
  When(~r.force, <<Pin(TRUE)>>) \o <<Ask(Parts({"wipe"})), Step("Wipe"), Success>>

fsm_msgGetEntropy == <<Ask(Parts({"entropy"})), Own>>

fsm_msgGetPublicKey(r) ==
  <<Initialized, Pin(TRUE), Check(r.coin), Node(r.secp256k1)>>
  \o When(r.show, <<Confirm(Parts({"address"}))>>) \o <<Own>>

fsm_msgLoadDevice(r) ==
  <<Step("NoPin"), Step("NotInitialized"), Ask(Parts({"load"})), Check(r.checksum),
    Step("Load"), Success>>

fsm_msgCipherKeyValue(r) ==
  <<Initialized, Check(r.params), Pin(TRUE), Node(TRUE)>>
  \o When(IF r.encrypt THEN r.ask_on_encrypt ELSE r.ask_on_decrypt, <<Ask(Parts({"key"}))>>)
  \o <<Own>>

fsm_msgApplySettings(r) ==
  <<Check(r.settings # <<>>), Pin(TRUE)>>
  \o [i \in DOMAIN r.settings |-> Ask(Parts({r.settings[i]}))]
  \o <<Step("ApplySettings"), Success>>

Path(p, script, wanted, n) == script = wanted /\ Len(p) = n
Below(coin, p) == p[2] = coin.type /\ p[3].hard /\ ~p[4].hard /\ ~p[5].hard
path_mismatched(coin, p, script) ==
  LET is(purpose) == p[1] = [n |-> purpose, hard |-> TRUE]
      under(wanted) == Path(p, script, wanted, 5) /\ Below(coin, p)
  IN IF p = <<>> THEN FALSE
     ELSE CASE is(44) -> ~under("SPENDADDRESS")
            [] is(45) -> ~(Path(p, script, "SPENDMULTISIG", 4) /\ \A i \in 2 .. 4 : ~p[i].hard)
            [] is(48) -> ~under("SPENDMULTISIG")
            [] is(49) -> ~(under("SPENDP2SHWITNESS") /\ coin.segwit /\ coin.p2sh)
            [] is(84) -> ~(under("SPENDWITNESS") /\ coin.segwit /\ coin.bech32)
            [] OTHER -> FALSE
fsm_msgGetAddress(r) ==
  <<Initialized, Pin(TRUE), Check(r.coin.known), Node(r.coin.secp256k1), Check(r.encodes)>>
  \o When(r.show, When(path_mismatched(r.coin, r.path, r.script), <<Ask(Parts({"risk"}))>>)
                  \o <<ShowAddress>>)
  \o <<Own>>

fsm_msgEthereumGetAddress(r) ==
  <<Initialized, Pin(TRUE), Node(TRUE), Hash>> \o When(r.show, <<ShowAddress>>) \o <<Own>>
\* ethereum_message_sign answers itself, or fails.
ethereum_message_sign == <<Step("Sign"), Own>>
fsm_msgEthereumSignMessage ==
  <<Initialized, Ask(Parts({"message"})), Pin(TRUE), Node(TRUE)>> \o ethereum_message_sign
Verified == <<Ask(Parts({"address"})), Ask(Parts({"message"})), Success>>
\* A malformed signature is answered by ethereum_message_verify and once more here.
fsm_msgEthereumVerifyMessage(r) ==
  <<Check(r.params)>> \o When(r.malformed, <<Step("Malformed")>>)
  \o IF r.valid THEN Verified ELSE <<FailOnly>>

fsm_msgSignMessage(r) ==
  <<Initialized, Ask(Parts({"message"})), Pin(TRUE), Check(r.coin), Node(r.secp256k1),
    Step("Sign"), Own>>
fsm_msgVerifyMessage(r) ==
  <<Check(r.params), Check(r.coin)>> \o IF r.valid THEN Verified ELSE <<Fail>>

Identity(r) ==
  <<Initialized, Ask(Parts({"identity"})), Pin(TRUE), Check(r.identity), Node(r.secp256k1),
    Step("Sign"), Own>>
fsm_msgSignIdentity(r) == Identity(r)
fsm_msgGetECDHSessionKey(r) == Identity(r)

fsm_msgSetU2FCounter == <<Ask(Parts({"counter"})), Success>>

fsm_msgNEMGetAddress(r) ==
  <<Check(r.network), Initialized, Pin(TRUE), Node(FALSE), Hash>>
  \o When(r.show, <<ShowAddress>>) \o <<Own>>

fsm_msgNEMDecryptMessage(r) ==
  <<Initialized, Check(r.params), Ask(Parts({"sender"})), Pin(TRUE), Node(FALSE), Step("Sign"),
    Ask(Parts({"plaintext"})), Own>>

Cosi(r) ==
  <<Initialized, Check(r.params), Ask(Parts({"data"})), Pin(TRUE), Node(FALSE), Own>>
fsm_msgCosiCommit(r) == Cosi(r)
fsm_msgCosiSign(r) == Cosi(r)

(* A NEM transaction: r.tx is the first of those provided, r.multisig its  *)
(* signer's when it is wrapped in one of another account.                  *)

NemValid(t, creation) ==
  CASE t.kind = "transfer" -> nem_validate_transfer(t)
    [] t.kind = "namespace" -> nem_validate_provision_namespace(t)
    [] t.kind = "mosaic" -> nem_validate_mosaic_creation(t)
    [] t.kind = "supply" -> nem_validate_supply_change(t)
    [] t.kind = "aggregate" -> nem_validate_aggregate_modification(t, creation)
    [] t.kind = "importance" -> nem_validate_importance_transfer(t)
NemAsk(t, creation) ==
  CASE t.kind = "transfer" -> nem_askTransfer(t)
    [] t.kind = "namespace" -> nem_askProvisionNamespace(t)
    [] t.kind = "mosaic" -> nem_askMosaicCreation(t)
    [] t.kind = "supply" -> nem_askSupplyChange(t)
    [] t.kind = "aggregate" -> nem_askAggregateModification(t, creation)
    [] t.kind = "importance" -> nem_askImportanceTransfer(t)
NemWritten(t) ==
  CASE t.kind = "transfer" -> nem_fsmTransfer(t)
    [] t.kind = "namespace" -> nem_fsmProvisionNamespace(t)
    [] t.kind = "mosaic" -> nem_fsmMosaicCreation(t)
    [] t.kind = "supply" -> nem_fsmSupplyChange(t)
    [] t.kind = "aggregate" -> nem_fsmAggregateModification(t)
    [] t.kind = "importance" -> nem_fsmImportanceTransfer(t)
\* A transfer that does not fit answers with a failure; the others just return.
\* The inner transaction of a multisig has no key to encrypt a payload with.
NemBuild(t, multisig) ==
  IF multisig /\ t.kind = "transfer" /\ t.encrypted THEN <<Fail>>
  ELSE <<Build(t.kind = "transfer")>>
Canonical(t) ==
  IF t.kind = "transfer" THEN [t EXCEPT !.mosaics = nem_canonicalizeMosaics(@)] ELSE t

fsm_msgNEMSignTx(r) ==
  LET t == Canonical(r.tx)
  IN <<Check(r.has_transaction), Check(r.provided = 1),
       Check(nem_validate_common(r.transaction, FALSE)), Check(NemValid(r.tx, ~r.has_multisig)),
       IF r.has_multisig
       THEN Check(nem_validate_common(r.multisig, TRUE) /\ r.multisig.network = r.transaction.network)
       ELSE Check(~r.cosigning),
       Initialized, Pin(TRUE)>>
     \o When(r.has_multisig, Dialogs(nem_askMultisig))
     \o <<Node(FALSE)>> \o Dialogs(NemAsk(t, ~r.has_multisig)) \o NemBuild(t, r.has_multisig)
     \o When(r.has_multisig, <<Build(TRUE)>>) \o <<Own>>

Handler(r) ==
  CASE r.type = "GetFeatures" -> <<AnswerOnly("Features")>>
    [] r.type = "Initialize" -> <<Step("Initialize")>>
    [] r.type = "ClearSession" -> <<Step("ClearSession")>>
    [] r.type = "ApplyFlags" -> <<AnswerOnly("Success")>>
    [] r.type = "Ping" -> fsm_msgPing(r)
    [] r.type = "ChangePin" -> fsm_msgChangePin(r)
    [] r.type = "WipeDevice" -> fsm_msgWipeDevice(r)
    [] r.type = "GetEntropy" -> fsm_msgGetEntropy
    [] r.type = "GetPublicKey" -> fsm_msgGetPublicKey(r)
    [] r.type = "LoadDevice" -> fsm_msgLoadDevice(r)
    [] r.type = "CipherKeyValue" -> fsm_msgCipherKeyValue(r)
    [] r.type = "ApplySettings" -> fsm_msgApplySettings(r)
    [] r.type = "GetAddress" -> fsm_msgGetAddress(r)
    [] r.type = "EthereumGetAddress" -> fsm_msgEthereumGetAddress(r)
    [] r.type = "EthereumSignMessage" -> fsm_msgEthereumSignMessage
    [] r.type = "EthereumVerifyMessage" -> fsm_msgEthereumVerifyMessage(r)
    [] r.type = "SignMessage" -> fsm_msgSignMessage(r)
    [] r.type = "VerifyMessage" -> fsm_msgVerifyMessage(r)
    [] r.type = "SignIdentity" -> fsm_msgSignIdentity(r)
    [] r.type = "GetECDHSessionKey" -> fsm_msgGetECDHSessionKey(r)
    [] r.type = "SetU2FCounter" -> fsm_msgSetU2FCounter
    [] r.type = "NEMGetAddress" -> fsm_msgNEMGetAddress(r)
    [] r.type = "NEMSignTx" -> fsm_msgNEMSignTx(r)
    [] r.type = "NEMDecryptMessage" -> fsm_msgNEMDecryptMessage(r)
    [] r.type = "CosiCommit" -> fsm_msgCosiCommit(r)
    [] r.type = "CosiSign" -> fsm_msgCosiSign(r)

-----------------------------------------------------------------------------
(* Running the steps of the innermost handler.                             *)

Top == frames[Len(frames)]
Now(op) == frames # <<>> /\ Top.todo # <<>> /\ Head(Top.todo).op = op
step == Head(Top.todo)
SetTop(f) == frames' = [frames EXCEPT ![Len(frames)] = f]
Goes(todo) == SetTop([Top EXCEPT !.todo = todo])
Rest == Tail(Top.todo)
Proceeds == Goes(Rest)
Fails == Goes(<<Fail>>)
\* The user has seen shows and agreed.
Agrees(shows) == SetTop([Top EXCEPT !.todo = Rest, !.confirmed = @ \cup shows])
\* He, or the host with Cancel, has not.
Refuses == SetTop([Top EXCEPT !.todo = <<Fail>>, !.refused = TRUE])
\* Initialize is what the dialog got.
Abort == aborted' = TRUE /\ Refuses

\* The stored node is used decrypted with the passphrase.
Decrypts == device.has = "node" /\ device.passphrase /\ session.passphrase = "text"

\* msg_write and the end of the handler.
Returns(answers) ==
  /\ last' = [request |-> request, answers |-> answers, confirmed |-> Top.confirmed,
              refused |-> Top.refused, disturbed |-> Top.disturbed, aborted |-> aborted,
              node |-> node, pinned |-> (~device.pin \/ session.pin),
              decrypts |-> Decrypts, handled |-> last.handled + 1]
  /\ frames' = SubSeq(frames, 1, Len(frames) - 1)
  /\ request' = IF Len(frames) = 1 THEN NoRequest ELSE request
Quiet == UNCHANGED <<device, session, aborted, request, node, screen, last>>
Shows == screen' = "dialog" /\ UNCHANGED <<device, request, node, last>>

Frame(r) == [todo |-> Handler(r), confirmed |-> {}, refused |-> FALSE, disturbed |-> FALSE,
             answers |-> <<>>]
Receive(r) ==
  /\ frames = <<>> /\ request' = r /\ frames' = <<Frame(r)>> /\ last' = Nothing
  /\ UNCHANGED <<device, session, aborted, node, screen>>

\* CHECK_PARAM and what fails like it.
CheckParam ==
  /\ Now("Check") /\ Quiet /\ IF step.holds THEN Proceeds ELSE Fails
CHECK_INITIALIZED ==
  /\ Now("Initialized") /\ Quiet /\ IF storage_isInitialized THEN Proceeds ELSE Goes(<<FailOnly>>)
CHECK_NOT_INITIALIZED ==
  /\ Now("NotInitialized") /\ Quiet /\ IF storage_isInitialized THEN Goes(<<FailOnly>>) ELSE Proceeds
CHECK_NO_PIN ==
  /\ Now("NoPin") /\ Quiet /\ IF device.pin THEN Goes(<<FailOnly>>) ELSE Proceeds

\* CHECK_PIN, CHECK_PIN_UNCACHED: protectPin without a dialog.  Without a PIN it
\* opens the zone with the empty one.
PinCached ==
  /\ Now("Pin") /\ (~device.pin \/ (step.use_cached /\ session.pin)) /\ Proceeds
  /\ session' = [session EXCEPT !.pin = TRUE]
  /\ UNCHANGED <<device, aborted, request, node, screen, last>>
\* protectPin with one.  The counting of wrong PINs is in Vault.
PinAsked ==
  /\ Now("Pin") /\ device.pin /\ ~(step.use_cached /\ session.pin) /\ Shows
  /\ \/ session' = [session EXCEPT !.pin = TRUE] /\ Proceeds /\ UNCHANGED aborted
     \/ UNCHANGED <<session, aborted>> /\ Refuses
     \/ UNCHANGED session /\ Abort

NoMeansYes ==                                                     \* a mistake
  /\ Now("Ask") /\ Shows /\ UNCHANGED session
  /\ \/ Agrees(step.shows) /\ UNCHANGED aborted
     \/ Proceeds /\ UNCHANGED aborted
     \/ Abort
\* protectButton.  Confirm-only dialogs have no No, but the host may cancel them.
protectButton ==
  /\ Now("Ask") /\ Shows /\ UNCHANGED session
  /\ \/ Agrees(step.shows) /\ UNCHANGED aborted
     \/ Refuses /\ UNCHANGED aborted
     \/ Abort

\* fsm_layoutAddress: No, and a Cancel of the host, shows the other side.
fsm_layoutAddress ==
  /\ Now("Address") /\ Shows /\ UNCHANGED session
  /\ \/ ~step.qrcode /\ Agrees(Parts({"address"})) /\ UNCHANGED aborted
     \/ step.qrcode /\ UNCHANGED <<frames, aborted>>
     \/ Goes(<<Address(~step.qrcode)>> \o Rest) /\ UNCHANGED aborted
     \/ Abort

\* protectPassphrase
PassphraseIsKnown == ~device.passphrase \/ session.passphrase # "none"
protectPassphrase ==
  /\ Now("Passphrase")
  /\ \/ PassphraseIsKnown /\ Proceeds /\ Quiet
     \/ /\ ~PassphraseIsKnown /\ screen' = "home" /\ UNCHANGED <<device, request, node, last>>
        /\ \/ /\ \E p \in {"empty", "text"} : session' = [session EXCEPT !.passphrase = p]
              /\ Proceeds /\ UNCHANGED aborted
           \/ Refuses /\ UNCHANGED <<session, aborted>>
           \/ UNCHANGED session /\ Abort

\* storage_getRootNode of a stored node, which is of the curve secp256k1, or of the
\* seed, which asks for the passphrase unless the seed is cached.
storage_getRootNode ==
  /\ Now("Node")
  /\ IF ~storage_isInitialized \/ (device.has = "node" /\ ~step.secp256k1) THEN Fails
     ELSE Goes((IF device.has = "mnemonic" /\ session.seed THEN <<>> ELSE <<Passphrase>>)
               \o <<Step("Root")>> \o Rest)
  /\ Quiet
NodeIsCached ==                                                   \* a mistake
  /\ Now("Root") /\ UNCHANGED node
  /\ session' = [session EXCEPT !.seed = @ \/ device.has = "mnemonic"]
  /\ Goes(<<Step("Derive")>> \o Rest)
  /\ UNCHANGED <<device, aborted, request, screen, last>>
\* The node may be none of the curve.
storage_loadNode ==
  /\ Now("Root")
  /\ session' = [session EXCEPT !.seed = @ \/ device.has = "mnemonic"]
  /\ \/ /\ node' = Plain
        /\ Goes((IF Decrypts THEN <<Step("WakingUp"), Step("Decrypt")>> ELSE <<>>)
                \o <<Step("Derive")>> \o Rest)
     \/ UNCHANGED node /\ Fails
  /\ UNCHANGED <<device, aborted, request, screen, last>>
\* get_root_node_callback sleeps and polls outside tiny mode: with no packet ...
get_root_node_callback ==
  /\ Now("WakingUp") /\ Proceeds /\ screen' = "dialog"
  /\ UNCHANGED <<device, session, aborted, request, node, last>>
\* ... and with one, which msg_read_common takes for the rest of the message in
\* progress.  Bound: one packet for each waking up; a second one would begin another
\* message in the buffers of the first.
Reenter ==
  /\ Now("WakingUp") /\ Len(frames) < MaxNesting /\ ~Top.disturbed /\ Quiet
  /\ frames' = Append([frames EXCEPT ![Len(frames)].disturbed = TRUE], Frame(request))
\* The static node is decrypted where it is, and derived along the path.
Decrypt ==
  /\ Now("Decrypt") /\ node' = [node EXCEPT !.decrypted = @ + 1] /\ Proceeds
  /\ UNCHANGED <<device, session, aborted, request, screen, last>>
\* The empty path leaves the node as it is: derived along it.
fsm_getDerivedNode ==
  /\ Now("Derive")
  /\ \/ node' = [node EXCEPT !.derived = @ + 1] /\ Proceeds
     \/ UNCHANGED node /\ Fails
  /\ UNCHANGED <<device, session, aborted, request, screen, last>>

\* What may fail: signing, or writing a transaction that is too long.
Sign == Now("Sign") /\ Quiet /\ (Proceeds \/ Fails)
\* hdnode_get_ethereum_pubkeyhash, hdnode_get_nem_address: the handler just returns if
\* there is none.
Hashed ==
  /\ Now("Hash")
  /\ \/ Quiet /\ Proceeds
     \/ Returns(Top.answers) /\ UNCHANGED <<device, session, aborted, node, screen>>
NemFits ==
  /\ Now("Build")
  /\ \/ Quiet /\ Proceeds
     \/ Quiet /\ step.loud /\ Fails
     \/ /\ ~step.loud /\ Returns(Top.answers) /\ screen' = "home"
        /\ UNCHANGED <<device, session, aborted, node>>

\* The effects.  storage_update forgets what a changed PIN or passphrase had cached.
Removed == [session EXCEPT !.pin = FALSE]
RemovePin ==
  /\ Now("RemovePin") /\ device' = [device EXCEPT !.pin = FALSE] /\ session' = Removed
  /\ Proceeds /\ UNCHANGED <<aborted, request, node, screen, last>>
\* protectChangePin: two dialogs, and the same PIN in both, which may be the empty one.
protectChangePin ==
  /\ Now("NewPin") /\ screen' = "dialog" /\ UNCHANGED <<request, node, last>>
  /\ \/ /\ \E set \in BOOLEAN : device' = [device EXCEPT !.pin = set]
        /\ session' = Removed /\ Proceeds /\ UNCHANGED aborted
     \/ Fails /\ UNCHANGED <<device, session, aborted>>
     \/ UNCHANGED <<device, session>> /\ Abort
storage_wipe ==
  /\ Now("Wipe") /\ device' = Empty /\ session' = session_clear(TRUE) /\ Proceeds
  /\ UNCHANGED <<aborted, request, node, screen, last>>
storage_loadDevice ==
  /\ Now("Load") /\ device' = request.device /\ session' = session_clear(TRUE) /\ Proceeds
  /\ UNCHANGED <<aborted, request, node, screen, last>>
ApplySettings ==
  /\ Now("ApplySettings") /\ Proceeds
  /\ IF \E i \in DOMAIN request.settings : request.settings[i] = "use_passphrase"
     THEN /\ \E on \in BOOLEAN : device' = [device EXCEPT !.passphrase = on]
          /\ session' = [session EXCEPT !.passphrase = "none", !.seed = FALSE]
     ELSE UNCHANGED <<device, session>>
  /\ UNCHANGED <<aborted, request, node, screen, last>>

\* The answer of ethereum_message_verify, and the handler goes on to its own.
Malformed ==
  /\ Now("Malformed") /\ Quiet
  /\ SetTop([Top EXCEPT !.todo = Rest, !.answers = Append(@, "Failure")])

-----------------------------------------------------------------------------
(* The ends.                                                               *)

AnswersTwice ==                                                   \* a mistake
  /\ Now("Failure") /\ aborted' = FALSE /\ UNCHANGED <<device, node>>
  /\ Returns(Top.answers \o (IF aborted THEN <<"Features">> ELSE <<>>) \o <<"Failure">>)
  /\ session' = IF aborted THEN session_clear(FALSE) ELSE session
  /\ screen' = IF aborted \/ step.home THEN "home" ELSE screen
\* fsm_sendFailure: after an Initialize in a dialog the Initialize is handled.
fsm_sendFailure ==
  /\ Now("Failure") /\ aborted' = FALSE /\ UNCHANGED <<device, node>>
  /\ Returns(Append(Top.answers, IF aborted THEN "Features" ELSE "Failure"))
  /\ session' = IF aborted THEN session_clear(FALSE) ELSE session
  /\ screen' = IF aborted \/ step.home THEN "home" ELSE screen
\* The answer of a handler that gets to its end.
msg_write ==
  /\ Now("Answer") /\ Returns(Append(Top.answers, step.what))
  /\ screen' = IF step.home THEN "home" ELSE screen
  /\ UNCHANGED <<device, session, aborted, node>>
\* fsm_msgInitialize keeps the session of the host whose state it is.
fsm_msgInitialize ==
  /\ Now("Initialize") /\ Returns(<<"Features">>) /\ screen' = "home"
  /\ session' = IF request.state = "ours" /\ session.passphrase # "none" THEN session
                ELSE session_clear(FALSE)
  /\ UNCHANGED <<device, aborted, node>>
fsm_msgClearSession ==
  /\ Now("ClearSession") /\ Returns(<<"Success">>) /\ screen' = "screensaver"
  /\ session' = session_clear(TRUE) /\ UNCHANGED <<device, aborted, node>>

\* check_lock_screen, in the main loop.
Lock ==
  /\ frames = <<>> /\ session' = session_clear(TRUE) /\ screen' = "screensaver"
  /\ UNCHANGED <<device, aborted, request, frames, node, last>>

Init ==
  /\ device \in {Empty} \cup Devices({"mnemonic", "node"})
  /\ session = NoSession /\ aborted = FALSE /\ request = NoRequest /\ frames = <<>>
  /\ node = Plain /\ screen = "home" /\ last = Nothing

Next ==
  \/ \E r \in Requests : Receive(r)
  \/ CheckParam \/ CHECK_INITIALIZED \/ CHECK_NOT_INITIALIZED \/ CHECK_NO_PIN
  \/ PinCached \/ PinAsked \/ protectButton \/ fsm_layoutAddress \/ protectPassphrase
  \/ storage_getRootNode \/ storage_loadNode \/ get_root_node_callback \/ Reenter
  \/ Decrypt \/ fsm_getDerivedNode \/ Sign \/ Hashed \/ NemFits
  \/ RemovePin \/ protectChangePin \/ storage_wipe \/ storage_loadDevice \/ ApplySettings
  \/ Malformed \/ fsm_sendFailure \/ msg_write \/ fsm_msgInitialize \/ fsm_msgClearSession
  \/ Lock

Spec == Init /\ [][Next]_vars

-----------------------------------------------------------------------------
(* Properties.                                                             *)

Did(answer) == \E i \in DOMAIN last.answers : last.answers[i] = answer
Answered == last.request # NoRequest
Served == Answered /\ (Did("own") \/ Did("Success"))

\* TypeOK: handlers run only for a request, and no deeper than they may.
TypeOK ==
  /\ device \in Devices({"none", "mnemonic", "node"})
  /\ session \in [pin : BOOLEAN, passphrase : {"none", "empty", "text"}, seed : BOOLEAN]
  /\ aborted \in BOOLEAN /\ screen \in {"home", "dialog", "screensaver"}
  /\ Len(frames) <= MaxNesting /\ (frames = <<>>) = (request = NoRequest)
  /\ node \in [decrypted : 0 .. MaxNesting, derived : 0 .. MaxNesting]

\* May the handler of r return without an answer?
Silent(r) ==
  \/ r.type \in {"EthereumGetAddress", "NEMGetAddress"}
  \/ r.type = "NEMSignTx" /\ r.tx.kind # "transfer"

\* OneAnswer: whatever the user and the host do in the dialogs of a handler, the
\* host gets one answer from it, and the features of the device only if it asked for
\* them or sent Initialize: protectAbortedByInitialize never outlives the request it
\* aborted (fsm_sendFailure, protect.c).  A request is handled once, unless a packet
\* came while the device was waking up: then each of its handlers answers it
\* (storage.c:706).  These handlers do not answer once: that of a malformed Ethereum
\* signature answers twice (ethereum.c:644, fsm.c:982); those of an Ethereum or NEM
\* address, when it cannot be had (fsm.c:935, fsm.c:1375), and that of a NEM
\* transaction other than a transfer, when it does not fit into the answer
\* (fsm.c:1544), may return without any.
OneAnswer ==
  Answered =>
    /\ \/ Len(last.answers) = 1
       \/ last.answers = <<>> /\ Silent(last.request)
       \/ last.request.type = "EthereumVerifyMessage" /\ last.request.malformed
    /\ last.handled = 1 \/ last.disturbed
    /\ Did("Features") =>
         last.aborted \/ last.request.type \in {"GetFeatures", "Initialize"}
    /\ ~aborted \/ frames # <<>>

\* What the answer to r must not be given without.
Consent(r) ==
  CASE r.type \in {"SignMessage", "EthereumSignMessage"} -> Parts({"message"})
    [] r.type \in {"VerifyMessage", "EthereumVerifyMessage"} -> Parts({"address", "message"})
    [] r.type \in {"SignIdentity", "GetECDHSessionKey"} -> Parts({"identity"})
    [] r.type \in {"CosiCommit", "CosiSign"} -> Parts({"data"})
    [] r.type = "NEMDecryptMessage" -> Parts({"sender", "plaintext"})
    [] r.type \in {"GetPublicKey", "EthereumGetAddress", "NEMGetAddress"} ->
         IF r.show THEN Parts({"address"}) ELSE {}
    [] r.type = "GetAddress" -> IF r.show THEN Parts({"address"}) ELSE {}
    [] r.type = "CipherKeyValue" ->
         IF (r.encrypt /\ r.ask_on_encrypt) \/ (~r.encrypt /\ r.ask_on_decrypt)
         THEN Parts({"key"}) ELSE {}
    [] r.type = "ApplySettings" -> Parts({r.settings[i] : i \in DOMAIN r.settings})
    [] r.type = "WipeDevice" -> Parts({"wipe"})
    [] r.type = "LoadDevice" -> Parts({"load"})
    [] r.type = "SetU2FCounter" -> Parts({"counter"})
    [] r.type = "GetEntropy" -> Parts({"entropy"})
    [] OTHER -> {}
KeyTypes == {"GetPublicKey", "CipherKeyValue", "GetAddress", "EthereumGetAddress",
             "EthereumSignMessage", "SignMessage", "SignIdentity", "GetECDHSessionKey",
             "NEMGetAddress", "NEMSignTx", "NEMDecryptMessage", "CosiCommit", "CosiSign",
             "ApplySettings"}

\* AnswerNeedsConsent: a handler that serves its request has shown every thing the
\* user is to agree to and was never refused; one that uses the key (or changes the
\* settings) ran with the PIN known, although the session may be cleared by a
\* handler inside it and its dialogs may be turned over and over (fsm.c).
AnswerNeedsConsent ==
  Served => /\ ~last.refused /\ Consent(last.request) \subseteq last.confirmed
            /\ last.request.type \in KeyTypes => last.pinned

\* NemShowsWhatItSigns: every part that a NEM transaction writes into the signed
\* data was in a dialog the user agreed to, for any list of mosaics, with repeated
\* names, and inside a multisig transaction, but for these, which no dialog shows: the
\* timestamps and deadlines of the transaction and of the multisig one around it
\* (nem2.c:287, 290, 713, 716), the sinks, the remote account of an importance
\* transfer, the name of a namespace without a parent, and what is written for the
\* empty payload of an encrypted transfer (nem2.c:229, 256).
Unshown(t) ==
  Parts({"timestamp", "deadline", "multisigTimestamp", "multisigDeadline", "sink", "remoteKey"}
        \cup (IF t.kind = "namespace" /\ ~t.parent THEN {"namespace"} ELSE {})
        \cup (IF t.kind = "transfer" /\ ~t.payload /\ t.encrypted THEN {"payload"} ELSE {}))
Written(r) ==
  LET inner == NemWritten(Canonical(r.tx))
  IN IF r.has_multisig THEN nem_fsmMultisig(inner) ELSE inner
NemShowsWhatItSigns ==
  Answered /\ last.request.type = "NEMSignTx" /\ Did("own")
    => Written(last.request) \ Unshown(last.request.tx) \subseteq last.confirmed

\* KeyIsTheStored: the key that an answer is made with is the stored node, decrypted
\* once with the passphrase and derived once along the path, unless a packet came
\* while the device was waking up: the same request is then handled again inside,
\* and the outer handler decrypts and derives the child once more (storage.c:706).
KeyIsTheStored ==
  Served /\ last.request.type \in KeyTypes \ {"ApplySettings"} /\ ~last.disturbed =>
    last.node = [decrypted |-> IF last.decrypts THEN 1 ELSE 0, derived |-> 1]

\* CanonicalMosaics: canonicalizing puts the names in order, each once, with the
\* quantities of its duplicates added up (nem_canonicalizeMosaics).
CanonicalMosaics ==
  request.type = "NEMSignTx" /\ request.tx.kind = "transfer" =>
    LET s == request.tx.mosaics  c == nem_canonicalizeMosaics(s)
        names(t) == {t[i].name : i \in DOMAIN t}
    IN /\ names(c) = names(s) /\ \A i, j \in DOMAIN c : i < j => c[i].name < c[j].name
       /\ \A i \in DOMAIN c : c[i].quantity = Total(s, c[i].name)
=============================================================================
