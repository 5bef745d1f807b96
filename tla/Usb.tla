-------------------------------- MODULE Usb --------------------------------
(***************************************************************************)
(* The wallet's messages and the U2F token on one device.  They share one  *)
(* thread, its polling and its tiny mode: whoever polls also takes the     *)
(* packets of the other.  pc tells who that is:                            *)
(*   idle                   the main loop                                  *)
(*   data, dialog           a U2F session                                  *)
(*   button, nap            protectButton: its usbPoll and its usbSleep     *)
(*   sleep, pin, passphrase protectPin, requestPin, protectPassphrase      *)
(*   ... polled             after a usbPoll that brought what it waits for *)
(*   lock                   the lock dialog of check_lock_screen           *)
(***************************************************************************)
EXTENDS Messages, U2f

vars == <<pc, tiny, ring, messages, u2f>>

Init == /\ pc = "idle" /\ tiny = FALSE
        /\ u2f_out = 0 /\ backlog = FALSE /\ dropped = FALSE
        /\ InitMessages /\ InitU2f

U2fStays == UNCHANGED u2f
SessionRest == <<last_req_state, last_register, last_auth, dialog_timeout, shown, pressed>>

\* What usbd_poll hands over in tiny mode: nothing, a frame or a packet.  It
\* queues n packets and leaves id in msg_tiny_id.
hid_rx_callback(n, id) ==
  \/ /\ n = 0 /\ id = msg_tiny_id
     /\ UNCHANGED <<in, sending, cid, reader, taken>>
  \/ /\ id = msg_tiny_id /\ UNCHANGED <<in, sending>>
     /\ \E f \in Frame : u2fhid_read(f, n)
  \/ /\ n = 0 /\ UNCHANGED <<cid, reader, taken>>
     /\ \E p \in Packet : msg_read_tiny(p, id)

\* A usbPoll in tiny mode that leaves id in msg_tiny_id.
TinyPoll(id) == \E n \in 0 .. 1 : hid_rx_callback(n, id) /\ usbPoll(n)
TinyIds == TinyMsgs \cup {NoId}

-----------------------------------------------------------------------------
(* A U2F session polls.                                                    *)

ReadData ==
  /\ pc = "data" /\ reader.got < reader.need
  /\ \E id \in TinyIds : TinyPoll(id) /\ msg_tiny_id' = id
  /\ UNCHANGED <<pc, tiny, todo, acked>> /\ UNCHANGED SessionRest

WaitRound ==
  /\ WaitForButton
  /\ \E id \in TinyIds : TinyPoll(id) /\ msg_tiny_id' = id
  /\ UNCHANGED <<todo, acked>>

Session == (DataTimeout \/ Answer \/ WaitOver) /\ UNCHANGED messages

-----------------------------------------------------------------------------
(* The dialogs poll.                                                       *)

Cancels == {"Cancel", "Initialize"}
\* The usbPoll of a dialog, which goes on to the place the message id leads to.
DialogPoll(where, NextPlace(_)) ==
  /\ pc = where
  /\ \E id \in TinyIds : TinyPoll(id) /\ msg_tiny_id' = id /\ pc' = NextPlace(id)
  /\ UNCHANGED <<tiny, todo, acked>> /\ UNCHANGED SessionRest

\* protectButton looks at the buttons only once the host has acknowledged.
ButtonPoll ==
  LET Place(id) == IF acked \/ id = "ButtonAck" \/ id \in Cancels
                   THEN "button polled" ELSE "button"
  IN DialogPoll("button", Place)
Acknowledged ==
  /\ pc = "button polled" /\ (acked \/ msg_tiny_id = "ButtonAck")
  /\ pc' = "nap" /\ acked' = TRUE
  /\ msg_tiny_id' = IF msg_tiny_id = "ButtonAck" THEN NoId ELSE msg_tiny_id
  /\ UNCHANGED <<tiny, ring, in, todo, sending>> /\ U2fStays
\* After the nap: the buttons first, then the messages.
ButtonPressed ==
  /\ pc = "nap" /\ UNCHANGED <<msg_tiny_id, sending>> /\ U2fStays
  /\ \/ AskFrom(todo, in)                                        \* YesUp
     \/ Done                                                 \* NoUp: Failure
     \/ /\ msg_tiny_id \notin Cancels
        /\ pc' = "button" /\ UNCHANGED <<tiny, ring, in, todo, acked>>
\* Cancel or Initialize in any of the three dialogs.
DialogCancelled ==
  /\ \/ pc = "button polled" /\ ~acked
     \/ pc \in {"nap", "pin polled", "passphrase polled"}
  /\ msg_tiny_id \in Cancels
  /\ msg_tiny_id' = NoId /\ Done /\ UNCHANGED sending /\ U2fStays

PinPoll ==
  LET Place(id) == IF id = "PinMatrixAck" \/ id \in Cancels THEN "pin polled" ELSE "pin"
  IN DialogPoll("pin", Place)
\* protectPin: the PIN is right, or wrong with attempts left.
PinEntered ==
  /\ pc = "pin polled" /\ msg_tiny_id = "PinMatrixAck" /\ msg_tiny_id' = NoId
  /\ AskFrom(todo, in) \/ Done
  /\ UNCHANGED sending /\ U2fStays

PassphrasePoll ==
  LET Place(id) == IF id = "PassphraseAck" \/ id \in Cancels
                   THEN "passphrase polled" ELSE "passphrase"
  IN DialogPoll("passphrase", Place)
PassphraseEntered ==
  /\ pc = "passphrase polled" /\ msg_tiny_id = "PassphraseAck" /\ msg_tiny_id' = NoId
  /\ AskFrom(todo, in) /\ UNCHANGED sending /\ U2fStays

\* usbSleep in a dialog: packets come in, none go out.
Sleep ==
  /\ pc \in {"nap", "sleep", "lock"}
  /\ \E n \in 0 .. 1, id \in TinyIds :
       hid_rx_callback(n, id) /\ usbSleep(n) /\ msg_tiny_id' = id
  /\ UNCHANGED <<pc, tiny, todo, acked>> /\ UNCHANGED SessionRest
\* protectPin after its sleep: of all messages it looks for Initialize only.
SleepOver ==
  /\ pc = "sleep" /\ UNCHANGED sending /\ U2fStays
  /\ \/ /\ msg_tiny_id = "Initialize" /\ msg_tiny_id' = NoId /\ Done
     \/ /\ msg_tiny_id # "Initialize" /\ UNCHANGED msg_tiny_id
        /\ pc' = "pin" /\ UNCHANGED ring /\ UNCHANGED <<tiny, in, todo, acked>>

Dialog == ButtonPoll \/ Acknowledged \/ ButtonPressed \/ DialogCancelled \/ PinPoll
          \/ PinEntered \/ PassphrasePoll \/ PassphraseEntered \/ Sleep \/ SleepOver

-----------------------------------------------------------------------------
(* The main loop.                                                          *)

\* check_lock_screen: the No button is held, then Yes or No is pressed.
check_lock_screen ==
  /\ \/ pc = "idle" /\ pc' = "lock" /\ tiny' = TRUE
     \/ pc = "lock" /\ pc' = "idle" /\ tiny' = FALSE
  /\ UNCHANGED <<ring, messages>> /\ U2fStays

\* usbPoll: nothing, a frame or a packet.
MainPoll ==
  \/ pc = "idle" /\ usbPoll(0) /\ UNCHANGED <<pc, tiny, messages>> /\ U2fStays
  \/ (\E f \in Frame : u2fhid_read_start(f)) /\ UNCHANGED messages
  \/ (\E p \in Packet : msg_read(p)) /\ U2fStays

Next == MainPoll \/ check_lock_screen \/ Dialog \/ ReadData \/ WaitRound \/ Session

\* Time passes: every time-out of a session runs out unless frames come in.
Fairness == WF_vars(Session) /\ WF_vars(WaitForButton /\ ~dialog_timeout' /\ WaitRound)
Spec == Init /\ [][Next]_vars
FairSpec == Spec /\ Fairness

-----------------------------------------------------------------------------
(* Properties.                                                             *)

\* Every variable has its type.
TypeOK ==
  /\ pc \in {"idle", "data", "dialog", "button", "button polled", "nap", "sleep", "pin",
             "pin polled", "passphrase", "passphrase polled", "lock"}
  /\ tiny \in BOOLEAN /\ dropped \in BOOLEAN /\ backlog \in BOOLEAN
  /\ u2f_out \in 0 .. U2fRing - 1
  /\ in.state \in {"IDLE", "READING"} /\ in.pos \in 0 .. MaxPackets
  /\ msg_tiny_id \in TinyIds /\ todo \subseteq Protections /\ acked \in BOOLEAN
  /\ sending \in 0 .. MaxPackets - 1
  /\ cid \in Channels \cup {NoChannel}
  /\ reader \in {NoReader, Waiting} \/ (reader.msg \in U2fMsg /\ reader.seq \in 0 .. MaxFrames \cup {NoSeq})
  /\ last_req_state \in {"INIT", "AUTH", "AUTH_PASS", "REG", "REG_PASS"}
  /\ last_register \in Registers \cup {NoReq} /\ last_auth \in Auths \cup {NoReq}
  /\ dialog_timeout \in BOOLEAN /\ shown \in Registers \cup Auths \cup {Home}

\* A message that the main loop is reading lacks exactly the packets its host still
\* has to send, unless a dialog or a U2F session swallowed some of them.
MessagesAreWhole ==
  pc = "idle" /\ in.state = "READING" /\ ~in.swallowed =>
    in.pos < in.need /\ in.pos + sending = in.need

\* A press that the token remembers for a request was never made over the dialog of
\* another one, whatever requests came in between.  It was made over the request's own
\* dialog or over none: the data time-out (u2f.c:198) clears the display and leaves
\* last_req_state, and the same request is not laid out again (u2f.c:557, 702).
PressIsForTheRequest ==
  /\ last_req_state = "AUTH_PASS" => pressed \in {last_auth, Home}
  /\ last_req_state = "REG_PASS" => pressed \in {last_register, Home}

\* One press signs one request: a registration or authentication is signed only while
\* a press is remembered, made over its own dialog or over none (see above), and uses
\* it up.
SignatureUsesUpItsPress ==
  [][SignsNow /\ Answer => pressed \in {reader.msg.req, Home} /\ pressed' = NoReq]_vars

\* All frames of a message come from the channel of the session, unless another
\* host's broadcast INIT has moved the session to a new channel.
OneSender == reader # NoReader /\ ~taken => reader.from \subseteq {cid}

\* The ring drains as fast as frames come in: no packet is lost unless frames came
\* while a dialog slept, or an echo as long as the ring filled it.
NothingIsDropped == ~dropped

\* A U2F session ends, unless frames for ever begin, move on or break off a message of
\* the session.  Frames that are refused, the wallet's packets and the draining of the
\* ring do not keep it going.
SessionsEnd ==
  []<>(pc \notin {"data", "dialog"}) \/ []<><<(ReadData \/ WaitRound) /\ reader' # reader>>_vars
=============================================================================
