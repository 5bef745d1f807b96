------------------------------ MODULE UsbProofs ------------------------------
(***************************************************************************)
(* Proofs about Usb: whose frames a U2F message is made of, and for which  *)
(* request a press of the button counts.                                   *)
(***************************************************************************)
EXTENDS Usb, TLAPS

-----------------------------------------------------------------------------
(* The request state machine.                                              *)

\* A request that waits for its press is the one on the display, or none is.
Displayed ==
  /\ last_req_state = "AUTH" => shown \in {last_auth, Home}
  /\ last_req_state = "REG" => shown \in {last_register, Home}
PressInv == Displayed /\ PressIsForTheRequest
\* The command that is handled is that of the message.
CommandIsRead == reader.cmd = "MSG" => reader.msg.cmd = "MSG"
U2fInv == PressInv /\ CommandIsRead /\ OneSender

\* The same of what a message makes of the state.
PressOf(h) ==
  /\ h.state = "AUTH" => h.shown \in {h.auth, Home}
  /\ h.state = "REG" => h.shown \in {h.reg, Home}
  /\ h.state = "AUTH_PASS" => h.pressed \in {h.auth, Home}
  /\ h.state = "REG_PASS" => h.pressed \in {h.reg, Home}

\* The fields of the outcomes.
LEMMA SameFields ==
  /\ Same.state = last_req_state /\ Same.reg = last_register /\ Same.auth = last_auth
  /\ Same.dialog = dialog_timeout /\ Same.answer = 0 /\ Same.shown = shown /\ Same.pressed = pressed
BY DEF Same
LEMMA OtherFields ==
  ASSUME NEW n
  PROVE  LET h == [Same EXCEPT !.answer = n]
         IN /\ h.state = last_req_state /\ h.reg = last_register /\ h.auth = last_auth
            /\ h.shown = shown /\ h.pressed = pressed /\ h.answer = n
BY Zenon DEF Same
LEMMA SignedFields ==
  Signed.state = "INIT" /\ Signed.dialog = FALSE /\ Signed.pressed = NoReq /\ Signed.answer = 2
BY Zenon DEF Signed, Same
\* A request asks, with its dialog on the display.
AskRegister(m) == [AskFor(m.req, StateFor(m.req, last_register), "REG") EXCEPT !.reg = m.req]
AskAuthenticate(m) == [AskFor(m.req, StateFor(m.req, last_auth), "AUTH") EXCEPT !.auth = m.req]
LEMMA AskFields ==
  ASSUME NEW m
  PROVE  /\ AskRegister(m).state = "REG" /\ AskRegister(m).reg = m.req /\ AskRegister(m).answer = 1
         /\ AskRegister(m).shown
              = IF StateFor(m.req, last_register) = "INIT" THEN m.req ELSE shown
         /\ AskAuthenticate(m).state = "AUTH" /\ AskAuthenticate(m).auth = m.req
         /\ AskAuthenticate(m).answer = 1
         /\ AskAuthenticate(m).shown
              = IF StateFor(m.req, last_auth) = "INIT" THEN m.req ELSE shown
BY Zenon DEF AskRegister, AskAuthenticate, AskFor, Same

\* What the state machine makes of a request, and what it signs.
PressCounts(h, m) == h.answer = 2 => pressed \in {m.req, Home} /\ ~h.dialog /\ h.state = "INIT"
LEMMA RegisterKeepsPress ==
  ASSUME PressInv, NEW m
  PROVE  PressOf(u2f_register(m)) /\ PressCounts(u2f_register(m), m)
<1> DEFINE state == StateFor(m.req, last_register)
           none == [Same EXCEPT !.dialog = FALSE]
<1>1. u2f_register(m) = IF state \in {"INIT", "REG"} THEN AskRegister(m)
                        ELSE IF state = "REG_PASS" THEN Signed ELSE none
  BY Zenon DEF u2f_register, AskRegister
<1>2. /\ none.state = last_req_state /\ none.reg = last_register /\ none.auth = last_auth
      /\ none.shown = shown /\ none.pressed = pressed /\ none.answer = 0
  BY Zenon DEF Same
<1>3. /\ state # "INIT" => state = last_req_state /\ m.req = last_register
      /\ state = "INIT" => m.req # last_register \/ last_req_state = "INIT"
  BY DEF StateFor
<1> HIDE DEF state, none
<1>4. CASE state \in {"INIT", "REG"}
  <2>1. u2f_register(m) = AskRegister(m)  BY <1>1, <1>4
  <2>2. PressOf(AskRegister(m)) /\ AskRegister(m).answer = 1
    BY <1>3, <1>4, AskFields DEF PressOf, PressInv, Displayed, state
  <2> QED  BY <2>1, <2>2 DEF PressCounts
<1>5. CASE state = "REG_PASS"
  <2>1. u2f_register(m) = Signed  BY <1>1, <1>5
  <2>2. pressed \in {m.req, Home}  BY <1>3, <1>5 DEF PressInv, PressIsForTheRequest
  <2> QED  BY <2>1, <2>2, SignedFields DEF PressOf, PressCounts
<1>6. CASE state \notin {"INIT", "REG", "REG_PASS"}
  <2>1. u2f_register(m) = none  BY <1>1, <1>6
  <2> QED  BY <1>2, <2>1 DEF PressOf, PressCounts, PressInv, Displayed, PressIsForTheRequest
<1> QED  BY <1>4, <1>5, <1>6

LEMMA AuthenticateKeepsPress ==
  ASSUME PressInv, NEW m
  PROVE  PressOf(u2f_authenticate(m)) /\ PressCounts(u2f_authenticate(m), m)
<1> DEFINE state == StateFor(m.req, last_auth)
<1>1. u2f_authenticate(m) = IF state \in {"INIT", "AUTH"} THEN AskAuthenticate(m)
                            ELSE IF state = "AUTH_PASS" THEN Signed ELSE Same
  BY Zenon DEF u2f_authenticate, AskAuthenticate
<1>2. /\ state # "INIT" => state = last_req_state /\ m.req = last_auth
      /\ state = "INIT" => m.req # last_auth \/ last_req_state = "INIT"
  BY DEF StateFor
<1> HIDE DEF state
<1>3. CASE state \in {"INIT", "AUTH"}
  <2>1. u2f_authenticate(m) = AskAuthenticate(m)  BY <1>1, <1>3
  <2>2. PressOf(AskAuthenticate(m)) /\ AskAuthenticate(m).answer = 1
    BY <1>2, <1>3, AskFields DEF PressOf, PressInv, Displayed, state
  <2> QED  BY <2>1, <2>2 DEF PressCounts
<1>4. CASE state = "AUTH_PASS"
  <2>1. u2f_authenticate(m) = Signed  BY <1>1, <1>4
  <2>2. pressed \in {m.req, Home}  BY <1>2, <1>4 DEF PressInv, PressIsForTheRequest
  <2> QED  BY <2>1, <2>2, SignedFields DEF PressOf, PressCounts
<1>5. CASE state \notin {"INIT", "AUTH", "AUTH_PASS"}
  <2>1. u2f_authenticate(m) = Same  BY <1>1, <1>5
  <2> QED  BY <2>1, SameFields DEF PressOf, PressCounts, PressInv, Displayed, PressIsForTheRequest
<1> QED  BY <1>3, <1>4, <1>5

\* Every other message leaves the request as it is.
LEMMA HandledKeepsPress ==
  ASSUME PressInv, NEW m
  PROVE  PressOf(Handled(m)) /\ PressOf(Same) /\ (m.cmd = "MSG" => PressCounts(Handled(m), m))
<1> DEFINE Reply(n) == [Same EXCEPT !.answer = n]
<1>1. \A n : /\ Reply(n).state = last_req_state /\ Reply(n).reg = last_register
             /\ Reply(n).auth = last_auth /\ Reply(n).shown = shown
             /\ Reply(n).pressed = pressed /\ Reply(n).answer = n
  BY OtherFields
<1>2. Handled(m) = IF m.cmd = "MSG" THEN u2fhid_msg(m)
                   ELSE IF m.cmd = "PING" THEN Reply(m.need) ELSE Reply(1)
  BY Zenon DEF Handled, Answered
<1>3. u2fhid_msg(m) = IF m.ins = "REGISTER" THEN u2f_register(m)
                      ELSE IF m.ins = "AUTHENTICATE" THEN u2f_authenticate(m)
                      ELSE IF m.ins = "refused" THEN Reply(1) ELSE Same
  BY Zenon DEF u2fhid_msg, Answered
<1> HIDE DEF Reply
<1>4. PressOf(Same) /\ \A n : PressOf(Reply(n))
  BY <1>1, SameFields DEF PressOf, PressInv, Displayed, PressIsForTheRequest
<1>5. PressCounts(Same, m) /\ PressCounts(Reply(1), m)
  BY <1>1, SameFields DEF PressCounts
<1>6. PressOf(u2fhid_msg(m)) /\ PressCounts(u2fhid_msg(m), m)
  BY <1>3, <1>4, <1>5, RegisterKeepsPress, AuthenticateKeepsPress
<1>7. CASE m.cmd = "MSG"
  <2>1. Handled(m) = u2fhid_msg(m)  BY <1>2, <1>7
  <2> QED  BY <1>4, <1>6, <2>1
<1>8. CASE m.cmd # "MSG"
  <2>1. PressOf(Handled(m))  BY <1>2, <1>4, <1>8
  <2> QED  BY <1>4, <1>8, <2>1
<1> QED  BY <1>7, <1>8

-----------------------------------------------------------------------------
(* Steps.                                                                  *)

\* A channel is drawn, and may end the session.
LEMMA InitKeeps ==
  ASSUME CommandIsRead, OneSender, NEW f \in Frame, u2fhid_init(f)
  PROVE  CommandIsRead' /\ OneSender'
<1>1. CASE reader' = Waiting  BY <1>1 DEF Waiting, CommandIsRead, OneSender
<1>2. CASE reader' = reader
  BY <1>2 DEF u2fhid_init, CommandIsRead, OneSender
<1> QED  BY <1>1, <1>2 DEF u2fhid_init

LEMMA ReadKeeps ==
  ASSUME CommandIsRead, OneSender, NEW f \in Frame, NEW n, u2fhid_read(f, n)
  PROVE  CommandIsRead' /\ OneSender'
<1>1. ASSUME u2fhid_init(f) PROVE CommandIsRead' /\ OneSender'
  BY <1>1, InitKeeps
<1>2. CASE UNCHANGED <<cid, reader, taken>>
  BY <1>2 DEF CommandIsRead, OneSender
<1>3. CASE /\ ~Busy(f) /\ UNCHANGED <<cid, taken>>
           /\ f.type = "START" /\ reader' = u2fhid_init_cmd(f)
  BY <1>3 DEF Busy, u2fhid_init_cmd, CommandIsRead, OneSender
<1>4. CASE UNCHANGED <<cid, taken>> /\ reader' = Waiting
  BY <1>4 DEF Waiting, CommandIsRead, OneSender
<1>5. CASE ~Busy(f) /\ UNCHANGED <<cid, taken>> /\ reader' = u2fhid_read_cont(f)
  BY <1>5 DEF Busy, u2fhid_read_cont, CommandIsRead, OneSender
<1> QED  BY <1>1, <1>2, <1>3, <1>4, <1>5 DEF u2fhid_read

LEMMA ReturnKeeps == Return => CommandIsRead' /\ OneSender'
<1> SUFFICES ASSUME Return PROVE CommandIsRead' /\ OneSender'  OBVIOUS
<1>1. reader' = NoReader  BY DEF Return
<1>2. CommandIsRead'  BY <1>1 DEF NoReader, CommandIsRead
<1>3. OneSender'  BY <1>1 DEF OneSender
<1> QED  BY <1>2, <1>3

LEMMA StartKeeps ==
  ASSUME U2fInv, NEW f \in Frame, u2fhid_read_start(f)
  PROVE  U2fInv'
<1>1. UNCHANGED <<last_req_state, last_register, last_auth, shown, pressed>>
  BY DEF u2fhid_read_start
<1>2. PressInv'  BY <1>1 DEF U2fInv, PressInv, Displayed, PressIsForTheRequest
<1>3. CASE u2fhid_init(f)  BY <1>2, <1>3, InitKeeps DEF U2fInv
<1>4. CASE UNCHANGED <<cid, reader, taken>>
  BY <1>2, <1>4 DEF U2fInv, CommandIsRead, OneSender
<1>5. CASE reader' = u2fhid_init_cmd(f) /\ cid' = f.cid
  BY <1>2, <1>5 DEF u2fhid_init_cmd, U2fInv, CommandIsRead, OneSender
<1> QED  BY <1>3, <1>4, <1>5 DEF u2fhid_read_start

LEMMA AnswerKeeps ==
  ASSUME U2fInv, Answer
  PROVE  U2fInv'
<1> DEFINE h == IF reader.cmd = "none" THEN Same ELSE Handled(reader.msg)
<1>1. PressOf(h)  BY HandledKeepsPress DEF U2fInv
<1>2. GoOn(h)  BY DEF Answer
<1> HIDE DEF h
<1>3. CASE h.dialog
  <2>1. /\ last_req_state' = h.state /\ last_register' = h.reg /\ last_auth' = h.auth
        /\ shown' = h.shown /\ pressed' = h.pressed /\ reader' = Waiting
    BY <1>2, <1>3 DEF GoOn
  <2>2. PressInv'
    BY <1>1, <2>1 DEF PressOf, PressInv, Displayed, PressIsForTheRequest
  <2>3. CommandIsRead' /\ OneSender'  BY <2>1 DEF Waiting, CommandIsRead, OneSender
  <2> QED  BY <2>2, <2>3 DEF U2fInv
<1>4. CASE ~h.dialog
  <2>1. Return /\ last_req_state' = "INIT"  BY <1>2, <1>4 DEF GoOn
  <2>2. PressInv'  BY <2>1 DEF PressInv, Displayed, PressIsForTheRequest
  <2> QED  BY <2>1, <2>2, ReturnKeeps DEF U2fInv
<1> QED  BY <1>3, <1>4

\* What usbPoll hands over in tiny mode.
LEMMA RxKeeps ==
  ASSUME CommandIsRead, OneSender, NEW n, NEW id, hid_rx_callback(n, id)
  PROVE  CommandIsRead' /\ OneSender'
<1>1. UNCHANGED <<cid, reader, taken>> \/ \E f \in Frame : u2fhid_read(f, n)
  BY DEF hid_rx_callback
<1>2. CASE UNCHANGED <<cid, reader, taken>>
  BY <1>2 DEF CommandIsRead, OneSender
<1> QED  BY <1>1, <1>2, ReadKeeps

LEMMA WaitRoundKeeps ==
  ASSUME U2fInv, WaitRound
  PROVE  U2fInv'
<1>1. WaitForButton /\ \E n, id : hid_rx_callback(n, id)  BY DEF WaitRound, TinyPoll
<1>2. CommandIsRead' /\ OneSender'  BY <1>1, RxKeeps DEF U2fInv
<1>3. UNCHANGED <<last_register, last_auth, shown>>  BY <1>1 DEF WaitForButton
<1>4. CASE UNCHANGED <<last_req_state, pressed>>
  BY <1>2, <1>3, <1>4 DEF U2fInv, PressInv, Displayed, PressIsForTheRequest
<1>5. CASE /\ last_req_state \in {"AUTH", "REG"} /\ pressed' = shown
           /\ last_req_state' = IF last_req_state = "AUTH" THEN "AUTH_PASS" ELSE "REG_PASS"
  BY <1>2, <1>3, <1>5 DEF U2fInv, PressInv, Displayed, PressIsForTheRequest
<1> QED  BY <1>1, <1>4, <1>5 DEF WaitForButton

\* Every other step leaves the request alone or ends the session.
LEMMA OthersKeep ==
  ASSUME U2fInv, UNCHANGED <<last_req_state, last_register, last_auth, pressed>>,
         shown' \in {shown, Home},
         (\E n, id : hid_rx_callback(n, id)) \/ UNCHANGED <<cid, reader, taken>> \/ Return
  PROVE  U2fInv'
<1>1. PressInv'  BY DEF U2fInv, PressInv, Displayed, PressIsForTheRequest
<1>2. CASE \E n, id : hid_rx_callback(n, id)  BY <1>1, <1>2, RxKeeps DEF U2fInv
<1>3. CASE UNCHANGED <<cid, reader, taken>>
  BY <1>1, <1>3 DEF U2fInv, CommandIsRead, OneSender
<1>4. CASE Return  BY <1>1, <1>4, ReturnKeeps DEF U2fInv
<1> QED  BY <1>2, <1>3, <1>4

LEMMA WaitOverKeeps ==
  ASSUME U2fInv, WaitOver
  PROVE  U2fInv'
<1>1. CASE UNCHANGED <<cid, reader, last_req_state, shown, pressed, taken>>
  BY <1>1, OthersKeep DEF WaitOver
<1>2. CASE Return /\ last_req_state' = "INIT"
  BY <1>2, ReturnKeeps DEF U2fInv, PressInv, Displayed, PressIsForTheRequest
<1> QED  BY <1>1, <1>2 DEF WaitOver

LEMMA UsbKeepsInv ==
  ASSUME U2fInv, [Next]_vars
  PROVE  U2fInv'
<1>1. CASE MainPoll
  <2>1. CASE \E f \in Frame : u2fhid_read_start(f)  BY <2>1, StartKeeps
  <2>2. CASE U2fStays  BY <2>2, OthersKeep DEF U2fStays, u2f
  <2> QED  BY <1>1, <2>1, <2>2 DEF MainPoll
<1>2. CASE check_lock_screen
  BY <1>2, OthersKeep DEF check_lock_screen, U2fStays, u2f
<1>3. CASE Dialog
  <2>1. CASE U2fStays  BY <2>1, OthersKeep DEF U2fStays, u2f
  <2>2. CASE (\E n, id : hid_rx_callback(n, id)) /\ UNCHANGED SessionRest
    BY <2>2, OthersKeep DEF SessionRest
  <2>3. ButtonPoll \/ PinPoll \/ PassphrasePoll \/ Sleep
          => (\E n, id : hid_rx_callback(n, id)) /\ UNCHANGED SessionRest
    BY DEF ButtonPoll, PinPoll, PassphrasePoll, Sleep, DialogPoll, TinyPoll
  <2>4. Acknowledged \/ ButtonPressed \/ DialogCancelled \/ PinEntered \/ PassphraseEntered
          \/ SleepOver => U2fStays
    BY DEF Acknowledged, ButtonPressed, DialogCancelled, PinEntered, PassphraseEntered, SleepOver
  <2> QED  BY <1>3, <2>1, <2>2, <2>3, <2>4 DEF Dialog
<1>4. CASE ReadData
  <2>1. (\E n, id : hid_rx_callback(n, id)) /\ UNCHANGED SessionRest
    BY <1>4 DEF ReadData, TinyPoll
  <2> QED  BY <2>1, OthersKeep DEF SessionRest
<1>5. CASE WaitRound  BY <1>5, WaitRoundKeeps
<1>6. CASE Session
  <2>1. CASE DataTimeout  BY <2>1, OthersKeep DEF DataTimeout, Return
  <2> QED  BY <1>6, <2>1, AnswerKeeps, WaitOverKeeps DEF Session
<1>7. CASE UNCHANGED vars
  BY <1>7, OthersKeep DEF vars, u2f
<1> QED  BY <1>1, <1>2, <1>3, <1>4, <1>5, <1>6, <1>7 DEF Next

-----------------------------------------------------------------------------
(* Packets of the wallet's messages.                                       *)

Reading == [state : {"READING"}, msg : MainMsg, need : Nat, pos : Nat, swallowed : BOOLEAN]
\* Outside the dialogs of a handler, which has its message already.
Holding == pc \in {"idle", "lock", "data", "dialog"}
MessageTypes == (in = Idle \/ in \in Reading) /\ sending \in Nat
\* What the firmware lacks of a message is what the host still has to send.
Lacks(r, left) == r.pos < r.need /\ r.pos + left = r.need
MessageInv ==
  /\ MessageTypes
  /\ (Holding /\ in.state = "READING" /\ ~in.swallowed => Lacks(in, sending))

\* A message that is not being read.
LEMMA IdleKeepsMessage ==
  ASSUME in' = Idle, sending' \in Nat
  PROVE  MessageInv'
<1>1. in'.state = "IDLE"  BY DEF Idle
<1> QED  BY <1>1 DEF MessageInv, MessageTypes

\* Handlers neither send nor receive between two polls.
LEMMA AskKeepsMessage ==
  ASSUME NEW left, NEW r, r = Idle \/ r \in Reading, AskFrom(left, r), sending' \in Nat
  PROVE  MessageInv'
<1>1. CASE Done  BY <1>1, IdleKeepsMessage DEF Done
<1>2. CASE pc' \in {"button", "pin", "sleep", "passphrase"} /\ in' = r
  BY <1>2 DEF MessageInv, MessageTypes, Holding
<1>3. CASE "button" \in left  BY <1>2, <1>3 DEF AskFrom
<1>4. CASE "button" \notin left /\ left # {}  BY <1>1, <1>2, <1>4 DEF AskFrom
<1>5. CASE left = {}  BY <1>1, <1>5 DEF AskFrom
<1> QED  BY <1>3, <1>4, <1>5

LEMMA SentTypes ==
  ASSUME NEW p \in Packet, HostSends(p), sending \in Nat
  PROVE  /\ sending' \in Nat
         /\ p.first = "?##" => /\ p.msg \in MainMsg /\ p.need \in Nat \ {0}
                               /\ sending = 0 /\ sending' = p.need - 1
         /\ p.first = "?" => sending > 0 /\ sending' = sending - 1
         /\ p.first = "junk" => sending' = sending
         /\ p.first \in {"?##", "?", "junk"}
<1>1. CASE p \in Heads
  <2>1. p.first = "?##" /\ p.msg \in MainMsg /\ p.need \in 1 .. MaxPackets
    BY <1>1 DEF Heads
  <2>2. sending = 0 /\ sending' = p.need - 1  BY <2>1 DEF HostSends
  <2>3. p.need \in Nat \ {0}  BY <2>1, MessagesAssumption
  <2> QED  BY <2>1, <2>2, <2>3
<1>2. CASE p = [first |-> "?"]
  <2>1. p.first = "?"  BY <1>2
  <2> QED  BY <2>1 DEF HostSends
<1>3. CASE p = [first |-> "junk"]
  <2>1. p.first = "junk"  BY <1>3
  <2> QED  BY <2>1 DEF HostSends
<1> QED  BY <1>1, <1>2, <1>3 DEF Packet

\* Tiny mode: the packets of a message that is being read are swallowed.
LEMMA TinyKeepsMessage ==
  ASSUME MessageInv, Holding' => Holding,
         UNCHANGED <<in, sending>> \/ \E id : \E p \in Packet : msg_read_tiny(p, id)
  PROVE  MessageInv'
<1>1. CASE UNCHANGED <<in, sending>>
  BY <1>1 DEF MessageInv, MessageTypes
<1>2. ASSUME NEW p \in Packet, NEW id, msg_read_tiny(p, id) PROVE MessageInv'
  <2>1. HostSends(p) /\ sending \in Nat
    BY <1>2 DEF msg_read_tiny, MessageInv, MessageTypes
  <2>2. CASE p.first = "?" /\ in.pos < in.need
    <3>1. in' = [in EXCEPT !.swallowed = TRUE]  BY <1>2, <2>2 DEF msg_read_tiny
    <3>2. in # Idle  BY <2>2 DEF Idle
    <3>3. in' \in Reading /\ in'.swallowed
      BY <3>1, <3>2 DEF MessageInv, MessageTypes, Reading
    <3>4. sending' \in Nat  BY <2>1, SentTypes
    <3> QED  BY <3>3, <3>4 DEF MessageInv, MessageTypes
  <2>3. CASE ~(p.first = "?" /\ in.pos < in.need)
    <3>1. in' = in  BY <1>2, <2>3 DEF msg_read_tiny
    <3>2. ASSUME Holding, in.state = "READING", ~in.swallowed PROVE Lacks(in, sending')
      <4>1. Lacks(in, sending)  BY <3>2 DEF MessageInv
      <4>2. in \in Reading  BY <3>2 DEF MessageInv, MessageTypes, Idle
      <4>3. sending # 0  BY <2>1, <4>1, <4>2 DEF Lacks, Reading
      <4>4. p.first # "?##"  BY <2>1, <4>3, SentTypes
      <4>5. p.first # "?"  BY <2>3, <4>1 DEF Lacks
      <4>6. sending' = sending  BY <2>1, <4>4, <4>5, SentTypes
      <4> QED  BY <4>1, <4>6
    <3>3. sending' \in Nat  BY <2>1, SentTypes
    <3>4. in' = Idle \/ in' \in Reading  BY <3>1 DEF MessageInv, MessageTypes
    <3> QED  BY <3>1, <3>2, <3>3, <3>4 DEF MessageInv, MessageTypes, Lacks
  <2> QED  BY <2>2, <2>3
<1> QED  BY <1>1, <1>2

\* The main loop reads a packet, and the last one starts the handler.
LEMMA ReadKeepsMessage ==
  ASSUME MessageInv, NEW p \in Packet, msg_read(p)
  PROVE  MessageInv'
<1>1. pc = "idle" /\ HostSends(p) /\ MessageTypes /\ Holding
  BY DEF msg_read, MessageInv, Holding
<1>2. sending' \in Nat  BY <1>1, SentTypes DEF MessageTypes
<1>3. CASE in.state = "IDLE" /\ in' = in
  <2>1. in' = Idle  BY <1>1, <1>3 DEF MessageTypes, Reading
  <2> QED  BY <1>2, <2>1, IdleKeepsMessage
<1>4. CASE in' = Idle  BY <1>2, <1>4, IdleKeepsMessage
<1> DEFINE first == [state |-> "READING", msg |-> p.msg, need |-> p.need,
                     pos |-> 1, swallowed |-> FALSE]
           r == IF in.state = "READING" THEN [in EXCEPT !.pos = @ + 1] ELSE first
<1>5. CASE /\ \/ in.state = "READING" /\ p.first # "junk"
              \/ in.state = "IDLE" /\ p.first = "?##"
           /\ \/ r.pos < r.need /\ in' = r
              \/ r.pos >= r.need /\ msg_process(r)
  <2>1. r \in Reading
    <3>1. CASE in.state = "READING"
      <4>1. in \in Reading  BY <1>1, <3>1 DEF MessageTypes, Idle
      <4> QED  BY <3>1, <4>1 DEF Reading
    <3>2. CASE in.state # "READING"
      <4>1. p.msg \in MainMsg /\ p.need \in Nat  BY <1>1, <1>5, <3>2, SentTypes DEF MessageTypes
      <4> QED  BY <3>2, <4>1 DEF Reading
    <3> QED  BY <3>1, <3>2
  <2>2. ~r.swallowed => r.pos + sending' = r.need
    <3>1. CASE in.state = "READING"
      <4>1. in \in Reading  BY <1>1, <3>1 DEF MessageTypes, Idle
      <4>2. r.pos = in.pos + 1 /\ r.need = in.need /\ r.swallowed = in.swallowed
        BY <3>1, <4>1 DEF Reading
      <4> HIDE DEF r
      <4> SUFFICES ASSUME ~r.swallowed PROVE r.pos + sending' = r.need  OBVIOUS
      <4>3. Lacks(in, sending)  BY <1>1, <3>1, <4>2 DEF MessageInv
      <4>4. in.pos \in Nat /\ in.need \in Nat /\ sending \in Nat
        BY <1>1, <4>1 DEF Reading, MessageTypes
      <4>5. sending # 0  BY <4>3, <4>4 DEF Lacks
      <4>6. p.first = "?"  BY <1>1, <1>5, <3>1, <4>5, SentTypes DEF MessageTypes
      <4>7. sending' = sending - 1  BY <1>1, <4>6, SentTypes DEF MessageTypes
      <4> QED  BY <4>2, <4>3, <4>4, <4>7 DEF Lacks
    <3>2. CASE in.state # "READING"
      <4>1. p.need \in Nat /\ sending' = p.need - 1
        BY <1>1, <1>5, <3>2, SentTypes DEF MessageTypes
      <4> QED  BY <3>2, <4>1
    <3> QED  BY <3>1, <3>2
  <2> HIDE DEF r
  <2>3. CASE r.pos < r.need /\ in' = r
    BY <1>2, <2>1, <2>2, <2>3 DEF MessageInv, MessageTypes, Lacks
  <2>4. CASE msg_process(r)
    <3>1. CASE Done  BY <1>2, <3>1, IdleKeepsMessage DEF Done
    <3>2. CASE AskFrom(r.msg.protect, r)  BY <1>2, <2>1, <3>2, AskKeepsMessage
    <3> QED  BY <2>4, <3>1, <3>2 DEF msg_process
  <2> QED  BY <1>5, <2>3, <2>4
<1> QED  BY <1>3, <1>4, <1>5 DEF msg_read

LEMMA InitMessage == Init => MessageInv
<1> SUFFICES ASSUME Init PROVE MessageInv  OBVIOUS
<1>1. in = Idle /\ sending = 0 /\ in.state = "IDLE"  BY DEF Init, InitMessages, Idle
<1> QED  BY <1>1 DEF MessageInv, MessageTypes

\* What a poll of tiny mode hands over.
LEMMA RxKeepsMessage ==
  ASSUME MessageInv, Holding' => Holding, NEW n, NEW id, hid_rx_callback(n, id)
  PROVE  MessageInv'
<1>1. UNCHANGED <<in, sending>> \/ \E p \in Packet : msg_read_tiny(p, id)
  BY DEF hid_rx_callback
<1> QED  BY <1>1, TinyKeepsMessage

LEMMA DialogKeepsMessage ==
  ASSUME MessageInv, Dialog
  PROVE  MessageInv'
<1>1. sending \in Nat /\ (in = Idle \/ in \in Reading)  BY DEF MessageInv, MessageTypes
<1>2. CASE Done /\ UNCHANGED sending
  BY <1>1, <1>2, IdleKeepsMessage DEF Done
<1>3. CASE AskFrom(todo, in) /\ UNCHANGED sending
  BY <1>1, <1>3, AskKeepsMessage
<1>4. CASE UNCHANGED <<in, sending>> /\ ~Holding'
  BY <1>1, <1>4 DEF MessageInv, MessageTypes
<1>5. CASE (\E n, id : hid_rx_callback(n, id)) /\ (Holding' => Holding)
  BY <1>5, RxKeepsMessage
<1>6. CASE ButtonPoll
  <2>1. (\E n, id : hid_rx_callback(n, id)) /\ pc' \in {"button", "button polled"}
    BY <1>6 DEF ButtonPoll, DialogPoll, TinyPoll
  <2> QED  BY <1>5, <2>1 DEF Holding
<1>7. CASE PinPoll
  <2>1. (\E n, id : hid_rx_callback(n, id)) /\ pc' \in {"pin", "pin polled"}
    BY <1>7 DEF PinPoll, DialogPoll, TinyPoll
  <2> QED  BY <1>5, <2>1 DEF Holding
<1>8. CASE PassphrasePoll
  <2>1. (\E n, id : hid_rx_callback(n, id)) /\ pc' \in {"passphrase", "passphrase polled"}
    BY <1>8 DEF PassphrasePoll, DialogPoll, TinyPoll
  <2> QED  BY <1>5, <2>1 DEF Holding
<1>9. CASE Sleep
  <2>1. (\E n, id : hid_rx_callback(n, id)) /\ pc' = pc  BY <1>9 DEF Sleep
  <2> QED  BY <1>5, <2>1 DEF Holding
<1>10. CASE Acknowledged  BY <1>4, <1>10 DEF Acknowledged, Holding
<1>11. CASE ButtonPressed  BY <1>2, <1>3, <1>4, <1>11 DEF ButtonPressed, Holding
<1>12. CASE DialogCancelled  BY <1>2, <1>12 DEF DialogCancelled
<1>13. CASE PinEntered  BY <1>2, <1>3, <1>13 DEF PinEntered
<1>14. CASE PassphraseEntered  BY <1>3, <1>14 DEF PassphraseEntered
<1>15. CASE SleepOver  BY <1>2, <1>4, <1>15 DEF SleepOver, Holding
<1> QED
  BY <1>6, <1>7, <1>8, <1>9, <1>10, <1>11, <1>12, <1>13, <1>14, <1>15 DEF Dialog

LEMMA UsbKeepsMessage ==
  ASSUME MessageInv, [Next]_vars
  PROVE  MessageInv'
<1>1. CASE UNCHANGED <<in, sending>> /\ (Holding' => Holding)
  BY <1>1, TinyKeepsMessage
<1>2. CASE MainPoll
  <2>1. CASE pc = "idle" /\ UNCHANGED messages
    BY <1>1, <2>1 DEF messages, Holding
  <2>2. CASE \E p \in Packet : msg_read(p)  BY <2>2, ReadKeepsMessage
  <2>3. (\E f \in Frame : u2fhid_read_start(f)) => pc = "idle"  BY DEF u2fhid_read_start
  <2> QED  BY <1>2, <2>1, <2>2, <2>3 DEF MainPoll
<1>3. CASE check_lock_screen
  BY <1>1, <1>3 DEF check_lock_screen, messages, Holding
<1>4. CASE Dialog  BY <1>4, DialogKeepsMessage
<1>5. CASE ReadData
  <2>1. (\E n, id : hid_rx_callback(n, id)) /\ pc' = pc  BY <1>5 DEF ReadData, TinyPoll
  <2> QED  BY <2>1, RxKeepsMessage DEF Holding
<1>6. CASE WaitRound
  <2>1. (\E n, id : hid_rx_callback(n, id)) /\ pc' = pc
    BY <1>6 DEF WaitRound, TinyPoll, WaitForButton
  <2> QED  BY <2>1, RxKeepsMessage DEF Holding
<1>7. CASE Session
  <2>1. pc \in {"data", "dialog"}  BY <1>7 DEF Session, DataTimeout, Answer, WaitOver
  <2> QED  BY <1>1, <1>7, <2>1 DEF Session, messages, Holding
<1>8. CASE UNCHANGED vars  BY <1>1, <1>8 DEF vars, messages, Holding
<1> QED  BY <1>2, <1>3, <1>4, <1>5, <1>6, <1>7, <1>8 DEF Next

-----------------------------------------------------------------------------
(* The ring of outgoing frames.                                            *)

InSession == pc \in {"data", "dialog"}
\* A reader that has begun a message.
Whole(r) ==
  /\ r.cmd # "none" /\ r.msg \in U2fMsg /\ r.cmd = r.msg.cmd /\ r.need = r.msg.need
  /\ r.got \in Nat \ {0}
ReaderInv ==
  IF InSession THEN reader = Waiting \/ Whole(reader) ELSE reader = NoReader
\* Frames received for the answer, each of which made room for one that is sent.
Taken == IF InSession THEN reader.got ELSE 1
RingTypes == u2f_out \in 0 .. U2fRing - 1 /\ backlog \in BOOLEAN /\ dropped = FALSE
\* Without a backlog there is room for an answer of k frames, and for one more.
Slack(k) == ~backlog => u2f_out = 0 \/ u2f_out + k <= U2fRing - 2
RingInv == RingTypes /\ Slack(Taken)
SendInv == ReaderInv /\ RingInv

LEMMA PollKeepsRing ==
  ASSUME RingTypes, NEW k \in Nat, Slack(k), NEW n \in Nat, usbPoll(n)
  PROVE  /\ (n <= k + 1 => RingTypes')
         /\ (n <= k => Slack(1)')
         /\ (n \in {0, 1} => Slack(k + 1 - n)')
<1>1. /\ U2fRing \in Nat /\ U2fRing > 1 /\ u2f_out \in 0 .. U2fRing - 1 /\ dropped = FALSE
      /\ backlog \in BOOLEAN
  BY UsbPollAssumption DEF RingTypes
<1> DEFINE q == queue_u2f_pkt(n)
<1>2. /\ q = IF u2f_out + n <= U2fRing - 1 THEN u2f_out + n ELSE U2fRing - 1
      /\ q \in 0 .. U2fRing - 1
  BY <1>1 DEF queue_u2f_pkt
<1>3. u2f_out' = IF q = 0 THEN 0 ELSE q - 1  BY DEF usbPoll, u2f_out_data
<1>4. /\ dropped' = (dropped \/ (~Filled(n) /\ u2f_out + n > U2fRing - 1))
      /\ backlog' = (Filled(n) /\ u2f_out' > 0)
  BY DEF usbPoll, NoteDrop
<1> HIDE DEF q
<1>5. backlog' \in BOOLEAN /\ dropped' \in BOOLEAN  BY Zenon, <1>4
<1>6. u2f_out' \in 0 .. U2fRing - 1  BY <1>1, <1>2, <1>3
<1>7. ASSUME n <= k + 1 PROVE dropped' = FALSE
  <2>1. ASSUME ~Filled(n), u2f_out + n > U2fRing - 1 PROVE FALSE
    <3>1. ~backlog /\ n < U2fRing - 1  BY <1>1, <2>1 DEF Filled
    <3> QED  BY <1>1, <1>7, <2>1, <3>1 DEF Slack
  <2> QED  BY <1>1, <1>4, <2>1
<1>8. ASSUME ~backlog', u2f_out' # 0 PROVE ~backlog /\ n < U2fRing - 1
  <2>1. u2f_out' > 0  BY <1>6, <1>8, <1>1
  <2>2. ~Filled(n)  BY <1>4, <1>8, <2>1
  <2> QED  BY <1>1, <2>2 DEF Filled
<1>9. ASSUME n <= k PROVE Slack(1)'
  <2> SUFFICES ASSUME ~backlog', u2f_out' # 0 PROVE u2f_out' + 1 <= U2fRing - 2
    BY DEF Slack
  <2>1. ~backlog /\ n < U2fRing - 1  BY <1>8
  <2> QED  BY <1>1, <1>2, <1>3, <1>9, <2>1 DEF Slack
<1>10. ASSUME n \in {0, 1} PROVE Slack(k + 1 - n)'
  <2> SUFFICES ASSUME ~backlog', u2f_out' # 0 PROVE u2f_out' + (k + 1 - n) <= U2fRing - 2
    BY DEF Slack
  <2>1. ~backlog /\ n < U2fRing - 1  BY <1>8
  <2> QED  BY <1>1, <1>2, <1>3, <1>10, <2>1 DEF Slack
<1> QED  BY <1>5, <1>6, <1>7, <1>9, <1>10 DEF RingTypes

LEMMA QueueKeepsRing ==
  ASSUME RingTypes, NEW k \in Nat, Slack(k), NEW n \in Nat, n <= k, Queue(n)
  PROVE  RingTypes' /\ Slack(0)'
<1>1. /\ U2fRing \in Nat /\ U2fRing > 1 /\ u2f_out \in 0 .. U2fRing - 1 /\ dropped = FALSE
      /\ backlog \in BOOLEAN
  BY UsbPollAssumption DEF RingTypes
<1>2. /\ u2f_out' = IF u2f_out + n <= U2fRing - 1 THEN u2f_out + n ELSE U2fRing - 1
      /\ u2f_out' \in 0 .. U2fRing - 1
  BY <1>1 DEF Queue, queue_u2f_pkt
<1>3. /\ dropped' = (dropped \/ (~Filled(n) /\ u2f_out + n > U2fRing - 1))
      /\ backlog' = Filled(n)
  BY DEF Queue, NoteDrop
<1>4. backlog' \in BOOLEAN /\ dropped' \in BOOLEAN
  <2>1. Filled(n) \in BOOLEAN  BY Zenon DEF Filled
  <2> QED  BY Zenon, <1>3, <2>1
<1>5. ASSUME ~Filled(n) PROVE u2f_out + n <= U2fRing - 2
  <2>1. ~backlog /\ n < U2fRing - 1  BY <1>1, <1>5 DEF Filled
  <2> QED  BY <1>1, <2>1 DEF Slack
<1>6. dropped' = FALSE
  <2>1. ~(~Filled(n) /\ u2f_out + n > U2fRing - 1)  BY <1>1, <1>5
  <2> QED  BY <1>1, <1>3, <2>1
<1>7. Slack(0)'
  <2> SUFFICES ASSUME ~backlog' PROVE u2f_out' + 0 <= U2fRing - 2
    BY DEF Slack
  <2>1. u2f_out + n <= U2fRing - 2  BY <1>3, <1>5
  <2> QED  BY <1>1, <1>2, <2>1
<1> QED  BY <1>2, <1>4, <1>6, <1>7 DEF RingTypes

LEMMA SleepKeepsRing ==
  ASSUME RingTypes, NEW k \in Nat, Slack(k), NEW n \in 0 .. 1, usbSleep(n)
  PROVE  RingTypes' /\ Slack(k)'
<1>1. /\ U2fRing \in Nat /\ U2fRing > 1 /\ u2f_out \in 0 .. U2fRing - 1 /\ dropped = FALSE
      /\ backlog \in BOOLEAN
  BY UsbPollAssumption DEF RingTypes
<1>2. /\ u2f_out' = IF u2f_out + n <= U2fRing - 1 THEN u2f_out + n ELSE U2fRing - 1
      /\ u2f_out' \in 0 .. U2fRing - 1
  BY <1>1 DEF usbSleep, queue_u2f_pkt
<1>3. dropped' = dropped /\ backlog' = (backlog \/ n > 0)  BY DEF usbSleep
<1>4. backlog' \in BOOLEAN  BY Zenon, <1>1, <1>3
<1>5. Slack(k)'
  <2> SUFFICES ASSUME ~backlog' PROVE u2f_out' = 0 \/ u2f_out' + k <= U2fRing - 2
    BY DEF Slack
  <2>3. ~(n > 0) /\ ~backlog  BY Zenon, <1>3
  <2>1. n = 0 /\ ~backlog  BY <2>3
  <2>2. u2f_out' = u2f_out  BY <1>1, <1>2, <2>1
  <2> QED  BY <2>1, <2>2 DEF Slack
<1> QED  BY <1>1, <1>2, <1>3, <1>4, <1>5 DEF RingTypes

LEMMA LessSlack ==
  ASSUME RingTypes, NEW k \in Nat, NEW j \in Nat, j <= k
  PROVE  Slack(k) => Slack(j)
<1> QED  BY UsbPollAssumption DEF Slack, RingTypes

\* The messages and what their answers take.
LEMMA MessageFields ==
  ASSUME NEW m \in U2fMsg
  PROVE  /\ m.cmd # "none" /\ m.need \in Nat \ {0}
         /\ m.cmd = "MSG" => /\ m.ins \in {"REGISTER", "AUTHENTICATE"} => m.need = 2
<1>1. CASE m \in {[cmd |-> "PING", need |-> n] : n \in Pings}
  <2>1. \A n \in Pings : n \in Nat \ {0}  BY U2fAssumption
  <2>2. m.cmd = "PING" /\ m.need \in Pings  BY <1>1
  <2> QED  BY <2>1, <2>2
<1>2. CASE m = [cmd |-> "WINK", need |-> 1]  BY <1>2
<1>3. CASE m \in {Ins("bad length", NoReq, 1), Ins("refused", NoReq, 2)}
  <2>1. CASE m = Ins("bad length", NoReq, 1)
    <3>1. m.cmd = "MSG" /\ m.need = 1  BY Zenon, <2>1 DEF Ins
    <3>2. m.ins \notin {"REGISTER", "AUTHENTICATE"}  BY Zenon, <2>1 DEF Ins
    <3> QED  BY ONLY <3>1, <3>2
  <2>2. CASE m = Ins("refused", NoReq, 2)
    <3>1. m.cmd = "MSG" /\ m.ins = "refused" /\ m.need = 2  BY <2>2 DEF Ins
    <3> QED  BY <3>1
  <2> QED  BY <1>3, <2>1, <2>2
<1>4. CASE m \in {Ins("REGISTER", r, 2) : r \in Registers}  BY <1>4 DEF Ins
<1>5. CASE m \in {Ins("AUTHENTICATE", a, 2) : a \in Auths}  BY <1>5 DEF Ins
<1> QED  BY <1>1, <1>2, <1>3, <1>4, <1>5 DEF U2fMsg

LEMMA CommandsOfMessages ==
  ASSUME NEW m \in U2fMsg
  PROVE  m.cmd \in {"PING", "WINK", "MSG"}
<1>1. CASE m \in {[cmd |-> "PING", need |-> n] : n \in Pings}  BY <1>1
<1>2. CASE m = [cmd |-> "WINK", need |-> 1]  BY <1>2
<1>3. CASE m \in {Ins("bad length", NoReq, 1), Ins("refused", NoReq, 2)}
  <2>1. \A i, r, n : Ins(i, r, n).cmd = "MSG"  BY DEF Ins
  <2>2. m = Ins("bad length", NoReq, 1) \/ m = Ins("refused", NoReq, 2)  BY Zenon, <1>3
  <2>3. m.cmd = "MSG"  BY Zenon, <2>1, <2>2
  <2> QED  BY Zenon, <2>3
<1>4. CASE m \in {Ins("REGISTER", r, 2) : r \in Registers}  BY <1>4 DEF Ins
<1>5. CASE m \in {Ins("AUTHENTICATE", a, 2) : a \in Auths}  BY <1>5 DEF Ins
<1> QED  BY Zenon, <1>1, <1>2, <1>3, <1>4, <1>5 DEF U2fMsg

LEMMA NoReaderIsNotWhole == ~Whole(NoReader)
<1> SUFFICES ASSUME Whole(NoReader) PROVE FALSE  OBVIOUS
<1>1. NoReader.cmd = "no reader"  BY Zenon DEF NoReader
<1>2. NoReader.msg \in U2fMsg /\ NoReader.cmd = NoReader.msg.cmd  BY DEF Whole
<1>3. NoReader.msg.cmd \in {"PING", "WINK", "MSG"}  BY <1>2, CommandsOfMessages
<1> QED  BY Zenon, <1>1, <1>2, <1>3

LEMMA AnswerSize ==
  ASSUME NEW m \in U2fMsg
  PROVE  Handled(m).answer \in Nat /\ Handled(m).answer <= m.need
<1> DEFINE Reply(n) == [Same EXCEPT !.answer = n]
           none == [Same EXCEPT !.dialog = FALSE]
<1>1. \A n : Reply(n).answer = n  BY OtherFields
<1>2. none.answer = 0  BY Zenon DEF Same
<1>3. Handled(m) = IF m.cmd = "MSG" THEN u2fhid_msg(m)
                   ELSE IF m.cmd = "PING" THEN Reply(m.need) ELSE Reply(1)
  BY Zenon DEF Handled, Answered
<1>4. u2fhid_msg(m) = IF m.ins = "REGISTER" THEN u2f_register(m)
                      ELSE IF m.ins = "AUTHENTICATE" THEN u2f_authenticate(m)
                      ELSE IF m.ins = "refused" THEN Reply(1) ELSE Same
  BY Zenon DEF u2fhid_msg, Answered
<1>5. \/ u2f_register(m) = AskRegister(m) \/ u2f_register(m) = Signed
      \/ u2f_register(m) = none
  BY Zenon DEF u2f_register, AskRegister
<1>6. \/ u2f_authenticate(m) = AskAuthenticate(m) \/ u2f_authenticate(m) = Signed
      \/ u2f_authenticate(m) = Same
  BY Zenon DEF u2f_authenticate, AskAuthenticate
<1> HIDE DEF Reply, none
<1>7. u2f_register(m).answer \in {0, 1, 2}  BY <1>2, <1>5, AskFields, SignedFields
<1>8. u2f_authenticate(m).answer \in {0, 1, 2}
  BY <1>6, AskFields, SignedFields, SameFields
<1>9. m.need \in Nat \ {0} /\ (m.cmd = "MSG" /\ m.ins \in {"REGISTER", "AUTHENTICATE"} => m.need = 2)
  BY MessageFields
<1>10. CASE m.cmd = "MSG"
  <2>1. Handled(m) = u2fhid_msg(m)  BY <1>3, <1>10
  <2>2. CASE m.ins = "REGISTER"
    <3>1. u2fhid_msg(m) = u2f_register(m)  BY <1>4, <2>2
    <3> QED  BY <1>7, <1>9, <1>10, <2>1, <2>2, <3>1
  <2>3. CASE m.ins = "AUTHENTICATE"
    <3>1. u2fhid_msg(m) = u2f_authenticate(m)  BY <1>4, <2>3
    <3> QED  BY <1>8, <1>9, <1>10, <2>1, <2>3, <3>1
  <2>4. CASE m.ins \notin {"REGISTER", "AUTHENTICATE"}
    <3>1. u2fhid_msg(m) = Reply(1) \/ u2fhid_msg(m) = Same  BY <1>4, <2>4
    <3>2. u2fhid_msg(m).answer \in {0, 1}  BY <1>1, <3>1, SameFields
    <3> QED  BY <1>9, <2>1, <3>2
  <2> QED  BY <2>2, <2>3, <2>4
<1>11. CASE m.cmd # "MSG"
  <2>1. Handled(m) = Reply(m.need) \/ Handled(m) = Reply(1)  BY <1>3, <1>11
  <2> QED  BY <1>1, <1>9, <2>1
<1> QED  BY <1>10, <1>11

\* A frame in a session takes one packet of the ring or lets one go.
LEMMA WaitingFields ==
  /\ Waiting.cmd = "none" /\ Waiting.got = 0 /\ Waiting.need = 0 /\ Waiting.seq = NoSeq
  /\ ~Whole(Waiting) /\ Waiting # NoReader
<1>1. /\ Waiting.cmd = "none" /\ Waiting.got = 0 /\ Waiting.need = 0 /\ Waiting.seq = NoSeq
  BY DEF Waiting
<1>2. NoReader.cmd = "no reader"  BY Zenon DEF NoReader
<1>3. Waiting # NoReader  BY Zenon, <1>1, <1>2
<1> QED  BY <1>1, <1>3 DEF Whole

LEMMA FrameMessage ==
  ASSUME NEW f \in Frame, f.type = "START"
  PROVE  f.msg \in U2fMsg
<1> QED  BY DEF Frame

LEMMA BegunIsWhole ==
  ASSUME NEW f \in Frame, f.type = "START"
  PROVE  Whole(u2fhid_init_cmd(f)) /\ u2fhid_init_cmd(f).got = 1
<1>1. f.msg \in U2fMsg /\ f.msg.cmd # "none"  BY FrameMessage, MessageFields
<1>2. /\ u2fhid_init_cmd(f).msg = f.msg /\ u2fhid_init_cmd(f).cmd = f.msg.cmd
      /\ u2fhid_init_cmd(f).need = f.msg.need /\ u2fhid_init_cmd(f).got = 1
  BY DEF u2fhid_init_cmd
<1> QED  BY <1>1, <1>2 DEF Whole

\* The reader after a frame, in a session and outside.
LEMMA FrameKeepsReader ==
  ASSUME reader = NoReader \/ reader = Waiting \/ Whole(reader),
         NEW f \in Frame, NEW n, u2fhid_read(f, n)
  PROVE  /\ n \in {0, 1}
         /\ reader = NoReader => n = 1 /\ reader' = NoReader
         /\ reader # NoReader => /\ reader' = Waiting \/ Whole(reader')
                                 /\ reader.got \in Nat /\ reader'.got \in Nat
                                 /\ reader'.got <= reader.got + 1 - n
<1>1. /\ reader = NoReader \/ reader = Waiting \/ (Whole(reader) /\ reader.got \in Nat \ {0})
      /\ Waiting.got = 0 /\ ~Whole(NoReader)
  BY WaitingFields, NoReaderIsNotWhole DEF Whole
<1>2. CASE u2fhid_init(f) /\ n = 1
  <2>1. reader' = reader \/ (reader # NoReader /\ reader' = Waiting)
    BY <1>2 DEF u2fhid_init
  <2> QED  BY <1>1, <1>2, <2>1, WaitingFields
<1>3. CASE n = 1 /\ reader' = reader  BY <1>1, <1>3, WaitingFields
<1>4. CASE ~Busy(f) /\ f.type = "START" /\ reader' = u2fhid_init_cmd(f) /\ n = 0
  <2>1. reader # NoReader  BY <1>4 DEF Busy
  <2>2. Whole(reader') /\ reader'.got = 1  BY <1>4, BegunIsWhole
  <2> QED  BY <1>1, <1>4, <2>1, <2>2
<1>5. CASE ~Busy(f) /\ reader' = Waiting /\ n = 1
  <2>1. reader # NoReader  BY <1>5 DEF Busy
  <2> QED  BY <1>1, <1>5, <2>1
<1>6. CASE /\ ~Busy(f) /\ n = 0
           /\ reader' = IF reader.got < reader.need /\ reader.got < MaxFrames
                        THEN u2fhid_read_cont(f) ELSE reader
  <2>1. reader # NoReader  BY <1>6 DEF Busy
  <2>2. CASE reader' = reader  BY <1>1, <1>6, <2>1, <2>2
  <2>3. CASE reader.got < reader.need /\ reader' = u2fhid_read_cont(f)
    <3>1. Whole(reader)  BY <1>1, <2>1, <2>3, WaitingFields
    <3>2. /\ reader'.msg = reader.msg /\ reader'.cmd = reader.cmd /\ reader'.need = reader.need
          /\ reader'.got = reader.got + 1
      BY <2>3 DEF u2fhid_read_cont
    <3>3. reader.got \in Nat \ {0}  BY <3>1 DEF Whole
    <3>4. Whole(reader')  BY <3>1, <3>2, <3>3 DEF Whole
    <3> QED  BY <1>6, <2>1, <3>2, <3>3, <3>4
  <2> QED  BY <1>6, <2>2, <2>3
<1> QED  BY <1>2, <1>3, <1>4, <1>5, <1>6 DEF u2fhid_read

\* A poll of tiny mode, in a session or in a dialog of a handler.
LEMMA RxKeepsReader ==
  ASSUME ReaderInv, NEW n, NEW id, hid_rx_callback(n, id), InSession' = InSession
  PROVE  /\ n \in {0, 1} /\ ReaderInv'
         /\ Taken \in Nat /\ Taken' \in Nat /\ (InSession => Taken' <= Taken + 1 - n)
         /\ (~InSession => Taken = 1 /\ Taken' = 1)
<1>1. reader = NoReader \/ reader = Waiting \/ Whole(reader)  BY DEF ReaderInv
<1>2. InSession => reader # NoReader
  BY <1>1, WaitingFields, NoReaderIsNotWhole DEF ReaderInv
<1>3. InSession => reader.got \in Nat  BY WaitingFields DEF ReaderInv, Whole
<1>4. CASE n = 0 /\ reader' = reader
  BY <1>3, <1>4 DEF ReaderInv, Taken
<1>5. ASSUME NEW f \in Frame, u2fhid_read(f, n)
      PROVE  /\ n \in {0, 1} /\ ReaderInv'
             /\ Taken \in Nat /\ Taken' \in Nat /\ (InSession => Taken' <= Taken + 1 - n)
             /\ (~InSession => Taken = 1 /\ Taken' = 1)
  <2>1. /\ n \in {0, 1}
        /\ reader = NoReader => n = 1 /\ reader' = NoReader
        /\ reader # NoReader => /\ reader' = Waiting \/ Whole(reader')
                                /\ reader.got \in Nat /\ reader'.got \in Nat
                                /\ reader'.got <= reader.got + 1 - n
    BY <1>1, <1>5, FrameKeepsReader
  <2> QED  BY <1>2, <2>1 DEF ReaderInv, Taken, Whole
<1> QED  BY <1>4, <1>5 DEF hid_rx_callback

LEMMA TinyPollKeepsRing ==
  ASSUME SendInv, NEW id, TinyPoll(id), InSession' = InSession
  PROVE  SendInv'
<1>1. PICK n \in 0 .. 1 : hid_rx_callback(n, id) /\ usbPoll(n)  BY DEF TinyPoll
<1>2. /\ ReaderInv' /\ Taken \in Nat /\ Taken' \in Nat
      /\ (InSession => Taken' <= Taken + 1 - n) /\ (~InSession => Taken = 1 /\ Taken' = 1)
  BY <1>1, RxKeepsReader DEF SendInv
<1>8. PICK k \in Nat : k = Taken  BY <1>2
<1>3. RingTypes /\ Slack(k)  BY <1>8 DEF SendInv, RingInv, Slack
<1>4. n \in Nat /\ n <= k + 1 /\ n \in {0, 1}  BY <1>3
<1>5. RingTypes' /\ Slack(k + 1 - n)'
  BY <1>1, <1>3, <1>4, PollKeepsRing
<1>6. Taken' <= k + 1 - n  BY <1>2, <1>4, <1>8
<1>7. Slack(Taken)'
  <2> SUFFICES ASSUME ~backlog', u2f_out' # 0 PROVE u2f_out' + Taken' <= U2fRing - 2
    BY DEF Slack
  <2>1. u2f_out' + (k + 1 - n) <= U2fRing - 2  BY <1>5 DEF Slack
  <2>2. u2f_out' \in Nat /\ U2fRing \in Nat  BY <1>5, UsbPollAssumption DEF RingTypes
  <2>3. PICK j \in Nat : j = k + 1 - n  BY <1>4
  <2>4. PICK t \in Nat : t = Taken'  BY <1>2
  <2>5. PICK u \in Nat : u = u2f_out'  BY <2>2
  <2>6. t <= j /\ u + j <= U2fRing - 2  BY <1>6, <2>1, <2>3, <2>4, <2>5
  <2>7. u + t <= U2fRing - 2  BY <2>2, <2>6
  <2> QED  BY <2>4, <2>5, <2>7
<1> QED  BY <1>2, <1>5, <1>7 DEF SendInv, RingInv

\* The end of a session, or a poll outside of any.
LEMMA OutsideKeepsRing ==
  ASSUME RingTypes, NEW k \in Nat, Slack(k), NEW n \in Nat, n <= k, usbPoll(n),
         ~InSession', reader' = NoReader
  PROVE  SendInv'
<1>1. RingTypes' /\ Slack(1)'
  <2>1. n <= k + 1  OBVIOUS
  <2> QED  BY <2>1, PollKeepsRing
<1>2. Taken' = 1  BY DEF Taken
<1>3. Slack(Taken)'  BY <1>1, <1>2 DEF Slack
<1> QED  BY <1>1, <1>3 DEF SendInv, RingInv, ReaderInv

\* Steps of a handler, or of the main loop, with nothing to send.
LEMMA IdleKeepsRing ==
  ASSUME SendInv, ~InSession, ~InSession', reader' = reader, usbPoll(0) \/ UNCHANGED ring
  PROVE  SendInv'
<1>1. reader = NoReader /\ RingTypes /\ Taken = 1
  BY DEF SendInv, ReaderInv, RingInv, Taken
<1>2. Slack(1)  BY <1>1 DEF SendInv, RingInv, Slack
<1>3. CASE usbPoll(0)
  <2>1. 0 \in Nat /\ 1 \in Nat /\ 0 <= 1  OBVIOUS
  <2> QED  BY <1>1, <1>2, <1>3, <2>1, OutsideKeepsRing
<1>4. CASE UNCHANGED ring
  <2>1. UNCHANGED <<u2f_out, backlog, dropped>>  BY <1>4 DEF ring
  <2>2. Taken' = 1  BY DEF Taken
  <2>3. RingTypes' /\ Slack(Taken)'  BY <1>1, <1>2, <2>1, <2>2 DEF RingTypes, Slack
  <2> QED  BY <1>1, <2>3 DEF SendInv, RingInv, ReaderInv
<1> QED  BY <1>3, <1>4

LEMMA AskKeepsRing ==
  ASSUME NEW left, NEW r, AskFrom(left, r)
  PROVE  ~InSession' /\ (usbPoll(0) \/ UNCHANGED ring)
<1>1. CASE Done  BY <1>1 DEF Done, InSession
<1>2. CASE pc' \in {"button", "pin", "sleep", "passphrase"} /\ UNCHANGED ring
  BY <1>2 DEF InSession
<1>3. CASE "button" \in left  BY <1>2, <1>3 DEF AskFrom
<1>4. CASE "button" \notin left /\ left # {}  BY <1>1, <1>2, <1>4 DEF AskFrom
<1>5. CASE left = {}  BY <1>1, <1>5 DEF AskFrom
<1> QED  BY <1>3, <1>4, <1>5

LEMMA PacketKeepsRing ==
  ASSUME NEW p \in Packet, msg_read(p)
  PROVE  ~InSession /\ ~InSession' /\ (usbPoll(0) \/ UNCHANGED ring)
<1>1. pc = "idle" /\ ~InSession  BY DEF msg_read, InSession
<1>2. CASE usbPoll(0) /\ pc' = pc  BY <1>1, <1>2 DEF InSession
<1>3. CASE \E r : msg_process(r)
  <2>1. PICK r : msg_process(r)  BY <1>3
  <2>2. CASE Done  BY <1>1, <2>2 DEF Done, InSession
  <2>3. CASE AskFrom(r.msg.protect, r)  BY <1>1, <2>3, AskKeepsRing
  <2> QED  BY <1>1, <2>1, <2>2, <2>3 DEF msg_process
<1>4. (usbPoll(0) /\ pc' = pc) \/ \E r : msg_process(r)  BY DEF msg_read
<1> QED  BY <1>1, <1>2, <1>3, <1>4

LEMMA DialogKeepsRing ==
  ASSUME SendInv, Dialog
  PROVE  SendInv'
<1>1. CASE U2fStays /\ ~InSession /\ ~InSession' /\ (usbPoll(0) \/ UNCHANGED ring)
  BY <1>1, IdleKeepsRing DEF U2fStays, u2f
<1>2. CASE (\E id : TinyPoll(id)) /\ ~InSession /\ ~InSession'
  <2>1. InSession \in BOOLEAN /\ InSession' \in BOOLEAN  BY DEF InSession
  <2>2. InSession' = InSession  BY <1>2, <2>1
  <2> QED  BY <1>2, <2>2, TinyPollKeepsRing
<1>3. ~InSession
  <2>1. ButtonPoll \/ PinPoll \/ PassphrasePoll => pc \in {"button", "pin", "passphrase"}
    <3>1. ASSUME ButtonPoll PROVE pc = "button"  BY <3>1 DEF ButtonPoll, DialogPoll
    <3>2. ASSUME PinPoll PROVE pc = "pin"  BY <3>2 DEF PinPoll, DialogPoll
    <3>3. ASSUME PassphrasePoll PROVE pc = "passphrase"
      BY <3>3 DEF PassphrasePoll, DialogPoll
    <3> QED  BY <3>1, <3>2, <3>3
  <2>2. Sleep \/ ButtonPressed \/ SleepOver => pc \in {"nap", "sleep", "lock"}
    BY DEF Sleep, ButtonPressed, SleepOver
  <2>3. Acknowledged \/ DialogCancelled \/ PinEntered \/ PassphraseEntered
          => pc \in {"nap", "button polled", "pin polled", "passphrase polled"}
    BY Zenon DEF Acknowledged, DialogCancelled, PinEntered, PassphraseEntered
  <2>4. \/ pc \in {"button", "pin", "passphrase"} \/ pc \in {"nap", "sleep", "lock"}
        \/ pc \in {"nap", "button polled", "pin polled", "passphrase polled"}
    BY <2>1, <2>2, <2>3 DEF Dialog
  <2> QED  BY Zenon, <2>4 DEF InSession
<1>4. CASE ButtonPoll
  <2>1. (\E id : TinyPoll(id)) /\ pc' \in {"button", "button polled"}
    BY <1>4 DEF ButtonPoll, DialogPoll
  <2>2. ~InSession'  BY Zenon, <2>1 DEF InSession
  <2> QED  BY <1>2, <1>3, <2>1, <2>2
<1>5. CASE PinPoll
  <2>1. (\E id : TinyPoll(id)) /\ pc' \in {"pin", "pin polled"}
    BY <1>5 DEF PinPoll, DialogPoll
  <2>2. ~InSession'  BY Zenon, <2>1 DEF InSession
  <2> QED  BY <1>2, <1>3, <2>1, <2>2
<1>6. CASE PassphrasePoll
  <2>1. (\E id : TinyPoll(id)) /\ pc' \in {"passphrase", "passphrase polled"}
    BY <1>6 DEF PassphrasePoll, DialogPoll
  <2>2. ~InSession'  BY Zenon, <2>1 DEF InSession
  <2> QED  BY <1>2, <1>3, <2>1, <2>2
<1>7. CASE Sleep
  <2>1. PICK n \in 0 .. 1, id \in TinyIds : hid_rx_callback(n, id) /\ usbSleep(n)
    BY <1>7 DEF Sleep
  <2>2. InSession' = InSession  BY <1>7 DEF Sleep, InSession
  <2>3. ReaderInv' /\ Taken = 1 /\ Taken' = 1
    BY <1>3, <2>1, <2>2, RxKeepsReader DEF SendInv
  <2>4. RingTypes /\ Slack(1)  BY <2>3 DEF SendInv, RingInv, Slack
  <2>5. RingTypes' /\ Slack(1)'  BY <2>1, <2>4, SleepKeepsRing
  <2> QED  BY <2>3, <2>5 DEF SendInv, RingInv, Slack
<1>8. ASSUME Done PROVE usbPoll(0) /\ ~InSession'  BY <1>8 DEF Done, InSession
<1>9. ASSUME NEW left, NEW r, AskFrom(left, r)
      PROVE  ~InSession' /\ (usbPoll(0) \/ UNCHANGED ring)
  BY <1>9, AskKeepsRing
<1>10. CASE Acknowledged
  <2>1. U2fStays /\ UNCHANGED ring /\ pc' = "nap"  BY <1>10 DEF Acknowledged
  <2> QED  BY <1>1, <1>3, <2>1 DEF InSession
<1>11. CASE ButtonPressed
  <2>1. U2fStays /\ (AskFrom(todo, in) \/ Done \/ (pc' = "button" /\ UNCHANGED ring))
    BY <1>11 DEF ButtonPressed, ring
  <2>2. pc' = "button" => ~InSession'  BY DEF InSession
  <2> QED  BY <1>1, <1>3, <1>8, <1>9, <2>1, <2>2
<1>12. CASE DialogCancelled  BY <1>1, <1>3, <1>8, <1>12 DEF DialogCancelled
<1>13. CASE PinEntered  BY <1>1, <1>3, <1>8, <1>9, <1>13 DEF PinEntered
<1>14. CASE PassphraseEntered  BY <1>1, <1>3, <1>9, <1>14 DEF PassphraseEntered
<1>15. CASE SleepOver
  <2>1. U2fStays /\ (Done \/ (pc' = "pin" /\ UNCHANGED ring))  BY <1>15 DEF SleepOver
  <2>2. pc' = "pin" => ~InSession'  BY DEF InSession
  <2> QED  BY <1>1, <1>3, <1>8, <2>1, <2>2
<1> QED
  BY <1>4, <1>5, <1>6, <1>7, <1>10, <1>11, <1>12, <1>13, <1>14, <1>15 DEF Dialog

LEMMA StartKeepsRing ==
  ASSUME SendInv, NEW f \in Frame, u2fhid_read_start(f)
  PROVE  SendInv'
<1>1. pc = "idle" /\ ~InSession  BY DEF u2fhid_read_start, InSession
<1>2. reader = NoReader /\ RingTypes /\ Taken = 1  BY <1>1 DEF SendInv, ReaderInv, RingInv, Taken
<1>3. Slack(1)  BY <1>2 DEF SendInv, RingInv, Slack
<1>4. CASE u2fhid_init(f) /\ usbPoll(1) /\ pc' = pc
  <2>1. reader' = NoReader  BY <1>2, <1>4 DEF u2fhid_init
  <2>2. ~InSession'  BY <1>1, <1>4 DEF InSession
  <2> QED  BY <1>2, <1>3, <1>4, <2>1, <2>2, OutsideKeepsRing
<1>5. CASE usbPoll(1) /\ UNCHANGED <<pc, reader>>
  <2>1. ~InSession'  BY <1>1, <1>5 DEF InSession
  <2> QED  BY <1>2, <1>3, <1>5, <2>1, OutsideKeepsRing
<1>6. CASE usbPoll(0) /\ UNCHANGED <<pc, reader>>
  BY <1>1, <1>6, IdleKeepsRing DEF InSession
<1>7. CASE /\ f.type = "START" /\ reader' = u2fhid_init_cmd(f)
           /\ pc' = "data" /\ UNCHANGED ring
  <2>1. Whole(reader') /\ reader'.got = 1  BY <1>7, BegunIsWhole
  <2>2. InSession'  BY <1>7 DEF InSession
  <2>3. ReaderInv' /\ Taken' = 1  BY <2>1, <2>2 DEF ReaderInv, Taken, Whole
  <2>4. UNCHANGED <<u2f_out, backlog, dropped>>  BY <1>7 DEF ring
  <2>5. RingTypes' /\ Slack(Taken)'  BY <1>2, <1>3, <2>3, <2>4 DEF RingTypes, Slack
  <2> QED  BY <2>3, <2>5 DEF SendInv, RingInv
<1> QED  BY <1>4, <1>5, <1>6, <1>7 DEF u2fhid_read_start

\* The answer takes no more than the frames of the message made room for.
LEMMA AnswerKeepsRing ==
  ASSUME SendInv, Answer
  PROVE  SendInv'
<1> DEFINE h == IF reader.cmd = "none" THEN Same ELSE Handled(reader.msg)
<1>1. pc = "data" /\ reader.got >= reader.need /\ GoOn(h)  BY DEF Answer
<1>2. reader = Waiting \/ Whole(reader)  BY <1>1 DEF SendInv, ReaderInv, InSession
<1>3. h.answer \in Nat /\ reader.got \in Nat /\ h.answer <= reader.got
  <2>1. CASE reader = Waiting
    <3>1. h.answer = 0  BY <2>1, WaitingFields, SameFields
    <3> QED  BY <2>1, <3>1, WaitingFields
  <2>2. CASE Whole(reader)
    <3>1. h = Handled(reader.msg)  BY <2>2 DEF Whole
    <3>2. reader.msg \in U2fMsg /\ reader.need = reader.msg.need /\ reader.got \in Nat
      BY <2>2 DEF Whole
    <3>3. h.answer \in Nat /\ h.answer <= reader.msg.need  BY <3>1, <3>2, AnswerSize
    <3>4. reader.msg.need \in Nat  BY <3>2, MessageFields
    <3> HIDE DEF h
    <3> QED  BY <1>1, <3>2, <3>3, <3>4
  <2> QED  BY <1>2, <2>1, <2>2
<1>4. PICK k \in Nat : k = reader.got  BY <1>3
<1>5. PICK n \in Nat : n = h.answer  BY <1>3
<1>6. RingTypes /\ Slack(k) /\ n <= k
  <2>1. Taken = k  BY <1>1, <1>4 DEF Taken, InSession
  <2> QED  BY <1>3, <1>4, <1>5, <2>1 DEF SendInv, RingInv, Slack
<1>7. CASE h.dialog
  <2>1. pc' = "dialog" /\ reader' = Waiting /\ Queue(n)
    BY Zenon, <1>1, <1>5, <1>7 DEF GoOn
  <2>2. RingTypes' /\ Slack(0)'  BY <1>6, <2>1, QueueKeepsRing
  <2>3. InSession' /\ Taken' = 0  BY <2>1, WaitingFields DEF InSession, Taken
  <2>4. Slack(Taken)'  BY <2>2, <2>3 DEF Slack
  <2> QED  BY <2>1, <2>2, <2>3, <2>4 DEF SendInv, RingInv, ReaderInv
<1>8. CASE ~h.dialog
  <2>1. Return /\ usbPoll(n)  BY Zenon, <1>1, <1>5, <1>8 DEF GoOn
  <2>2. reader' = NoReader /\ ~InSession'  BY <2>1 DEF Return, InSession
  <2> QED  BY <1>6, <2>1, <2>2, OutsideKeepsRing
<1> QED  BY <1>7, <1>8

LEMMA SessionKeepsRing ==
  ASSUME SendInv, Session
  PROVE  SendInv'
<1>1. InSession  BY DEF Session, DataTimeout, Answer, WaitOver, InSession
<1>2. /\ reader = Waiting \/ Whole(reader)
      /\ reader.got \in Nat /\ Taken = reader.got /\ RingTypes
  BY <1>1, WaitingFields DEF SendInv, ReaderInv, RingInv, Whole, Taken
<1>3. PICK k \in Nat : k = reader.got  BY <1>2
<1>4. Slack(k)  BY <1>2, <1>3 DEF SendInv, RingInv, Slack
<1>5. ASSUME Return PROVE reader' = NoReader /\ ~InSession'
  BY <1>5 DEF Return, InSession
<1>6. CASE DataTimeout
  <2>1. Return /\ usbPoll(1) /\ reader.got < reader.need  BY <1>6 DEF DataTimeout
  <2>2. k >= 1
    <3>1. reader # Waiting  BY <1>2, <2>1, WaitingFields
    <3> QED  BY <1>2, <1>3, <3>1 DEF Whole
  <2> QED  BY <1>2, <1>4, <1>5, <2>1, <2>2, OutsideKeepsRing
<1>7. CASE Answer  BY <1>7, AnswerKeepsRing
<1>8. CASE WaitOver
  <2>1. CASE pc' = "data" /\ UNCHANGED reader /\ UNCHANGED ring
    <3>1. UNCHANGED <<u2f_out, backlog, dropped>>  BY <2>1 DEF ring
    <3>2. InSession' /\ Taken' = Taken  BY <1>1, <2>1 DEF InSession, Taken
    <3> QED  BY <1>2, <2>1, <3>1, <3>2 DEF SendInv, RingInv, ReaderInv, RingTypes, Slack, Whole
  <2>2. CASE Return /\ usbPoll(0)
    <3>1. 0 \in Nat /\ 0 <= k  OBVIOUS
    <3> QED  BY <1>2, <1>4, <1>5, <2>2, <3>1, OutsideKeepsRing
  <2> QED  BY <1>8, <2>1, <2>2 DEF WaitOver
<1> QED  BY <1>6, <1>7, <1>8 DEF Session

LEMMA UsbKeepsRing ==
  ASSUME SendInv, [Next]_vars
  PROVE  SendInv'
<1>1. CASE MainPoll
  <2>1. CASE pc = "idle" /\ usbPoll(0) /\ UNCHANGED pc /\ U2fStays
    BY <2>1, IdleKeepsRing DEF U2fStays, u2f, InSession
  <2>2. CASE \E f \in Frame : u2fhid_read_start(f)  BY <2>2, StartKeepsRing
  <2>3. CASE (\E p \in Packet : msg_read(p)) /\ U2fStays
    <3>1. ~InSession /\ ~InSession' /\ (usbPoll(0) \/ UNCHANGED ring)
      BY <2>3, PacketKeepsRing
    <3> QED  BY <2>3, <3>1, IdleKeepsRing DEF U2fStays, u2f
  <2> QED  BY <1>1, <2>1, <2>2, <2>3 DEF MainPoll
<1>2. CASE check_lock_screen
  <2>1. ~InSession /\ ~InSession'  BY <1>2 DEF check_lock_screen, InSession
  <2> QED  BY <1>2, <2>1, IdleKeepsRing DEF check_lock_screen, U2fStays, u2f
<1>3. CASE Dialog  BY <1>3, DialogKeepsRing
<1>4. CASE ReadData \/ WaitRound
  <2>1. (\E id : TinyPoll(id)) /\ pc' = pc
    BY <1>4 DEF ReadData, WaitRound, WaitForButton
  <2> QED  BY <2>1, TinyPollKeepsRing DEF InSession
<1>5. CASE Session  BY <1>5, SessionKeepsRing
<1>6. CASE UNCHANGED vars
  <2>1. UNCHANGED <<pc, reader, u2f_out, backlog, dropped>>  BY <1>6 DEF vars, u2f, ring
  <2> QED  BY <2>1 DEF SendInv, RingInv, ReaderInv, RingTypes, Slack, Taken, InSession, Whole
<1> QED  BY <1>1, <1>2, <1>3, <1>4, <1>5, <1>6 DEF Next

LEMMA InitRing == Init => SendInv
<1> SUFFICES ASSUME Init PROVE SendInv  OBVIOUS
<1>1. /\ pc = "idle" /\ u2f_out = 0 /\ backlog = FALSE /\ dropped = FALSE /\ reader = NoReader
  BY DEF Init, InitU2f
<1>2. ~InSession  BY <1>1 DEF InSession
<1>3. RingTypes
  <2>1. 0 \in 0 .. U2fRing - 1  BY UsbPollAssumption
  <2>2. backlog \in BOOLEAN  BY Zenon, <1>1
  <2> QED  BY <1>1, <2>1, <2>2 DEF RingTypes
<1>4. Slack(Taken)  BY <1>1 DEF Slack
<1> QED  BY <1>1, <1>2, <1>3, <1>4 DEF SendInv, RingInv, ReaderInv

-----------------------------------------------------------------------------
(* What it means.                                                          *)

\* U2fInvHolds: at every poll the request that waits is the one on the display, or no
\* dialog is, and the message is made of the session's frames unless a broadcast INIT
\* took the session over (u2fhid_read_start).
THEOREM U2fInvHolds == FairSpec => []U2fInv
<1>1. Init => U2fInv
  <2> SUFFICES ASSUME Init PROVE U2fInv  OBVIOUS
  <2>1. reader = NoReader /\ last_req_state = "INIT"  BY DEF Init, InitU2f
  <2>2. CommandIsRead  BY <2>1 DEF NoReader, CommandIsRead
  <2>3. PressInv /\ OneSender
    BY <2>1 DEF PressInv, Displayed, PressIsForTheRequest, OneSender
  <2> QED  BY <2>2, <2>3 DEF U2fInv
<1> QED  BY <1>1, UsbKeepsInv, PTL DEF FairSpec, Spec

\* PressIsHonest: for any requests, channels and lengths, and any order of frames, packets
\* and polls, the press that is remembered was given over the dialog of the request that
\* it will sign, or over no dialog after a data time-out, and never over that of another
\* request (u2f_register, u2f_authenticate, the time-out and the wait of
\* u2fhid_read_start).
THEOREM PressIsHonest == FairSpec => []PressIsForTheRequest
<1>1. U2fInv => PressIsForTheRequest  BY DEF U2fInv, PressInv
<1> QED  BY U2fInvHolds, <1>1, PTL

\* OneSenderHolds: a message is put together from frames of the session's channel only,
\* unless a broadcast INIT has drawn the session a new channel (u2fhid_read, next_cid).
THEOREM OneSenderHolds == FairSpec => []OneSender
<1>1. U2fInv => OneSender  BY DEF U2fInv
<1> QED  BY U2fInvHolds, <1>1, PTL

\* PressIsUsedUp: what is signed was pressed for, over its own dialog or over none after a
\* data time-out, and the press does not count again
\* (u2f_register, u2f_authenticate).
THEOREM PressIsUsedUp == FairSpec => SignatureUsesUpItsPress
<1>1. ASSUME U2fInv
      PROVE  SignsNow /\ Answer => pressed \in {reader.msg.req, Home} /\ pressed' = NoReq
  <2> SUFFICES ASSUME SignsNow, Answer
               PROVE  pressed \in {reader.msg.req, Home} /\ pressed' = NoReq
    OBVIOUS
  <2> DEFINE m == reader.msg
             h == Handled(m)
  <2>1. reader.cmd = "MSG" /\ m.cmd = "MSG" /\ u2fhid_msg(m).answer = 2
    BY <1>1 DEF SignsNow, U2fInv, CommandIsRead
  <2>2. h = u2fhid_msg(m)  BY Zenon, <2>1 DEF Handled
  <2>3. PressCounts(h, m)  BY <1>1, <2>1, HandledKeepsPress DEF U2fInv
  <2>4. GoOn(h)  BY <2>1 DEF Answer
  <2> HIDE DEF h
  <2>5. pressed \in {m.req, Home} /\ ~h.dialog  BY <2>1, <2>2, <2>3 DEF PressCounts
  <2> QED  BY <2>4, <2>5 DEF GoOn
<1> QED  BY <1>1, U2fInvHolds, PTL DEF SignatureUsesUpItsPress

\* MessagesHold: for messages of any length, and dialogs and U2F sessions at any point of
\* them, the packets that the firmware lacks are those its host has not sent yet, unless a
\* dialog or a session swallowed some (msg_read_common, msg_read_tiny).
THEOREM MessagesHold == FairSpec => []MessagesAreWhole
<1>1. MessageInv => MessagesAreWhole
  BY DEF MessageInv, Holding, Lacks, MessagesAreWhole
<1> QED  BY InitMessage, UsbKeepsMessage, <1>1, PTL DEF FairSpec, Spec

\* RingHolds: for a ring of any size and messages of any length, no packet of an answer is
\* lost without a backlog: every frame that comes in lets one out (queue_u2f_pkt,
\* u2f_out_data, u2fhid_read_start).
THEOREM RingHolds == FairSpec => []NothingIsDropped
<1>1. SendInv => NothingIsDropped  BY DEF SendInv, RingInv, RingTypes, NothingIsDropped
<1> QED  BY InitRing, UsbKeepsRing, <1>1, PTL DEF FairSpec, Spec
=============================================================================
