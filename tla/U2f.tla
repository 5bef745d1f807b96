-------------------------------- MODULE U2f --------------------------------
(***************************************************************************)
(* The U2F token of u2f.c: frames of several channels are put together to  *)
(* one message at a time, and registering or authenticating waits for the  *)
(* user's button.                                                          *)
(*                                                                         *)
(* u2fhid_read_start keeps the device for a session: it polls until the    *)
(* message is whole (pc = "data"), answers it and then polls on while a    *)
(* dialog is open (pc = "dialog").  A length is counted in frames and a    *)
(* message is named by what u2fhid_msg does with it; time is a counter     *)
(* that may run out at any poll.                                           *)
(***************************************************************************)
EXTENDS UsbPoll

CONSTANTS
  Channels,      \* channel numbers the hosts use
  MaxFrames,     \* frames that fit into U2F_ReadBuffer.buf
  Pings,         \* lengths of the pings of the hosts
  Registers,     \* contents of U2F_REGISTER requests
  Auths          \* contents of U2F_AUTHENTICATE requests

NoChannel == 0
Broadcast == 99
NoReq == "none"
\* No dialog of the token: layoutHome, or what the wallet's handlers put over it.
Home == "home"
ASSUME U2fAssumption ==
  /\ NoChannel \notin Channels /\ Broadcast \notin Channels
  /\ MaxFrames \in Nat \ {0} /\ Pings \subseteq 1 .. MaxFrames + 1
  /\ {NoReq, Home} \cap (Registers \cup Auths) = {} /\ Registers \cap Auths = {}

VARIABLES
  cid,             \* the channel of the session
  reader,          \* the message that is read, or NoReader
  last_req_state,  \* INIT, AUTH, AUTH_PASS, REG or REG_PASS
  last_register,   \* last_req of u2f_register
  last_auth,       \* last_req of u2f_authenticate
  dialog_timeout,  \* is it above 0?
  \* History variables.
  shown,           \* what is on the display: the dialog of a request, or Home
  pressed,         \* what was on it at the last press that is not used up, or NoReq
  taken            \* has a broadcast INIT drawn a new channel in this session?

u2f == <<cid, reader, last_req_state, last_register, last_auth, dialog_timeout,
         shown, pressed, taken>>

NoReader == [cmd |-> "no reader"]
Ins(i, r, need) == [cmd |-> "MSG", ins |-> i, req |-> r, need |-> need]
\* The messages of the hosts; need is their length.  A WINK stands for every command
\* that is answered with one packet.  "refused" is any request that gets an answer of
\* one packet at once: no seed, wrong length, bad key handle, check only, unknown
\* class or instruction, or the version.
U2fMsg ==
  {[cmd |-> "PING", need |-> n] : n \in Pings} \cup {[cmd |-> "WINK", need |-> 1]}
  \cup {Ins("bad length", NoReq, 1), Ins("refused", NoReq, 2)}
  \cup {Ins("REGISTER", r, 2) : r \in Registers}
  \cup {Ins("AUTHENTICATE", a, 2) : a \in Auths}
NoSeq == 255
Frame == [type : {"INIT"}, cid : Channels \cup {Broadcast, NoChannel}]
         \cup [type : {"START"}, cid : Channels, msg : U2fMsg]
         \cup [type : {"START"}, cid : {NoChannel}, msg : {m \in U2fMsg : m.cmd = "WINK"}]
         \cup [type : {"CONT"}, cid : Channels, seq : 0 .. MaxFrames - 1]

InitU2f ==
  /\ cid = NoChannel /\ reader = NoReader /\ last_req_state = "INIT"
  /\ last_register = NoReq /\ last_auth = NoReq /\ dialog_timeout = FALSE
  /\ shown = Home /\ pressed = NoReq /\ taken = FALSE

-----------------------------------------------------------------------------
(* Reading frames.                                                         *)

\* u2fhid_init_cmd: the reader it leaves.  from is a history field.
u2fhid_init_cmd(f) == [msg |-> f.msg, cmd |-> f.msg.cmd, need |-> f.msg.need,
                       got |-> 1, seq |-> 0, from |-> {f.cid}]
\* A reader without a message: only a first frame fits.
Waiting == [msg |-> NoReq, cmd |-> "none", need |-> 0, got |-> 0, seq |-> NoSeq, from |-> {}]

\* u2fhid_init, which may run in the middle of a session: a broadcast gets a
\* channel from next_cid, which draws it into cid.  One packet is queued.
u2fhid_init(f) ==
  /\ f.type = "INIT"
  /\ IF f.cid = Broadcast
     THEN cid' \in Channels /\ taken' = (reader # NoReader) ELSE UNCHANGED <<cid, taken>>
  \* The answer carries the channel of the request; then a session on it is aborted.
  /\ reader' = IF tiny /\ reader # NoReader /\ f.cid = cid' THEN Waiting ELSE reader

\* A frame is copied behind those that are there.
u2fhid_read_cont(f) ==
  [msg |-> reader.msg, cmd |-> reader.cmd, need |-> reader.need, got |-> reader.got + 1,
   seq |-> reader.seq + 1, from |-> reader.from \cup {f.cid}]

\* The session belongs to another channel.
MutBusy(f) == reader = NoReader                                  \* a mistake
Busy(f) == reader = NoReader \/ f.cid # cid
\* u2fhid_read in a session: it queues n packets.
u2fhid_read(f, n) ==
  \/ u2fhid_init(f) /\ n = 1
  \/ /\ f.type # "INIT" /\ Busy(f)
     /\ n = 1 /\ UNCHANGED <<cid, reader, taken>>                \* ERR_CHANNEL_BUSY
  \/ /\ f.type # "INIT" /\ ~Busy(f)
     /\ UNCHANGED <<cid, taken>>
     /\ \/ /\ f.type = "START" /\ reader.seq = NoSeq
           /\ reader' = u2fhid_init_cmd(f) /\ n = 0
        \/ /\ \/ f.type = "START" /\ reader.seq # NoSeq
              \/ f.type = "CONT" /\ f.seq # reader.seq
           /\ reader' = Waiting /\ n = 1                           \* ERR_INVALID_SEQ
        \/ /\ f.type = "CONT" /\ f.seq = reader.seq /\ n = 0
           /\ reader' = IF reader.got < reader.need /\ reader.got < MaxFrames
                        THEN u2fhid_read_cont(f) ELSE reader

\* u2fhid_read and u2fhid_read_start outside a session.
u2fhid_read_start(f) ==
  /\ pc = "idle"
  /\ \/ u2fhid_init(f) /\ usbPoll(1) /\ UNCHANGED <<pc, tiny>>
     \/ f.type = "CONT" /\ usbPoll(0) /\ UNCHANGED <<pc, tiny, cid, reader, taken>>
     \/ /\ f.type = "START" /\ (f.cid \notin Channels \/ f.msg.need > MaxFrames)
        /\ usbPoll(1)                                         \* ERR_INVALID_CID, _LEN
        /\ UNCHANGED <<pc, tiny, cid, reader, taken>>
     \/ /\ f.type = "START" /\ f.cid \in Channels /\ f.msg.need <= MaxFrames
        /\ reader' = u2fhid_init_cmd(f) /\ cid' = f.cid /\ taken' = FALSE
        /\ tiny' = TRUE /\ pc' = "data" /\ UNCHANGED ring
  /\ UNCHANGED <<last_req_state, last_register, last_auth, dialog_timeout,
                 shown, pressed>>

\* u2fhid_read_start returns, always by layoutHome: its caller is the usbPoll of the
\* main loop.
Return ==
  /\ pc' = "idle" /\ tiny' = FALSE /\ cid' = NoChannel /\ reader' = NoReader
  /\ taken' = FALSE /\ shown' = Home

SlowDataTimeout ==                                               \* a mistake
  /\ pc = "data" /\ reader.got < reader.need /\ reader.seq = 0
  /\ Return /\ usbPoll(1)
  /\ UNCHANGED <<last_req_state, last_register, last_auth, dialog_timeout, pressed>>
\* No frame moved the message on for U2F_TIMEOUT polls.  A request that waits for its
\* press, or has it, goes on waiting while its dialog is gone from the display.
DataTimeout ==
  /\ pc = "data" /\ reader.got < reader.need
  /\ Return /\ usbPoll(1)                                     \* ERR_MSG_TIMEOUT
  /\ UNCHANGED <<last_req_state, last_register, last_auth, dialog_timeout, pressed>>

-----------------------------------------------------------------------------
(* Answering a whole message.                                              *)

\* What a message changes: the request state machine, the dialog, the packets
\* of the answer, and the history.
Same == [state |-> last_req_state, reg |-> last_register, auth |-> last_auth,
         dialog |-> dialog_timeout, answer |-> 0, shown |-> shown, pressed |-> pressed]
\* send_u2f_error and every other answer of one packet.
Answered == [Same EXCEPT !.answer = 1]

OldState(r, last) == last_req_state                              \* a mistake
\* The state machine after a request that is new to it starts over.
StateFor(r, last) == IF r # last THEN "INIT" ELSE last_req_state

\* The dialog of r is laid out, if it is not waiting already.  A press that another
\* request left is forgotten.
AskFor(r, state, waiting) ==
  [Same EXCEPT !.state = waiting, !.dialog = TRUE, !.answer = 1, !.pressed = NoReq,
               !.shown = IF state = "INIT" THEN r ELSE shown]

\* The press is used up for a signature of two packets.
Signed == [Same EXCEPT !.state = "INIT", !.dialog = FALSE, !.answer = 2, !.pressed = NoReq]

\* The last case is "Didnt expect to get here": nothing is answered.
u2f_register(m) ==
  LET state == StateFor(m.req, last_register)
  IN IF state \in {"INIT", "REG"} THEN [AskFor(m.req, state, "REG") EXCEPT !.reg = m.req]
     ELSE IF state = "REG_PASS" THEN Signed ELSE [Same EXCEPT !.dialog = FALSE]

ReusesPress(m) ==                                                \* a mistake
  LET state == StateFor(m.req, last_auth)
  IN IF state \in {"INIT", "AUTH"} THEN [AskFor(m.req, state, "AUTH") EXCEPT !.auth = m.req]
     ELSE IF state = "AUTH_PASS" THEN [Same EXCEPT !.answer = 2, !.pressed = NoReq] ELSE Same
u2f_authenticate(m) ==
  LET state == StateFor(m.req, last_auth)
  IN IF state \in {"INIT", "AUTH"} THEN [AskFor(m.req, state, "AUTH") EXCEPT !.auth = m.req]
     ELSE IF state = "AUTH_PASS" THEN Signed ELSE Same

u2fhid_msg(m) ==
  IF m.ins = "REGISTER" THEN u2f_register(m)
  ELSE IF m.ins = "AUTHENTICATE" THEN u2f_authenticate(m)
  ELSE IF m.ins = "refused" THEN Answered ELSE Same

\* The switch of u2fhid_read_start; a wink keeps a dialog open.
Handled(m) ==
  IF m.cmd = "MSG" THEN u2fhid_msg(m)
  ELSE IF m.cmd = "PING" THEN [Same EXCEPT !.answer = m.need] ELSE Answered

\* Only a registration or an authentication is answered with two packets.
SignsNow == /\ pc = "data" /\ reader.got >= reader.need /\ reader.cmd = "MSG"
            /\ u2fhid_msg(reader.msg).answer = 2

\* The rest of a round of u2fhid_read_start: wait while a dialog is open, or return.
GoOn(h) ==
  /\ last_register' = h.reg /\ last_auth' = h.auth /\ dialog_timeout' = h.dialog
  /\ \/ /\ h.dialog
        /\ pc' = "dialog" /\ reader' = Waiting
        /\ last_req_state' = h.state /\ pressed' = h.pressed /\ shown' = h.shown
        /\ Queue(h.answer) /\ UNCHANGED <<tiny, cid, taken>>
     \/ /\ ~h.dialog
        /\ Return /\ last_req_state' = "INIT" /\ pressed' = NoReq
        /\ usbPoll(h.answer)

\* All frames are there, or the message was aborted.
Answer ==
  /\ pc = "data" /\ reader.got >= reader.need
  /\ GoOn(IF reader.cmd = "none" THEN Same ELSE Handled(reader.msg))

\* The button in a round of the loop that waits for it, next to its usbPoll.
\* dialog_timeout may run out; a press is remembered for ten time-outs.
WaitForButton ==
  /\ pc = "dialog" /\ reader.cmd = "none" /\ dialog_timeout
  /\ \/ /\ last_req_state \in {"AUTH", "REG"}                  \* YesUp
        /\ last_req_state' = IF last_req_state = "AUTH" THEN "AUTH_PASS" ELSE "REG_PASS"
        /\ dialog_timeout' = TRUE /\ pressed' = shown
     \/ /\ dialog_timeout' \in BOOLEAN
        /\ UNCHANGED <<last_req_state, pressed>>
  /\ UNCHANGED <<pc, tiny, last_register, last_auth, shown>>

\* That loop ends: with the first frame of another message, or with the session.
WaitOver ==
  /\ pc = "dialog"
  /\ \/ /\ reader.cmd # "none"
        /\ pc' = "data"
        /\ UNCHANGED <<tiny, cid, reader, last_req_state, shown, pressed, taken>>
        /\ UNCHANGED ring
     \/ /\ reader.cmd = "none" /\ ~dialog_timeout
        /\ Return /\ last_req_state' = "INIT" /\ pressed' = NoReq /\ usbPoll(0)
  /\ UNCHANGED <<last_register, last_auth, dialog_timeout>>
=============================================================================
