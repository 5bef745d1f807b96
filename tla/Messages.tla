------------------------------ MODULE Messages ------------------------------
(***************************************************************************)
(* Messages of the wallet's interface: messages.c puts packets together,   *)
(* and a handler that needs the user waits in a dialog of protect.c, which *)
(* polls in tiny mode, where messages.c takes messages of one packet only. *)
(*                                                                         *)
(* The handler here is fsm_msgPing, which goes through all three dialogs;  *)
(* Vault and Signing model what the other handlers do.  The host finishes  *)
(* a message before it begins another; what it sends is named by its type. *)
(***************************************************************************)
EXTENDS UsbPoll, FiniteSets

CONSTANTS
  MaxPackets,     \* bound: packets of a message
  Protects        \* the sets of protections a ping may ask for
Protections == {"button", "pin", "passphrase"}
ASSUME MessagesAssumption == MaxPackets \in Nat \ {0} /\ Protects \subseteq SUBSET Protections

VARIABLES
  in,             \* the statics of msg_read_common
  msg_tiny_id,    \* the last message of tiny mode that nobody has consumed
  todo,           \* the protections the handler still has to ask for
  acked,          \* protectButton: the host has acknowledged the request
  sending         \* the host: packets it still has to send of its message

messages == <<in, msg_tiny_id, todo, acked, sending>>

TinyMsgs == {"ButtonAck", "PinMatrixAck", "PassphraseAck", "Cancel", "Initialize"}
NoId == "0xFFFF"
\* "refused": an unknown type or a length that is too big.
MainMsg == [type : TinyMsgs \cup {"refused"}] \cup [type : {"Ping"}, protect : Protects]
\* '?##' and the length in packets; '?'; any other first byte.
Heads == [first : {"?##"}, msg : MainMsg, need : 1 .. MaxPackets]
Packet == {h \in Heads : h.need > 1 => h.msg.type = "Ping"}
          \cup {[first |-> "?"], [first |-> "junk"]}
Idle == [state |-> "IDLE", pos |-> 0, need |-> 0, swallowed |-> FALSE]

InitMessages ==
  in = Idle /\ msg_tiny_id = NoId /\ todo = {} /\ acked = FALSE /\ sending = 0

\* The host sends p when its last message is out, and noise at any time.
HostSends(p) ==
  CASE p.first = "?##" -> sending = 0 /\ sending' = p.need - 1
    [] p.first = "?" -> sending > 0 /\ sending' = sending - 1
    [] p.first = "junk" -> UNCHANGED sending

-----------------------------------------------------------------------------
(* Tiny mode.                                                              *)

\* msg_read_tiny: it leaves id in msg_tiny_id.  A message of several packets is
\* ignored, and so is the rest of one that was begun before; swallowed is a
\* history field.
msg_read_tiny(p, id) ==
  /\ HostSends(p)
  /\ IF p.first = "?##" /\ p.need = 1
     THEN id = IF p.msg.type \in TinyMsgs THEN p.msg.type ELSE NoId   \* Failure
     ELSE id = msg_tiny_id
  /\ in' = IF p.first = "?" /\ in.pos < in.need
           THEN [in EXCEPT !.swallowed = TRUE] ELSE in

-----------------------------------------------------------------------------
(* The handler of a message, from dialog to dialog.                        *)

KeepsReading ==                                                  \* a mistake
  pc' = "idle" /\ tiny' = FALSE /\ todo' = {} /\ acked' = FALSE /\ UNCHANGED in /\ usbPoll(0)
\* The handler returns to msg_read_common, which is ready for a new message.
Done ==
  /\ pc' = "idle" /\ tiny' = FALSE /\ todo' = {} /\ acked' = FALSE /\ in' = Idle
  /\ usbPoll(0)

\* fsm_msgPing, for the message read as r, asks for the protections in left, the
\* button first.  PIN and passphrase may be cached; after a wrong PIN protectPin
\* sleeps before it asks.
AskFrom(left, r) ==
  /\ acked' = FALSE
  /\ CASE "button" \in left ->
            /\ pc' = "button" /\ tiny' = TRUE /\ todo' = left \ {"button"}
            /\ UNCHANGED ring /\ in' = r                        \* ButtonRequest
       [] "button" \notin left /\ left # {} ->
            \/ /\ "pin" \in left /\ todo' = left \ {"pin"} /\ tiny' = TRUE
               /\ \/ pc' = "pin" /\ UNCHANGED ring              \* PinMatrixRequest
                  \/ pc' = "sleep" /\ UNCHANGED ring
               /\ in' = r
            \/ /\ "passphrase" \in left /\ todo' = {} /\ tiny' = TRUE
               /\ pc' = "passphrase" /\ UNCHANGED ring /\ in' = r
            \/ Done                                          \* all cached
       [] left = {} -> Done                                  \* Success

\* msg_process: a message that lost packets may not decode.
msg_process(r) ==
  \/ r.swallowed /\ Done
  \/ r.msg.type \in {"Initialize", "Cancel"} /\ Done
  \/ r.msg.type = "Ping" /\ AskFrom(r.msg.protect, r)

\* msg_read_common, outside any handler.
msg_read(p) ==
  /\ pc = "idle" /\ HostSends(p) /\ UNCHANGED msg_tiny_id
  /\ \/ /\ in.state = "IDLE" /\ p.first # "?##"
        /\ usbPoll(0) /\ UNCHANGED <<pc, tiny, in, todo, acked>>
     \/ /\ in.state = "IDLE" /\ p.first = "?##"
        /\ p.msg.type \notin {"Initialize", "Cancel", "Ping"}
        /\ usbPoll(0) /\ UNCHANGED <<pc, tiny, in, todo, acked>>   \* Failure
     \/ /\ in.state = "READING" /\ p.first = "junk"
        /\ in' = Idle /\ usbPoll(0) /\ UNCHANGED <<pc, tiny, todo, acked>>
     \/ /\ \/ in.state = "READING" /\ p.first # "junk"
           \/ in.state = "IDLE" /\ p.first = "?##"
              /\ p.msg.type \in {"Initialize", "Cancel", "Ping"}
        /\ LET r == IF in.state = "READING" THEN [in EXCEPT !.pos = @ + 1]
                    ELSE [state |-> "READING", msg |-> p.msg, need |-> p.need,
                          pos |-> 1, swallowed |-> FALSE]
           IN \/ /\ r.pos < r.need
                 /\ in' = r /\ usbPoll(0) /\ UNCHANGED <<pc, tiny, todo, acked>>
              \/ /\ r.pos >= r.need
                 /\ msg_process(r)
=============================================================================
