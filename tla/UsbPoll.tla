------------------------------ MODULE UsbPoll ------------------------------
(***************************************************************************)
(* What every part of the firmware that talks to the host shares: the      *)
(* polling of usb.c, its "tiny" mode and the ring of outgoing U2F packets. *)
(*                                                                         *)
(* The firmware has one thread.  usbPoll lets the USB stack hand over at   *)
(* most one received packet, to a callback that may run a whole message    *)
(* handler and poll again inside it, and then sends at most one packet;    *)
(* usbSleep receives and never sends.  Only the number of packets in the   *)
(* ring is kept, and the ring of messages.c, which is never looked at      *)
(* before it is written, is left out.                                      *)
(***************************************************************************)
EXTENDS Naturals

CONSTANT U2fRing     \* U2F_OUT_PKT_BUFFER_LEN

ASSUME UsbPollAssumption == U2fRing \in Nat \ {0, 1}

VARIABLES
  pc,            \* where the firmware is polling
  tiny,          \* usb.c: packets go to the tiny readers
  u2f_out,       \* packets from u2f_out_start to u2f_out_end
  \* History variables.
  backlog,       \* has a usbSleep or an echo as long as the U2F ring filled it?
  dropped        \* has the U2F ring lost a packet without such a backlog?

ring == <<u2f_out, backlog, dropped>>

\* queue_u2f_pkt, n times: a full ring swallows the packet.
queue_u2f_pkt(n) == LET room == U2fRing - 1 - u2f_out
                    IN u2f_out + (IF n <= room THEN n ELSE room)
Filled(n) == backlog \/ n >= U2fRing - 1
NoteDrop(n) == dropped' = (dropped \/ (~Filled(n) /\ u2f_out + n > U2fRing - 1))

NotSent(k) == k                                                   \* a mistake
\* u2f_out_data takes one packet of k out of the ring.
u2f_out_data(k) == IF k = 0 THEN 0 ELSE k - 1

\* Code between two polls queues n packets.
Queue(n) == u2f_out' = queue_u2f_pkt(n) /\ NoteDrop(n) /\ backlog' = Filled(n)
\* The end of a usbPoll whose callback queued n packets.
usbPoll(n) ==
  /\ u2f_out' = u2f_out_data(queue_u2f_pkt(n))
  /\ NoteDrop(n) /\ backlog' = (Filled(n) /\ u2f_out' > 0)
\* A usbd_poll of usbSleep.
usbSleep(n) ==
  /\ u2f_out' = queue_u2f_pkt(n)
  /\ UNCHANGED dropped /\ backlog' = (backlog \/ n > 0)
=============================================================================
