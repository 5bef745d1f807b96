------------------------------- MODULE MCUsb -------------------------------
(* Small instances of Usb.                                                 *)
EXTENDS Usb

MCProtects == {Protections}
=============================================================================
