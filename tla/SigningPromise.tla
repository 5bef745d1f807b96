--------------------------- MODULE SigningPromise ---------------------------
(***************************************************************************)
(* What transaction signing promises, without the streaming: a session      *)
(* starts with nothing approved, the user approves a list of outputs at    *)
(* most once, and every signature released afterwards in the session is    *)
(* for these outputs.                                                      *)
(***************************************************************************)
EXTENDS Naturals, Sequences
CONSTANT NotApproved
VARIABLES approved, released

Init == approved = NotApproved /\ released = <<>>

Begin == approved' = NotApproved /\ released' = <<>>

Approve ==
  /\ approved = NotApproved /\ approved' # NotApproved
  /\ released' = released

Release ==
  /\ approved # NotApproved /\ approved' = approved
  /\ Len(released') = Len(released) + 1
  /\ released' = Append(released, released'[Len(released')])
  /\ released'[Len(released')].outs = approved.outs

Next == Begin \/ Approve \/ Release
Spec == Init /\ [][Next]_<<approved, released>>
=============================================================================
