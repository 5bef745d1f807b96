---------------------------- MODULE MCBootloader ----------------------------
EXTENDS Bootloader

Three == [sigs |-> <<1, 2, 3>>, valid |-> {1, 2, 3}, codelen |-> 1, keep |-> TRUE, fits |-> TRUE]
Uploads == {Three,
  [Three EXCEPT !.keep = FALSE],
  [Three EXCEPT !.codelen = 2],
  [Three EXCEPT !.sigs = <<1, 2, 2>>],           \* one key signs twice
  [Three EXCEPT !.sigs = <<0, 2, 3>>, !.valid = {2, 3}],
  [Three EXCEPT !.fits = FALSE]}

=============================================================================
