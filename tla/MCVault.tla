------------------------------ MODULE MCVault ------------------------------
(* Small instances of Vault.                                               *)
EXTENDS Vault

\* An ordinary PIN, and 16777215, whose word is the default password.
MCPins == {"", "1", "16777215"}
MCPinWord == [p \in MCPins \ {""} |-> IF p = "1" THEN "w1" ELSE "ffffff"]
MCKeys == 0 .. 2
=============================================================================
