------------------------------ MODULE MCStorage ------------------------------
(* Small instances of Storage.                                             *)
EXTENDS Storage
=============================================================================
