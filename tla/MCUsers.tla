------------------------------ MODULE MCUsers ------------------------------
(* Small instances of Users for TLC, and the variants of its definitions    *)
(* that the properties tell from the code.                                  *)
EXTENDS Users
=============================================================================
