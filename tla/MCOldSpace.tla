----------------------------- MODULE MCOldSpace ------------------------------
(* Instances of OldSpace for TLC. *)
EXTENDS OldSpace
=============================================================================
