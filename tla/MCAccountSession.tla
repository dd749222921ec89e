-------------------------- MODULE MCAccountSession --------------------------
(* Model-checking instance of AccountSession. *)
EXTENDS AccountSession

CONSTANT r1
=============================================================================
