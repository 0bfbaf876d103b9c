------------------------------- MODULE MCPanel -------------------------------
(* Instances of Panel. *)
EXTENDS Panel

CONSTANTS s1, s2
=============================================================================
