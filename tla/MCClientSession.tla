--------------------------- MODULE MCClientSession ---------------------------
(* Instances of ClientSession. *)
EXTENDS ClientSession, TLC

CONSTANTS t1, t2, u1, u2

Symmetry == Permutations(Tabs) \cup Permutations(Users)
=============================================================================
