------------------------------ MODULE MCSessions ------------------------------
(* Instances of Sessions. *)
EXTENDS Sessions

CONSTANTS s1, s2, b1, b2, a1, a2, r1, r2, r3, r4, notify, twoFactor

Symmetry == Permutations(Requests) \cup Permutations(SessionIds)
            \cup Permutations(Browsers)
=============================================================================
