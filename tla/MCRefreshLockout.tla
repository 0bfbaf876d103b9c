--------------------------- MODULE MCRefreshLockout ---------------------------
(* Instances of RefreshLockout: REFRESH_LOCKOUT's 3 failures in 30 s and   *)
(* 60 s of lockout, in units of ten seconds.                               *)
EXTENDS RefreshLockout, TLC

CONSTANTS r1, r2, r3

RequestSymmetry == Permutations(Requests)
=============================================================================
