----------------------------- MODULE MCOrgInvites -----------------------------
(* Instances of OrgInvites. *)
EXTENDS OrgInvites, TLC

CONSTANTS e1, e2, i1, i2, a1, a2, m1

Symmetry == Permutations(Invites) \cup Permutations(Accepts)
=============================================================================
