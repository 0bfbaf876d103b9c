----------------------------- MODULE MCScanIntake -----------------------------
(* Instances of ScanIntake: three uploads, the first of them sent twice.   *)
EXTENDS ScanIntake

CONSTANTS o1, o2, o3, q1, q2, q3, q4

\* Of 10, 4 and 1 units. With an allowance of 6, 10 and 4 do not both fit in
\* the first month's 12, and 4 is less than an allowance.
Uploads == [o \in Ops |->
  IF o = o1 THEN [depth |-> "standard", mib |-> 0, mp |-> 10]
  ELSE IF o = o2 THEN [depth |-> "quick", mib |-> 25, mp |-> 2]
  ELSE [depth |-> "quick", mib |-> 0, mp |-> 0]]

OpOfRequest == [r \in Requests |->
  IF r \in {q1, q2} THEN o1 ELSE IF r = q3 THEN o2 ELSE o3]
=============================================================================
