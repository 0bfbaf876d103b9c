--------------------------- MODULE MCScanLifecycle ---------------------------
(* Instances of ScanLifecycle: which call submits which scan, and which    *)
(* scans hold the same file of the same owner.                             *)
EXTENDS ScanLifecycle, TLC

CONSTANTS s1, s2, r1, r2, t1, t2

\* Both calls name the first scan: a double click, or two tabs.
BothSubmitFirst == [r \in Submits |-> s1]

\* One call per scan.
EachSubmitsOwn == [r \in Submits |-> IF r = r1 THEN s1 ELSE s2]

OnlyFirst == [r \in Submits |-> s1]

\* The same picture, uploaded by the same user every time.
SameFile == [s \in Scans |-> "file"]

TaskSymmetry == Permutations(Tasks)
=============================================================================
