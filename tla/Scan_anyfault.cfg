\* One scan under every fault: two submits of it, one operator call.
CONSTANTS
  s1 = s1
  s2 = s2
  r1 = r1
  r2 = r2
  t1 = t1
  t2 = t2
  Scans = {s1}
  Submits = {r1, r2}
  SubmitScan <- BothSubmitFirst
  Tasks = {t1, t2}
  AdminCalls = {a1}
  FileOf <- SameFile
  Paths = {"queue", "inline"}
  Faults = {"db", "enqueue", "analysis", "crash", "zombie", "evict"}
  NoScan = NoScan
  NoTask = NoTask
SYMMETRY TaskSymmetry
SPECIFICATION Spec
INVARIANTS
  TypeOK
  RowConsistent
  ChargedHasResult
  ChargedIsComplete
CHECK_DEADLOCK FALSE
