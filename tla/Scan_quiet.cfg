\* Two scans of one file, each submitted once, no operator, no zombie; every other fault.
CONSTANTS
  s1 = s1
  s2 = s2
  r1 = r1
  r2 = r2
  t1 = t1
  t2 = t2
  Scans = {s1, s2}
  Submits = {r1, r2}
  SubmitScan <- EachSubmitsOwn
  Tasks = {t1, t2}
  AdminCalls = {}
  FileOf <- SameFile
  Paths = {"queue", "inline"}
  Faults = {"db", "enqueue", "analysis", "crash", "evict"}
  NoScan = NoScan
  NoTask = NoTask
SPECIFICATION FairSpec
INVARIANTS
  ChargedAtMostOnce
  FailedIsExhausted
  ReuseIsGrounded
  Tracked
PROPERTIES
  TerminalIsFinal
  KeepsContract
  Settles
CHECK_DEADLOCK FALSE
