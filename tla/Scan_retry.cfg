\* retryJob after the retries are exhausted.
CONSTANTS
  s1 = s1
  s2 = s2
  r1 = r1
  r2 = r2
  t1 = t1
  t2 = t2
  Scans = {s1}
  Submits = {r1}
  SubmitScan <- OnlyFirst
  Tasks = {t1, t2}
  AdminCalls = {a1}
  FileOf <- SameFile
  Paths = {"queue"}
  Faults = {"analysis"}
  NoScan = NoScan
  NoTask = NoTask
SPECIFICATION FairSpec
PROPERTIES
  RetriedRuns
CHECK_DEADLOCK FALSE
