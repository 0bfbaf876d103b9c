\* The upload page: one scan, shown before it is submitted, and nothing goes wrong.
CONSTANTS
  s1 = s1  s2 = s2
  Subjects = {s1}
  MaxRuns = 0
  MaxFails = 0
  MaxTaps = 0
  MaxHides = 0
  MaxRetries = 0
  MaxPolls = 1
  None = None
SPECIFICATION FairSpec
PROPERTIES
  TracksSubmittedScan
CHECK_DEADLOCK FALSE
