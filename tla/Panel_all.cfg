\* Two subjects, overlapping loads, polls and refreshes, failures and hides.
CONSTANTS
  s1 = s1  s2 = s2
  Subjects = {s1, s2}
  MaxRuns = 2
  MaxFails = 1
  MaxTaps = 1
  MaxHides = 1
  MaxRetries = 1
  MaxPolls = 2
  None = None
SPECIFICATION FairSpec
INVARIANTS
  TypeOK
  ForeignOnlyByRefresh
PROPERTIES
  BackwardsOnlyByRefresh
  PanelSettles
CHECK_DEADLOCK FALSE
