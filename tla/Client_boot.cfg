\* One tab whose refresh fetch throws while the page restores its session.
CONSTANTS
  t1 = t1  t2 = t2
  u1 = u1  u2 = u2
  Tabs = {t1}
  Users = {u1}
  MaxSessions = 1
  MaxGen = 2
  MaxLoads = 1
  MaxAges = 0
  MaxEdits = 0
  MaxFlights = 1
  MaxFaults = 1
  None = None
SPECIFICATION FairSpec
PROPERTIES
  BootAlwaysEnds
CHECK_DEADLOCK FALSE
