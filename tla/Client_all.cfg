\* Two tabs, two users of the browser, every fault.
CONSTANTS
  t1 = t1  t2 = t2
  u1 = u1  u2 = u2
  Tabs = {t1, t2}
  Users = {u1, u2}
  MaxSessions = 2
  MaxGen = 3
  MaxLoads = 1
  MaxAges = 1
  MaxEdits = 1
  MaxFlights = 2
  MaxFaults = 1
  None = None
SYMMETRY Symmetry
SPECIFICATION Spec
INVARIANTS
  TypeOK
  ActsAsShown
  SignedOutStaysOut
PROPERTIES
  NeverRefusesItself
CHECK_DEADLOCK FALSE
