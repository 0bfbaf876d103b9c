\* Two sessions, overlapping requests and every fault.
CONSTANTS
  s1 = s1  s2 = s2
  b1 = b1  b2 = b2
  a1 = a1  a2 = a2
  r1 = r1  r2 = r2  r3 = r3  r4 = r4
  notify = notify  twoFactor = twoFactor
  SessionIds = {s1, s2}
  Browsers = {b1, b2}
  Addresses = {a1, a2}
  Requests = {r1, r2, r3, r4}
  Keys = {notify, twoFactor}
  Admin = Admin
  MaxOpen = 2
  Ops = {"signin", "refresh", "signout", "revoke", "evict", "password", "reset", "setting"}
  Faults = {"write", "read", "auth", "lost"}
  None = None
SYMMETRY Symmetry
SPECIFICATION Spec
INVARIANTS
  TypeOK
  ActiveDeviceIsListed
  SignedOutIsGone
  ListedIsLive
  NewDeviceIsAlerted
PROPERTIES
  AnsweredMeansEvicted
  SettingsLostOnlyToOverlap
CHECK_DEADLOCK FALSE
