\* Two uploads at once: both are admitted on the same remaining units.
CONSTANTS
  o1 = o1
  o2 = o2
  o3 = o3
  q1 = q1
  q2 = q2
  q3 = q3
  q4 = q4
  Ops = {o1, o2}
  Upload <- Uploads
  Keyed = {o1}
  Requests = {q1, q3}
  OpOf <- OpOfRequest
  Readers = {}
  Allowance = 6
  MaxOpen = 2
  MaxCycle = 1
  Faulty = FALSE
SPECIFICATION Spec
INVARIANTS
  WithinLimit
CHECK_DEADLOCK FALSE
