\* A client that settles one upload before it starts the next, with retries.
CONSTANTS
  o1 = o1
  o2 = o2
  o3 = o3
  q1 = q1
  q2 = q2
  q3 = q3
  q4 = q4
  Ops = {o1, o2}
  Upload <- Uploads
  Keyed = {o1}
  Requests = {q1, q2, q3}
  OpOf <- OpOfRequest
  Readers = {b1}
  Allowance = 6
  MaxOpen = 1
  MaxCycle = 3
  Faulty = TRUE
SPECIFICATION Spec
INVARIANTS
  TypeOK
  WithinLimit
  SameReservation
  RolloverNeverUnderstates
PROPERTIES
  RefusedOnlyWhenShort
CHECK_DEADLOCK FALSE
