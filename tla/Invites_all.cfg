\* Two addresses, overlapping acceptances and every fault.
CONSTANTS
  e1 = e1  e2 = e2
  i1 = i1  i2 = i2
  a1 = a1  a2 = a2
  m1 = m1
  Emails = {e1, e2}
  Applicants = {e1}
  Invites = {i1, i2}
  Accepts = {a1, a2}
  Managers = {m1}
  Seats = 2
  MaxOpen = 2
  Faults = {"error", "lost", "undo"}
  None = None
SYMMETRY Symmetry
SPECIFICATION Spec
INVARIANTS
  TypeOK
  SuccessIsKept
  OverrunIsBounded
  FailedLeavesNoTrace
  AcceptedByOne
CHECK_DEADLOCK FALSE
