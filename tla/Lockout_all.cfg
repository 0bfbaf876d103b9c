\* The refresh lockout with requests in progress when it trips.
CONSTANTS
  r1 = r1
  r2 = r2
  r3 = r3
  Requests = {r1, r2, r3}
  Threshold = 3
  Window = 3
  Lockout = 6
  MaxTime = 14
  MayRestart = TRUE
SYMMETRY RequestSymmetry
SPECIFICATION Spec
INVARIANTS
  TypeOK
  BurstIsCaught
PROPERTIES
  TripIsEarned
  OncePerEpisode
CHECK_DEADLOCK FALSE
