SPECIFICATION Spec
CONSTANTS
  r1 = r1
  r2 = r2
  Runs = {r1, r2}
  Guests = {1}
  HaGuests = {}
  Parallel = 1
  RunningPerCluster = 2
INVARIANTS
  OneRunMovesAGuest
CHECK_DEADLOCK FALSE
