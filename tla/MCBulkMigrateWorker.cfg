SPECIFICATION FairSpec
CONSTANTS
  r1 = r1
  r2 = r2
  Runs = {r1}
  Guests = {1, 2, 3}
  HaGuests = {2}
  Parallel = 2
  RunningPerCluster = 1
INVARIANTS
  TypeOK
  WidthKept
  NothingLeftOpen
  NotStartedNeverAsked
  RegistryBounded
PROPERTIES
  NoClaimAfterCancel
  RunEnds
CHECK_DEADLOCK FALSE
