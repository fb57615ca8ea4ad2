SPECIFICATION Spec
CONSTANTS
  a = a
  b = b
  w = w
  Data = {a, b}
  Founders = {a}
  Witnesses = {w}
  None = None
  Rates <- SlowA
  LeaseTenth = 1
  VoteTenth = 0
  D = 0
  G = 0
  WonHold = 11
  Saves = {TRUE, FALSE}
  Forgetful = {}
  LateAnswers = TRUE
  Crashing = {a}
  Losing = {b}
  Reboots = {FALSE}
  Planned = {}
  Targets = {b}
  MaxEpoch = 2
  MaxCrashes = 1
  MaxInFlight = 1
INVARIANTS
  HandedOnStops
  LeaseExclusive
  ElectionInv
  LeaseInv
