SPECIFICATION Spec
CONSTANTS
  a = a
  b = b
  w = w
  Data = {a, b}
  Founders = {a}
  Witnesses = {w}
  None = None
  Rates <- SlowA
  LeaseTenth = 1
  VoteTenth = 1
  D = 0
  G = 0
  WonHold = 11
  Saves = {TRUE}
  Forgetful = {w}
  LateAnswers = FALSE
  Crashing = {w}
  Losing = {a, b, w}
  Reboots = {TRUE, FALSE}
  Planned = {}
  Targets = {}
  MaxEpoch = 2
  MaxCrashes = 1
  MaxInFlight = 1
INVARIANTS
  ActingExclusive
