SPECIFICATION Spec
CONSTANTS
  a = a
  b = b
  w = w
  Data = {a, b}
  Founders = {a}
  Witnesses = {w}
  None = None
  Rates <- SlowA
  LeaseTenth = 1
  VoteTenth = 0
  D = 0
  G = 0
  WonHold = 11
  Saves = {TRUE}
  Forgetful = {}
  LateAnswers = TRUE
  Crashing = {a, b, w}
  Losing = {a, b, w}
  Reboots = {FALSE}
  Planned = {a}
  Targets = {}
  MaxEpoch = 2
  MaxCrashes = 1
  MaxInFlight = 1
INVARIANTS
  TypeOK
  OneLeaderPerTerm
  NoWinUnderALease
PROPERTIES
  VotesMoveToTheWinner
  LeaderSpec
