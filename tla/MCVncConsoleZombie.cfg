\* One run in stable mode.
CONSTANTS
    MaxRuns = 1
    MaxRetries = 1
    Stable = {1}
SPECIFICATION Spec
INVARIANT NoZombieConnection
CHECK_DEADLOCK FALSE
