\* Two plain runs of the effect and one in stable mode, two retries.
CONSTANTS
    MaxRuns = 3
    MaxRetries = 2
    Stable = {3}
SPECIFICATION Spec
INVARIANT PlainLeavesNothing
PROPERTY TriesEnd
CHECK_DEADLOCK FALSE
