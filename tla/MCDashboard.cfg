\* Two clusters, safety: the task list, the guests and the views.
SPECIFICATION Spec
CONSTANTS
    None = None
    c1 = c1
    c2 = c2
    h1 = h1
    n1 = n1
    Parts = {"tasks", "guests", "view"}
    TaskClusters = {c1, c2}
    Hosts = {}
    MaxVersion = 2
    MaxTaskFlight = 2
    MaxCallers = 2
    MaxFrames = 1
    Quiet = 1
    Vms = {v1, v2}
    MaxPending = 2
    MaxVmFrames = 1
    Clusters = {c1, c2}
    Nodes = {n1}
    NodesOf <- NoNodes
    MaxFlight = 3
    MaxStreams = 3
    MaxAsking = 2
    MaxFaults = 2
    MaxAttempts = 1
INVARIANTS
    TypeOK
    OnlyTheSelected
    FailedActionRestored
    SaveWritesOwnForm
PROPERTY LaterPollNeverGoesBack
SYMMETRY Alike
CHECK_DEADLOCK FALSE
