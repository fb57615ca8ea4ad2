\* The live stream alone, liveness.
SPECIFICATION StreamSpec
CONSTANTS
    None = None
    c1 = c1
    c2 = c2
    h1 = h1
    n1 = n1
    Parts = {"live"}
    TaskClusters = {c1}
    Hosts = {h1}
    MaxVersion = 1
    MaxTaskFlight = 2
    MaxCallers = 2
    MaxFrames = 1
    Quiet = 1
    Vms = {v1, v2}
    MaxPending = 1
    MaxVmFrames = 2
    Clusters = {c1, c2}
    Nodes = {n1}
    NodesOf <- SharedName
    MaxFlight = 3
    MaxStreams = 3
    MaxAsking = 2
    MaxFaults = 2
    MaxAttempts = 1
PROPERTIES
    UpdatesComeBack
CHECK_DEADLOCK FALSE
