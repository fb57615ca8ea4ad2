\* The page without the stream, liveness: the task list and the alerts.
SPECIFICATION PollSpec
CONSTANTS
    None = None
    c1 = c1
    c2 = c2
    h1 = h1
    n1 = n1
    Parts = {"tasks", "view"}
    TaskClusters = {c1}
    Hosts = {h1}
    MaxVersion = 1
    MaxTaskFlight = 1
    MaxCallers = 2
    MaxFrames = 1
    Quiet = 1
    Vms = {v1, v2}
    MaxPending = 1
    MaxVmFrames = 2
    Clusters = {c1, c2}
    Nodes = {n1}
    NodesOf <- SharedName
    MaxFlight = 2
    MaxStreams = 3
    MaxAsking = 2
    MaxFaults = 2
    MaxAttempts = 1
PROPERTIES
    ListCatchesUp
    OfflineNodeAlerted
CHECK_DEADLOCK FALSE
