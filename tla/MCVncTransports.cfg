\* One console on either transport.
SPECIFICATION Spec
CONSTANTS
    SeqSpace = 2
    MaxSend = 3
    MaxRecv = 3
    MayTamper = TRUE
    MayFail = TRUE
    MaxPosts = 2
    MaxChunks = 2
    MayLose = TRUE
INVARIANTS
    DeliveredInOrder
    HealthyStreamHolds
    TakenInOrder
    HealthySendHolds
    PollingKeepsStream
    ChunksAccounted
PROPERTIES
    ReceivedIsDelivered
    SentIsTaken
    SessionLeavesThePool
CHECK_DEADLOCK FALSE
