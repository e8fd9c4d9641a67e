SPECIFICATION StreamsSpec
CONSTANTS
    Parts = {"python"}
    MaxAddresses = 2
    MaxTargets = 2
    MaxInstant = 16
    Plans <- TunnelPlans
    Horizon = 6
    LatestStep = 3
    Exchanges <- TimedExchanges
    QueueDepth = 2
    MaxInbound = 3
    MaxOutbound = 3
    BodyChunks = 3
    BridgeCapacity = 2
    PyCalls = {c1, c2, c3}
    HostThreads = {h1, h2}
    StreamChunks = 3
    ChannelCapacity = 1
CHECK_DEADLOCK FALSE
PROPERTY CloseReleasesBody
