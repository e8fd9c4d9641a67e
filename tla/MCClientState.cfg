SPECIFICATION StateSpec
CONSTANTS
    Parts = {"body", "network", "raw", "jar", "routes", "handles", "multipart", "lines"}
    Encodings = {"none", "identity", "coded", "tooDeep", "unsupported"}
    ChunkSizes = {1, 2}
    MaxChunks = 2
    Totals = {2, Never}
    Reads = {1, Never}
    Limits = {2, Never}
    MaxTime = 3
    Never = Never
    StreamThreads = {t1, t2}
    NoThread = NoThread
    PeerBytes = 3
    PeerWrites = 3
    Heads <- ResponseHeads
    Label <- JarLabels
    IpHosts <- Ips
    Urls <- JarUrls
    SetCookies <- JarHeaders
    OwnCookies <- JarOwn
    Latest = 2
    MaxAgeCap = 1
    MaxCreated = 2
    Setups <- ClientSetups
    Calls <- RequestsOf
    Loopback <- Ips
    ClientCapacity = 1
    MaxRequests = 1
    PartInputs <- FormParts
    Pinned <- Chosen
    Randoms <- Drawn
    MaxParts = 2
    MaxAttempts = 2
    MaxBoundary = 8
    LengthMax = 60
    UsizeMax = 44
    UserLengths = {33, 27}
    Texts <- ResponseTexts
    MAX_LINE_LENGTH = 2
CHECK_DEADLOCK FALSE
INVARIANTS
    LeaseExact
    PermitFollowsSocket
    NoByteLostOrReordered
    SwitchLosesNoByte
    SentCookiesAreDue
    RouteFits
    EnvironmentAgrees
    RequestReleasedOnce
    ClientIsAsConfigured
    EncodedAsDeclared
    LinesFollowTheText
PROPERTIES
    DeliveryBounded
    ParkedIsResumed
