CONSTANTS
    Window = 3
    MaxSeq = 7

    r1 = r1
    r2 = r2
    d = d
    Relay = {r1, r2, d}
    Dst = d
    Paths <- MCPaths
    Builds <- MCBuilds
    MAX_HOPS = 3
    CELL = 6
    LAYER = 1
    MAX_TRAFFIC_LEN = 3
    Sizes = {2, 4}
    REPLAY_CACHE_SIZE = 1
    MaxCells = 1
    MaxRotations = 2
    MaxPeels = 3

    h = h
    f1 = f1
    f2 = f2
    Honest = {h}
    Other = {f1, f2}
    Scenarios <- MCScenarios
    WINDOW = 10
    MAX_INITS = 4
    LOG_ENTRIES = 1
    PINS = 1
    TIME_WINDOW = 1
    RETX_BASE = 1
    RETX_MAX = 30
    MaxDelay = 2
    MaxTime = 18
    MaxOther = 6
    MaxOtherTime = 12

    KEEPALIVE_TICKS = 3
    PROBE_INTERVAL_TICKS = 5
    PEER_TIMEOUT = 6
    PROBE_TIMEOUT = 3
    TRUST_INITIAL = 3
    TRUST_MAX = 4
    Delays <- MCDelays
    MaxTicks = 12

    Width <- MCWidth
    RADIX = 4
    CellSize = 24
    PadBlock = 4
    PathMax = 2
    Numbers = {0, 5, 511}
    HopLists <- MCHopLists
    Lengths = {0, 2, 64}

    Bucket = {0, 1}
    Slot = {1, 2}
    Fingerprint = {1, 3}
    bucket2 <- MCbucket2
    Walks <- MCWalks
    MAX_KICKS = 2
    MERGE_KICKS = 1

    n1 = n1
    n2 = n2
    n3 = n3
    n4 = n4
    Member = {n1, n2, n3, n4}
    Meshes <- MCMeshes
SPECIFICATION MCSpec
INVARIANTS
    WindowMirrors
    AdmitsExactlyFresh
    PeelsToNextHop
    AdmitsOnce
    AutoReachesCapable
    QuotaHeld
    HonestWithinQuota
    HealthyKept
    RoundTrips
    DecodersTotal
    TruncationNotTrusted
    SignaturesCover
    MembersFound
    FingerprintsHomed
    ChildFiltersHonest
PROPERTIES
    ImplementsOnce
    SamplesHonest
    GossipSettles
CHECK_DEADLOCK FALSE
