CONSTANTS
    r = r
    hub = hub
    c = c
    s = s
    x = x
    Member = {r, hub, c, s, x}
    Meshes = {}
    Scenes <- MCScenes
    MAX_FORWARD_HOPS = 4
    PATH_NEG_INITIAL_TTL = 3
    MAX_PENDING_LOOKUPS = 1
    MaxForget = 1
    MaxMoves = 1
    MaxLookups = 2
    MaxDist = 3

    Station = {r, hub, c}
    Plans <- MCPlans

    Size <- MCSize
    PoolCap = 1
    ChanCap = 2
    MaxBatch = 2
    SockCap = 2
    LEN_RADIX = 2

    Outlooks <- MCOutlooks
    DEFAULT_MAX_AGE = 1
    DISCOVERY_DIAL_MAX_ATTEMPTS = 2
    MAX_PARALLEL_LINKS_PER_PEER = 2
    MaxDials = 3
SPECIFICATION MCSpec
INVARIANTS
    GreedyNeverReturns
    ForwardsOnce
    SubmissionOrder
PROPERTIES
    FramesEnd
    RetriesArrive
    KeysAgree
    ImplementsFifo
    NothingStranded
    StrangersForgotten
    PersistentReaches
CHECK_DEADLOCK FALSE
