SPECIFICATION Spec
CONSTANTS
    None = None
    NetworkPeer = {p1}
    Groups <- MCGroups
    MaxConns = 1
    MaxStreams = 2
    NodeOrder <- MCNodeOrder
    IP = {i1, i2}
    MaxSeq = 2
    BlockPeer = {p1, p2}
    HonestPeer = {p1}
    Height = 4
    MaxGetBlockHeaders = 2
    Limit = 2
    MaxSyncs = 2
    User = {u1, u2}
    Good = {p1}
    Tx = {t1}
    MaxKnown = 2
    MaxQueued = 1
    MaxHandlers = 2
    MaxRequests = 2
    SyncPeer = {a, b, c}
    HonestAnnouncer = {c}
    Mode = {"full", "snap"}
    Trusted = 1
    MaxHeight = 3
    SnapSyncMinTD = 2
    StaleNumber = 1
    TrustedStaleNumber = 2
    RetryLimit = 1
    MaxAnnounced = 1
INVARIANTS
    PeersAreConsistent
    FetchIsOrderly
    PoolIsFair
    RootIsHonest
PROPERTIES
    
    NothingHangs
    BehindSyncs
CHECK_DEADLOCK FALSE
