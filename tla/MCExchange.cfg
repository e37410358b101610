SPECIFICATION MCSpec
CONSTANTS
    None = None
    Address = {1, 2}
    Locals = {2}
    Txs <- MCTxs
    Balance <- MCBalance
    FreeStaking = FALSE
    PriceLimit = 1
    PriceBump = 10
    AccountSlots = 2
    GlobalSlots = 4
    AccountQueue = 2
    GlobalQueue = 2
    MaxBlocks = 2
    MaxJournal = 1
    SnapPeer = {p1}
    MaxHash = 3
    NoCode = NoCode
    AccountConcurrency = 2
    StorageConcurrency = 2
    CodeRequestSize = 1
    HealRequestSize = 2
    MaxSyncs = 2
    MaxCalls = 1
    Node = {0, 1}
    Steps = {4, 6}
    MaxRound = 1
    MaxMessages = 2
    MaxMoves = 2
    MaxLinks = 2
INVARIANTS
    
    
    DownloadIsWhole
    GossipIsSound
PROPERTIES
    VotesGetThrough
CHECK_DEADLOCK FALSE
