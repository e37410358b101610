SPECIFICATION Spec
CONSTANTS
    None = None
    Label = {1, 2}
    DifficultyOf <- MCDifficultyOf
    TxsOf <- MCTxsOf
    LogOf <- MCLogOf
    MaxNumber = 5
    Chains <- MCChains
    MaxStored = 6
    HeadNames = {}
    Deletes = FALSE
    SectionSize = 2
    ConfirmsBlockNumber = 1
    MaxQueue = 2
    MaxNodeRestarts = 1
    Queries <- MCQueries
    Address = {"s", "c", "n"}
    Key = {"k"}
    Sender = "s"
    Value = {0, 1}
    MessageWord = {0, 2}
    MaxDepth = 2
    MaxSteps = 3
    MaxMessageBlocks = 1
    MaxTx = 1
    Accounts <- MCAccounts
    ByteBits = 2
    WordBytes = 2
    Programs <- MCPrograms
    GasLimit = 12
    MaxHeight = 4
    CallGasDivisor = 4
    CallValueTransfer = 2
    CallStipend = 1
    Memory = 1
    QuadCoeffDiv = 2
    Account = {1, 2, 3}
    Slot = {1, 2}
    Code = {1}
    Word = {0, 1}
    AccountRange = 2
    SlotRange = 1
    Old <- MCOld
    GeneratorRoots <- MCGeneratorRoots
    MaxMerges = 2
    MaxRestarts = 0
    EarlyAborts = FALSE
    TreeAccount = {1, 2}
    TreeSlot = {1}
    Layer = {1, 2, 3, 4, 5, 6, 7, 8, 9, 10, 11, 12}
    Roots <- MCRoots
    MaxSnapLayers = 1
    MaxBlocks = 4
    Hash = {1, 2, 3}
    Depth = 3
INVARIANTS
    HeadsAnnouncedInOrder
    FilterFindsAll
    CodeRunsSoundly
    
PROPERTIES
    CommitLoopAdvances
    FailureRestores
CHECK_DEADLOCK FALSE
