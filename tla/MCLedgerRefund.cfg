SPECIFICATION MCSpec
CONSTANTS
    None = None
    Validators = {v1}
    v1 = v1
    VotingPower <- MCVotingPower
    Blocks = {b1}
    Nil = Nil
    Peers = {p1}
    Local = Local
    MaxRound = 1
    Claims <- MCClaims
    Absent = Absent
    Undefined = Undefined
    Address = {1, 2, 3}
    PowerChoices = {1, 2}
    RotationMaxRound = 2
    RotationMaxCount = 3
    Validator = {0, 1}
    GenesisValidators = {0}
    MinIndexVotingPower = 3
    JailThreshold = 2
    RecordsAmountPeriod = 2
    UnstakeDelay = 1
    FeePoolInterval = 2
    Amounts = {2, 3}
    Rates = {50}
    Factors = {50}
    MinerReward = 2
    MinerRewardFactor = 50
    Usages <- MCUsages
    MissCounts = {1, 2}
    MinTotalLockedAmount = 3
    MinValidatorsCount = 1
    MaxValidatorsCount = 1
    MaxTx = 3
    StakingMaxNumber = 4
    Peer = {p1, p2}
    Hash = {h1, h2}
    MaxTxAnnounces = 2
    MaxTxRetrievals = 1
    MaxAnnouncements = 1
    MaxAnswers = 1
    MaxJoins = 2
    User = {"u", "v"}
    RecoverInterval = 2
    DailyFee = 2
    WithdrawDelay = 0
    MaxRefundQuotient = 2
    BlockGasLimit = 4
    Txs <- MCRefundTxs
    Balance = 6
    MaxNumber = 3
    MaxAppends = 2
INVARIANTS
    ProposedIsAccepted
CHECK_DEADLOCK FALSE
