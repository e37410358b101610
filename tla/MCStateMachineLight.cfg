SPECIFICATION LightSpec
CONSTANTS
    self = self
    a = a
    b1 = b1
    b2 = b2
    p1 = p1
    Validators <- MCValidators
    VotingPower <- LightPower
    Blocks <- MCBlocks
    Valid <- MCValid
    Nil = Nil
    None = None
    Peers <- MCPeers
    Local = Local
    Self = self
    Proposer <- LightProposer
    OwnBlock <- MCOwnBlock
    MaxRound = 1
INVARIANTS
    VotesBackBlocks
CHECK_DEADLOCK FALSE
