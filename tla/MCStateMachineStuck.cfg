SPECIFICATION Spec
CONSTANTS
    self = self
    a = a
    b1 = b1
    b2 = b2
    p1 = p1
    Validators <- MCValidators
    VotingPower <- LightPower
    Blocks <- OneBlock
    Valid <- MCValid
    Nil = Nil
    None = None
    Peers <- MCPeers
    Local = Local
    Self = self
    Proposer <- MCProposer
    OwnBlock <- MCOwnBlock
    MaxRound = 1
INVARIANTS
    EnoughVotesCommit
CHECK_DEADLOCK FALSE
