SPECIFICATION MCSpec
CONSTANTS
    v1 = v1
    v2 = v2
    v3 = v3
    Validators = {v1, v2, v3}
    VotingPower <- MCVotingPower
    Blocks = {b1, b2}
    Nil = Nil
    None = None
    Peers = {p1, p2}
    VoteHashes = {b1, b2}
    Slots = 2
    MaxHeight = 1
    MaxLog = 3
    MaxCrashes = 2
    Evidence = {0, 1, 2, 3}
    HeightOf <- MCHeightOf
    MaxCacheSize = 2
    MaxAge = 3
    MaxEvidenceCount = 2
    MaxBlocks = 6
INVARIANTS
    EndHeightFound
CHECK_DEADLOCK FALSE
