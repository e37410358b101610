SPECIFICATION MCSpec
CONSTANTS
    v1 = v1
    v2 = v2
    v3 = v3
    b1 = b1
    b2 = b2
    Validators <- MCValidators
    VotingPower <- MCVotingPower
    Faulty <- MCFaulty
    Blocks <- MCBlocks
    Nil = Nil
    MaxRound = 2
SYMMETRY MCSymmetry
INVARIANTS
    Agreement
    DecisionLocksLaterRounds
