SPECIFICATION FairElectionSpec
CONSTANTS
    None = None
    Node = {n1, n2}
    Quorum = 2
    InitialLeader = n1
    MaxTerm = 3
INVARIANT OneVotePerTerm
PROPERTIES NoSecondReign StaleLeaderStepsDown
