SPECIFICATION FairReplSpec
CONSTANTS
    None = None
    Node = {n1, n2}
    Quorum = 2
    InitialLeader = None
    MaxTerm = 3
    Op = {a}
    MaxSeq = 1
    MaxInflight = 1
    PersistOutcome = {TRUE}
CONSTRAINTS QuietBeats FewMessages
PROPERTY FollowersCatchUp
