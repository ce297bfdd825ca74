SPECIFICATION ReplSpec
CONSTANTS
    None = None
    Node = {n1, n2, n3}
    Quorum = 2
    InitialLeader = None
    MaxTerm = 2
    Op = {a, b}
    MaxSeq = 1
    MaxInflight = 2
    PersistOutcome = {TRUE, FALSE}
SYMMETRY NodeOpSymmetry
CONSTRAINTS OneCandidate VotesFirst QuietBeats FewMessages
INVARIANTS LogBehindTerm SameEpochSameEntry
