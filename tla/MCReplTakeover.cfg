SPECIFICATION ReplSpec
CONSTANTS
    None = None
    Node = {n1, n2}
    Quorum = 2
    InitialLeader = None
    MaxTerm = 3
    Op = {a, b}
    MaxSeq = 1
    MaxInflight = 2
    PersistOutcome = {TRUE}
SYMMETRY NodeOpSymmetry
CONSTRAINTS QuietBeats FewMessages
INVARIANT OneOpPerSeq
