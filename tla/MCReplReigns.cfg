SPECIFICATION ReplSpec
CONSTANTS
    None = None
    Node = {n1, n2}
    Quorum = 2
    InitialLeader = None
    MaxTerm = 3
    Op = {a, b}
    MaxSeq = 2
    MaxInflight = 1
    PersistOutcome = {TRUE}
SYMMETRY NodeOpSymmetry
CONSTRAINTS QuietBeats FewMessages
INVARIANTS ReplInv OneSeqPerOp
PROPERTY ElectionSpec
