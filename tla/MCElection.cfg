SPECIFICATION ElectionSpec
CONSTANTS
    None = None
    Node = {n1, n2, n3}
    Quorum = 2
    InitialLeader = None
    MaxTerm = 2
SYMMETRY NodeSymmetry
INVARIANTS ElectionSafety ElectionInv
