SPECIFICATION Spec
CONSTANTS
    None = None
    Op = {a, b, c}
    MaxSeq = 3
    MaxAt = 0
    MaxCrashes = 2
    MinLogEntries = 2
    CompactOnStartup = FALSE
    Publishing = {TRUE}
    Faults = {}
    PublisherFaults = {}
SYMMETRY OpSymmetry
CHECK_DEADLOCK FALSE
INVARIANTS StartsAgain
