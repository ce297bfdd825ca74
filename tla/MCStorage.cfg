SPECIFICATION Spec
CONSTANTS
    None = None
    Op = {a, b, c, d}
    MaxSeq = 4
    MaxAt = 1
    MaxCrashes = 3
    MinLogEntries = 2
    CompactOnStartup = TRUE
    Publishing = {TRUE, FALSE}
    Faults = {"snapshot", "compact"}
    PublisherFaults = {"torn", "bundle", "snapshot", "compact", "publish"}
SYMMETRY OpSymmetry
CONSTRAINT FewWithPublisher
CHECK_DEADLOCK FALSE
INVARIANTS
    StartsAgainAlone
    AckedKept
    OpIndexExact
    StreamKept
    UnpublishedRetained
    StorageInv
PROPERTY ImplementsJournal
