SPECIFICATION Spec
CONSTANTS
  None = None
  AllowEmptyBootstrap = TRUE
  Uploads <- MCUploads
  MaxOps = 2
  MaxUploads = 1
  MaxFaults = 2
CHECK_DEADLOCK FALSE
INVARIANTS TypeOK QuietServes RemoteRestorable AckedIsRemote AgentsFollowRestore PublicationInv
PROPERTY NeverEmptied
CONSTRAINT FollowedWithoutUploads
