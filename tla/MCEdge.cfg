SPECIFICATION Spec
CONSTANTS
  AddrBits = 2
  Shards = {0, 1}
  ShardOf <- MCShardOf
  EntryRequests <- MCEntryRequests
  RuleRequests <- MCRuleRequests
  Queries <- MCQueries
  Times <- MCTimes
  HashFirst <- MCHashFirst
  HashSecond <- MCHashSecond
  FilterHashes = 2
  BitsPerEntry = 3
  WordBits = 4
  MaxCommits = 3
  MaxRollbacks = 1
INVARIANTS
  EdgeInv
  LookupAgrees
  CheckAgreesUnlessReplaced
  RollbackRestores
  RulesCoverWhatTheyName
PROPERTY
  ImplementsReplica
