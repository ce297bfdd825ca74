SPECIFICATION Spec
CONSTANTS
  Nodes = {n1, n2, n3}
  n1 = n1
  n2 = n2
  n3 = n3
  MaxSeq = 2
  MaxRequests = 2
  MaxFaults = 2
SYMMETRY Symmetry
INVARIANTS ConfirmedOnQuorum LeaderRemembers AcksInv
