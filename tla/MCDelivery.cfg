SPECIFICATION Spec
CONSTANTS
  Nodes = {n1, n2}
  Leader = n1
  n1 = n1
  n2 = n2
  MaxSeq = 3
  MaxFaults = 1
INVARIANTS TypeOK AnswersContinue NeverStranded AckedIsDurable DeliveryInv
PROPERTY AgentCatchesUp
CHECK_DEADLOCK FALSE
