SPECIFICATION FairSpec
CONSTANTS
  p1 = p1
  r1 = r1
  r2 = r2
  None = None
  Pids <- MCPids
  Requests <- MCRequests
INVARIANTS
  SuccessMeansDelivered
  NoMixedAnswers
  DirectTerminationNeverHangs
PROPERTIES
  RequestsAreAnswered
CHECK_DEADLOCK FALSE
