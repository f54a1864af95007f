SPECIFICATION Spec
CONSTANTS
  e1 = e1
  e2 = e2
  p1 = p1
  p2 = p2
  n1 = n1
  n2 = n2
  n3 = n3
  unknowntcp = unknowntcp
  NoPid = NoPid
  Endpoints <- MCEndpoints
  Pids <- MCPids
  Nodes <- MCNodes
  ConnTimeout = 1
  ProcTimeout = 2
  MaxGap = 1
  MaxTime = 3
  MaxBytes = 2
  MaxRecords = 3
SYMMETRY MCSymmetry
INVARIANTS
  TypeOK
  ProcessListWellFormed
  ConnectionsOwned
  RecordsFollowNodes
  NoUpdateLost
PROPERTIES
  NewerRecordWins
