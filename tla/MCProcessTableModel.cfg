SPECIFICATION FairSpec
CONSTANTS
  Pids <- MCPids
  States <- MCStates
  Priorities <- MCPriorities
  Snapshots <- MCSnapshots
INVARIANTS
  TypeOK
  RowIndexConsistent
  NoStaleRowBehindIterator
  ReadEntriesOnDisplay
PROPERTIES
  TableSpec
  UpdateTerminates
