SPECIFICATION ViewSpec
CONSTANTS
  p1 = p1
  p2 = p2
  p3 = p3
  None = None
  Pids <- MCPids
  States <- MCStates
  Priorities <- MCPriorities
  Snapshots <- MCSnapshots
SYMMETRY MCSymmetry
INVARIANTS
  SelectionIsRemembered
PROPERTIES
  SelectionMovesOnlyWithItsRow
  ConfirmedProcessIsTheNamedOne
