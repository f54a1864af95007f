SPECIFICATION PrioritySpec
CONSTANTS
  Pids = {1}
  Priorities <- MCPriorities
  Snapshots <- MCSnapshots
  Requests = {r1, r2}
  None = None
INVARIANTS
  ShownPriorityWasReal
  OneOutcome
PROPERTIES
  LastingPriorityIsShown
