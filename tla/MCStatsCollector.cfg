SPECIFICATION Spec
CONSTANTS
  MaxPid = 4
  MaxBirths = 6
  Kinds <- MCServices
  Firsts <- MCFirsts
  None = None
INVARIANTS
  ParentsFormNoCycle
PROPERTIES
  ListIsComplete
  ListHasNoStrangers
  FilterTakesEffect
