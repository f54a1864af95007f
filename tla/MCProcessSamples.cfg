SPECIFICATION Spec
CONSTANTS
  MaxPid = 2
  MaxTicks = 5
  Word = 8
  None = None
INVARIANTS
  ShareIsBounded
PROPERTIES
  UseSinceLastSample
