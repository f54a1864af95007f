SPECIFICATION Spec
CONSTANTS
  f1 = f1
  f2 = f2
  a1 = a1
  a2 = a2
  None = None
  MaxPid = 2
  MaxInode = 2
  Flows <- MCFlows
  Addrs <- MCAddrs
  local_addrs <- MCLocal
SYMMETRY MCSymmetry
INVARIANTS
  OwnerTookPart
PROPERTIES
  RightOwner
  LatePacketsFindOwner
