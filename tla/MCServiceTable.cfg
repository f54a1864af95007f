SPECIFICATION TableSpec
CONSTANTS
  s1 = s1
  s2 = s2
  s3 = s3
  None = None
  Blank = Blank
  Batch = 2
  Names <- MCNames
  Values <- MCValues
INVARIANTS
  TableTypeOK
  OneRowPerService
  ShowsLoadedMatches
  SelectionIsRemembered
