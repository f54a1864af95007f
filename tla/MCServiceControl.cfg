SPECIFICATION ControlSpec
CONSTANTS
  tmpl = tmpl
  inst = inst
  None = None
  Blank = Blank
  Batch = 2
  Template = tmpl
  MaxPolls = 1
  MaxRequests = 2
  MaxVersion = 3
  Names <- MCNames
  Values <- Entries
  Units <- MCUnits
  Instances <- MCUnits
INVARIANTS
  PassingStateIsPolled
PROPERTIES
  ListIsNotOlderThanRefresh
  PollingEnds
  EveryLoadingEnds
