SPECIFICATION FairSpec
CONSTANTS
  None = None
  Requests = {r1}
  Files = {f1, f2, f3, f4}
  MaxFiles = 3
INVARIANTS
  ImagesTellTheTruth
  SendersAreFree
  NothingLeftBehind
  IInv
PROPERTIES
  TaskEnds
  ImplementsCatalogue
CHECK_DEADLOCK FALSE
