SPECIFICATION MCSpec
CONSTANTS
  r1 = r1
  r2 = r2
  Requests = {r1, r2}
  MaxRetry = 1
  Concurrency = 1
  Lives = 2
  p1 = p1
  Listings = {p1}
INVARIANTS
  PoolsOutliveCalls
  WorkersEquipped
  OrderlyStopForgetsNobody
  SettledRight
  RepeatsAccounted
  IInv
PROPERTIES
  ImplementsOutbox
  ShutdownEnds
  TasksSettle
CHECK_DEADLOCK FALSE
