\* Documents of four profiles with chains of at most three, four tasks.
SPECIFICATION Spec
CONSTANTS
  a = a
  b = b
  c = c
  d = d
  x = x
  serving = serving
  unnamed = unnamed
  t1 = t1
  t2 = t2
  t3 = t3
  t4 = t4
  p1 = p1
  p2 = p2
  p3 = p3
  Names <- MCNames
  Unnamed = unnamed
  Accounts <- MCAccounts
  Serving = serving
  Tasks <- MCTasks
  Project <- MCProject
  Priority <- MCPriority
  Documents <- MCDocuments
  Quotas <- MCQuotas
  Offers <- MCOffers
  MaxFallbackDepth = 3
  MaxFallbackChain = 3
  DefaultMaxWorkers = 2
  ReadableColumns = 40
  ReadableRows = 4
  WindowColumns = 226
  WindowRows = 69
  SplitRowCost = 4
  SearchCeiling = 40
INVARIANTS
  TypeOK
  FirstEligible
  DoorAgrees
  FairShare
  CapClearsFloors
CHECK_DEADLOCK FALSE
