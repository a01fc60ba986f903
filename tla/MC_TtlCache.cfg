SPECIFICATION Spec
CONSTANTS
  a = a
  b = b
  Lists = {"balances"}
  Registry = "registry"
  Contracts = {a, b}
  MaxVersion = 2
  MaxCalls = 2
  MaxRefreshes = 1
  MaxWrites = 1
  MaxFaults = 1
SYMMETRY Interchangeable
INVARIANTS TypeOK ReadsSeeCompletedChanges 
CHECK_DEADLOCK FALSE
