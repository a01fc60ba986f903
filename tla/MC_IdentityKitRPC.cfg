SPECIFICATION Spec
CONSTANTS
  Users = {u1, u2}
  None = None
  Kinds = {"permissions", "delegation", "call", "unknown"}
  MaxRequests = 3
  Faults = {"reject", "lost", "login", "renewal"}
  MaxFaults = 1
  Lapses = {"idle", "expiry"}
  MaxLapses = 1
INVARIANTS TypeOK NothingLost PromptShowsItsRequest CallsAreApproved
PROPERTIES ServedInOrder
CHECK_DEADLOCK FALSE
