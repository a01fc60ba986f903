SPECIFICATION FairSpec
CONSTANTS
  Users = {u1, u2}
  None = None
  Kinds = {"permissions", "accounts", "call"}
  MaxRequests = 2
  Faults = {"reject", "lost"}
  MaxFaults = 2
  Lapses = {"idle"}
  MaxLapses = 2
INVARIANTS  AbortedMeansNotPerformed
 
CHECK_DEADLOCK FALSE
