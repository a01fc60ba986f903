SPECIFICATION Spec
CONSTANTS
  Stores = {auth, profile, wallets}
  Pinned = {wallets}
  MaxWrites = 1
  MaxOpens = 1
  MaxSwitches = 1
  MaxWipes = 0
  Faults = {}
  MaxFaults = 0
PROPERTY RollBackKeepsRows
CHECK_DEADLOCK FALSE
