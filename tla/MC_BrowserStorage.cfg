SPECIFICATION Spec
CONSTANTS
  Stores = {auth, profile, wallets}
  Pinned = {wallets}
  MaxWrites = 1
  MaxOpens = 1
  MaxSwitches = 2
  MaxWipes = 1
  Faults = {"open", "copy", "delete"}
  MaxFaults = 1
INVARIANTS TypeOK KeepsWrites SwitchKeepsRows NothingLeftOnDisk
SYMMETRY Symmetry
CHECK_DEADLOCK FALSE
