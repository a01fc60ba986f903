SPECIFICATION FairSpec
CONSTANTS
  Swaps = {t1}
  Recoverers = {r1}
  Faults = {"reject", "drop"}
  MaxFaults = 1
  NoRecord = NoRecord
PROPERTIES FundsComeHome
CHECK_DEADLOCK FALSE
