SPECIFICATION Spec
CONSTANTS
  Swaps = {t1}
  Recoverers = {r1, r2}
  Faults = {"reject", "lost", "crash", "drop", "reorder"}
  MaxFaults = 2
  NoRecord = NoRecord
INVARIANTS TypeOK RecordNeverAhead FeesWithinPayouts
SYMMETRY Symmetry
CHECK_DEADLOCK FALSE
