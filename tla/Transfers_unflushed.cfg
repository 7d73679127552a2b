CONSTANTS
  Total = 2
  MaxRecords = 2
  MaxOpens = 2
  KnownLosses = {"unflushed"}
SPECIFICATION XSpec
INVARIANTS
  HandedWhole
CHECK_DEADLOCK FALSE
