CONSTANTS
  None = None
  MaxSeq = 3
  MaxBlock = 2
  MaxSales = 2
  MaxVolume = 1
  MaxPending = 3
  MaxDetours = 1
  MaxBlips = 0
  MaxOutages = 0
SPECIFICATION DispenserSpec
INVARIANT BlocksAreTracked
CHECK_DEADLOCK FALSE
