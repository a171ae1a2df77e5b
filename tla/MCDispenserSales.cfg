CONSTANTS
  None = None
  MaxSeq = 3
  MaxBlock = 2
  MaxSales = 2
  MaxVolume = 1
  MaxPending = 3
  MaxDetours = 1
  MaxBlips = 1
  MaxOutages = 1
SPECIFICATION DispenserSpec
INVARIANTS
  SalesAreTracked
  IdleIsReal
  SaleEndIsSeen
CHECK_DEADLOCK FALSE
