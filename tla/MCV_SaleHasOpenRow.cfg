CONSTANTS
  None = None
  MaxSeq = 15
  MaxBlock = 1
  MaxSales = 2
  MaxVolume = 0
  MaxPending = 2
  MaxDetours = 0
  MaxBlips = 0
  MaxOutages = 0
  MaxQueue = 4
  MaxDrops = 0
  MaxErrors = 0
  MaxCrashes = 0
  MaxTroubles = 2
SPECIFICATION Spec
INVARIANTS
  SaleHasOpenRow
CHECK_DEADLOCK FALSE
