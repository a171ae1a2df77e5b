CONSTANTS
  None = None
  MaxSeq = 15
  MaxBlock = 1
  MaxSales = 2
  MaxVolume = 0
  MaxPending = 2
  MaxDetours = 1
  MaxBlips = 1
  MaxOutages = 1
  MaxQueue = 4
  MaxDrops = 1
  MaxErrors = 1
  MaxCrashes = 1
  MaxTroubles = 2
SPECIFICATION Spec
INVARIANTS
  NoInventedSale
  CloudHearsOnce
  SnapshotIsCurrent
CHECK_DEADLOCK FALSE
