CONSTANTS
  None = None
  Prices <- TwoPrices
  NewPrices = {1}
  Presets = {1}
  NaturalVolume = 2
  MaxSales = 2
  MaxMishaps = 1
  MaxSeq = 2
  MaxPending = 1
  Followed <- OneSale
SPECIFICATION Spec
INVARIANTS
  EngineFollowsState
  TotalsMatchReceipts
  FlowsForAnOpenSale
  FaultIsObserved
PROPERTIES
  AmountNeverDecreases
  FillingEnds
CHECK_DEADLOCK FALSE
