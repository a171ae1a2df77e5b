CONSTANTS
  None = None
  Crc <- CrcBytes
  MaxBufferSize = 24
  Address = 80
  Blocks <- VariedBlocks
  MaxBuffer = 30
  Noise = {3, 16, 250}
  MaxFrames = 4
  MaxDamages = 2
SPECIFICATION Spec
INVARIANTS
  StreamResynchronizes
  ValidDataWasSent
  ReportsAreUnderstood
PROPERTIES
  NoByteIsLost
CHECK_DEADLOCK FALSE
