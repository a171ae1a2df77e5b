CONSTANTS
  None = None
  MaxSeq = 2
  WrapTo = 1
  MaxRetries = 1
  MaxConsecutive = 3
  MaxPayloads = 4
  MaxCommands = 4
  MaxTraffic = 4
  MaxWire = 2
  MaxRestarts = 1
SPECIFICATION Spec
INVARIANTS
  NeverOutOfStep
  DroppedDataWasApplied
PROPERTIES
  DeliveryIsReliable
  EventuallyApplied
CHECK_DEADLOCK FALSE
