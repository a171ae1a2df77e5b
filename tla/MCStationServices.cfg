CONSTANTS
  None = None
  c1 = c1
  c2 = c2
  Qos <- QosOf
  MaxRows = 3
  BatchSize = 2
  MaxAttempts = 2
  MaxErrors = 1
  MaxOutages = 1
  MaxCrashes = 1
  MaxTroubles = 1
  Commands = {c1, c2}
  Command <- CommandOf
  Contexts <- PumpContexts
  Environment = "LAB"
  Mode = "LISTEN_ONLY"
  MaxOutbound = 2
  MaxRequests = 3
  MaxSubscribers = 1
  QueueSize = 2
  Filters <- FilterSets
  MaxStreams = 2
  MaxSequence = 6
  MaxBeats = 5
  Loads <- StationLoads
SPECIFICATION Spec
INVARIANTS
  SyncTypeOK
  DuplicatesHaveCauses
  OvertakenOnlyAfterFailure
  CloudCommandQueuedOnce
  RowsTellExecution
  SentOncePerRequest
  EventsInOrder
  LatestCriticalArrives
PROPERTIES
  DeliveryIsAtLeastOnce
  EveryEntryIsSettled
  HeartbeatIsRecent
CHECK_DEADLOCK FALSE
