CONSTANTS
  NAddresses = 2
  Offline = {}
  MaxRetries = 1
  MaxConsecutive = 3
  MaxLate = 1
SPECIFICATION Spec
PROPERTIES
  AnsweringPumpsAreHeard
