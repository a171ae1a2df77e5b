CONSTANTS
  NAddresses = 4
  Offline = {2}
  MaxRetries = 1
  MaxConsecutive = 4
  MaxLate = 3
SPECIFICATION Spec
INVARIANTS
  AnsweringPumpsStayConnected
PROPERTIES
  GonePumpsAreDisconnected
  AnsweringPumpsAreHeard
