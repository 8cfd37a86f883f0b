SPECIFICATION FairSpec
CONSTANTS
  QueueSize = 1
  Flights = 2
INVARIANT OneReader
PROPERTY CloseReturns
PROPERTY SessionReleased
CHECK_DEADLOCK FALSE
