SPECIFICATION FairSpec
CONSTANTS
  MaxTries = 2
  Events = {}
  Requests = {{"rpc"}, {"stop"}}
PROPERTIES
  CallEnds
  StopReturns
