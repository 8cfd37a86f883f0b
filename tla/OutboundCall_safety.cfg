SPECIFICATION Spec
CONSTANTS
  MaxTries = 2
  Events = {"badAnswer", "roomEnds", "mediaTimeout"}
  Requests = {{"rpc", "stop"}, {"rpc", "xfer"}, {"stop", "xfer"}}
INVARIANTS
  LocksHeld
  AnsweredIsHungUp
  ReleasedOnce
  NoRedial
  EndReported
PROPERTIES
  ImplementsUAC
