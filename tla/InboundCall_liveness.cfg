SPECIFICATION FairSpec
CONSTANTS
  MaxRings = 2
  InviteOKRetryAttempts = 0
  InviteOKRetryAttemptsNoACK = 1
  Confs <- UDPConfs
  Events <- LiveEvents
PROPERTIES
  CallEnds
  ByeEndsCall
  StopEndsCall
  RingerExits
