SPECIFICATION Spec
CONSTANTS
  MaxRings = 2
  InviteOKRetryAttempts = 1
  InviteOKRetryAttemptsNoACK = 1
  Confs <- UDPConfs
  Events = {"stop"}
INVARIANT
  ShutdownReleases
