\* The media timeout: early media, long ringing, a late or missing ACK.  The
\* order of the durations is that of the defaults.
SPECIFICATION TimeoutSpec
CONSTANTS
  InitialOpt = 6
  GeneralOpt = 0
  DefInitial = 7
  DefGeneral = 3
  AckLate = 2
  MaxErrors = 2
  MaxTime = 14
INVARIANTS
  PromptTimeout
  NoEarlyTimeout
CHECK_DEADLOCK FALSE
