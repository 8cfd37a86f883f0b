SPECIFICATION Spec
CONSTANTS
  MaxRings = 2
  InviteOKRetryAttempts = 1
  InviteOKRetryAttemptsNoACK = 1
  Confs <- MCConfs
  Events <- MCEvents
INVARIANTS
  IInv
  NoUnexplainedEnd
  AnsweredEndsWithBye
  ReleasedByHandler
PROPERTIES
  NoRingingAfterFinal
  ImplementsDialog
