SPECIFICATION Spec
CONSTANTS
  Requests = {r1, r2}
  Destinations = {d1, d2}
  MaxTransfers = 2
  MaxNotifies = 1
  EventIDs = {TRUE, FALSE}
  Statuses = {100, 200, 486}
INVARIANTS
  SameOutcome
  OneReceiver
  SuccessWasNotified
  AudioRestored
PROPERTIES
  ResultWins
