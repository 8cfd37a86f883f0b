SPECIFICATION FairSpec
CONSTANTS
  Requests = {r1, r2}
  Destinations = {d1}
  MaxTransfers = 1
  MaxNotifies = 1
  EventIDs = {TRUE, FALSE}
  Statuses = {0, 100, 200, 486}
PROPERTIES
  TransfersEnd
  TransferredCallEnds
