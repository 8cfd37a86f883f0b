SPECIFICATION Spec
CONSTANTS
  CallIDs = {c1, c2}
  MaxInvites = 3
  DigestLimit = 1
  Replies = {"error", "quotaExceeded", "noTrunk", "drop", "credentials",
             "noPassword"}
SYMMETRY Symmetry
INVARIANTS
  AdmittedAnsweredChallenge
  FinalizedOnce
  TableSound
  ChallengeSettled
