\* The LiveKit room of a call: every interleaving of connecting, subscribing,
\* two losses of the signal connection and closing.
SPECIFICATION Spec
CONSTANTS
  Tracks = {"t"}
  MaxLosses = 2
INVARIANTS
  NoEarlyAudio
  NoTrackMissed
  ParticipantCurrent
  SessionLeft
CHECK_DEADLOCK FALSE
