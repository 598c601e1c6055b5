\* What "Handshake done" says.
CONSTANTS
  MaxStarts = 1
SPECIFICATION Spec
INVARIANTS
  ConnectedMeansGreeted
CHECK_DEADLOCK FALSE
