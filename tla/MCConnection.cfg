\* One server and one client, any failure, each started again twice.
CONSTANTS
  MaxStarts = 3
SPECIFICATION Spec
INVARIANTS
  IndInv
  StreamingMeansGreeted
  HandshakeLeavesNothing
PROPERTIES
  Connects
  WaitsOnlyWhenForsaken
\* A side may wait for ever for a peer that is gone.
CHECK_DEADLOCK FALSE
