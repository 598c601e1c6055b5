\* Rings of three messages, more than a lap of both.
CONSTANTS
  Room = 3
  MaxMessages = 5
SPECIFICATION Spec
INVARIANTS
  IndInv
  InStep
  PanicsHaveACause
PROPERTIES
  StopsIfBusy
\* A failed setup, or a ring that is drained or full when the time is up, leaves
\* threads that spin without effect.
CHECK_DEADLOCK FALSE
