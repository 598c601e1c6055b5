\* The end of the test.
CONSTANTS
  Room = 2
  MaxMessages = 2
SPECIFICATION Spec
PROPERTIES
  Finishes
CHECK_DEADLOCK FALSE
