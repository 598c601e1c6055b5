\* Counters of 4 bits that wrap every few laps; 2 or 4 units of 1 to 3 bytes.
CONSTANTS
  Width = 4
  MaxCount = 4
  Capacities = {2, 3, 4}
  Scales = {1, 2, 3}
  WriteSizes = {1, 5, 12}
  Counts <- MCCounts
  Tags = 13
SPECIFICATION Spec
INVARIANTS
  IndInv
  ReadsInOrder
  DisjointCopies
  RoomStays
