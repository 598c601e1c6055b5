\* A Max_Count that is no power of two, and no call of set_capacity_inunit.
CONSTANTS
  Width = 3
  MaxCount = 3
  Capacities = {}
  Scales = {1}
  WriteSizes = {1, 2, 3}
  Counts <- MCReadAll
  Tags = 5
SPECIFICATION Spec
INVARIANTS
  ReadsInOrder
