\* Three slots, requests of 1 to 3 items, almost two laps of the buffer.  No
\* symmetry: FifoSpec is a temporal property.
CONSTANTS
  BufferSize = 3
  Items = {a, b}
  NoItem = NoItem
  Sizes = {1, 2, 3}
  MaxItems = 5
SPECIFICATION MCSpec
INVARIANTS
  NoDataRace
  ExclusiveSlots
  NoUnderflow
  ReadsPublished
  IndInv
PROPERTIES
  FifoSpec
