\* The adapters free one slot at a time, the client's host writes two.
CONSTANTS
  BufferSize = 4
  NoItem = NoItem
  MaxData = 9
  Arguments <- MCLargeBatch
SPECIFICATION Spec
INVARIANTS
  NoMismatch
