\* More than two laps of a buffer of three batches of two; batches of four do
\* not divide the buffer.
CONSTANTS
  BufferSize = 6
  NoItem = NoItem
  Batches = {2, 4}
  DataSize = 14
  Sizes = {2, 4}
  Items <- MCItems
SPECIFICATION BenchSpec
INVARIANTS
  StuckAtWrap
PROPERTIES
  Terminates
