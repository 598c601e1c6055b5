\* Every combination of --iters, --events and --rx-depth, receives posted again
\* halfway.
CONSTANTS
  IterCounts = {2, 4}
  RxDepths = {1, 2, 3}
SPECIFICATION Spec
INVARIANTS
  IndInv
  BufferStable
  QueuesSuffice
  FailsOnlyAtTheEnd
PROPERTIES
  Finishes
\* Both sides return, or one waits for a client that was refused, or for the
\* messages of a peer with fewer iterations.
CHECK_DEADLOCK FALSE
