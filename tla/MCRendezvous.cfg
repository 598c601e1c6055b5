\* Two adapters and two hosts in one directory, started and killed in any order:
\* enough for a stale file, for two that race for the file, and for a second
\* host in the queue.
CONSTANTS
  a1 = a1
  a2 = a2
  h1 = h1
  h2 = h2
  None = None
  Adapters <- MCAdapters
  Hosts <- MCHosts
SPECIFICATION Spec
INVARIANTS
  IndInv
  HostsFailWithTheirAdapter
PROPERTIES
  AttachmentSpec
  NobodyLeftBehind
  Meets
\* All processes may be gone, or wait for one that nobody starts.
CHECK_DEADLOCK FALSE
