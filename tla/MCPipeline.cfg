\* Rings of four slots, more than two laps.
CONSTANTS
  BufferSize = 4
  NoItem = NoItem
  MaxData = 9
  Arguments <- MCArguments
SPECIFICATION Spec
INVARIANTS
  IndInv
  AlignedNoMismatch
  RecvSlotsHidden
  CommitsWhatArrived
  FailsOnlyAfterServer
PROPERTIES
  StreamSpec
  SendSlotsStable
  AdapterFollowsHost
  MessagesArrive
