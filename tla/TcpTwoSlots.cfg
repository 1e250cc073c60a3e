SPECIFICATION Spec
CONSTANTS
  MaxConnections = 2
  Keys = {1, 2}
  ListenKeys = {1, 2}
  Segments <- ResetSegments
  Iss <- MCIss
  SeqSize = 4
  ReceiveWindow = 1
  Mss = 1
  MaxBurst = 1
  MaxSend = 0
  CloseRetries = 1
  GenMod = 3
INVARIANTS GenerationsFromOne SlotNotRecycled StaleIdNeverResolves NoNullDereference SlotsAccounted FlowsExact
CONSTRAINT OneSlotReused
