SPECIFICATION Spec
CONSTANTS
  MaxConnections = 1
  Keys = {1}
  ListenKeys = {1}
  Segments <- DataSegments
  Iss <- MCIss
  SeqSize = 8
  ReceiveWindow = 2
  Mss = 1
  MaxBurst = 2
  MaxSend = 2
  CloseRetries = 1
  GenMod = 3
INVARIANTS AckPendingLive SndNxtCoversWire SndNxtExactBetweenCalls
PROPERTIES LifecycleSpec FinAckedTruly DeliveredInOrder
CONSTRAINT FirstConnections
