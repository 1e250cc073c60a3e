SPECIFICATION DefaultIdSpec
CONSTANTS
  MaxConnections = 1
  Keys = {1}
  ListenKeys = {1}
  Segments <- ResetSegments
  Iss <- MCIss
  SeqSize = 4
  ReceiveWindow = 1
  Mss = 1
  MaxBurst = 1
  MaxSend = 0
  CloseRetries = 1
  GenMod = 3
INVARIANT DefaultIdNeverValid
