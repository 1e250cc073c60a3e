SPECIFICATION E2ESpec
CONSTANTS
  MaxConnections = 1
  Keys = {1}
  ListenKeys = {1}
  Segments = {}
  Iss = {7}
  SeqSize = 8
  ReceiveWindow = 2
  Mss = 1
  MaxBurst = 1
  MaxSend = 1
  CloseRetries = 0
  GenMod = 3
  PeerIsn = 6
  PeerBytes = 1
  PeerCloses = TRUE
  PeerBuffer = 1
  SendBytes = 2
  LinkRoom = 1
  MaxLost = 0
  Eager = TRUE
INVARIANT WindowRespected
CHECK_DEADLOCK FALSE
