SPECIFICATION E2ESpec
CONSTANTS
  MaxConnections = 1
  Keys = {1}
  ListenKeys = {1}
  Segments = {}
  Iss = {7}
  SeqSize = 8
  ReceiveWindow = 2
  Mss = 1
  MaxBurst = 1
  MaxSend = 2
  CloseRetries = 1
  GenMod = 3
  PeerIsn = 6
  PeerBytes = 1
  PeerCloses = FALSE
  PeerBuffer = 2
  SendBytes = 3
  LinkRoom = 1
  MaxLost = 1
  Eager = FALSE
INVARIANTS WindowRespected
CHECK_DEADLOCK FALSE
