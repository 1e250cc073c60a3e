SPECIFICATION E2EFairSpec
CONSTANTS
  MaxConnections = 1
  Keys = {1}
  ListenKeys = {1}
  Segments = {}
  Iss = {7}
  SeqSize = 8
  ReceiveWindow = 2
  Mss = 1
  MaxBurst = 1
  MaxSend = 0
  CloseRetries = 1
  GenMod = 3
  PeerIsn = 6
  PeerBytes = 2
  PeerCloses = TRUE
  PeerBuffer = 1
  SendBytes = 0
  LinkRoom = 1
  MaxLost = 2
  Eager = FALSE
INVARIANTS InOrderOnce AckedIsDelivered ResetOnlyWhenOver ListsFit
PROPERTIES ClosesCleanly SlotReclaimed
CHECK_DEADLOCK FALSE
