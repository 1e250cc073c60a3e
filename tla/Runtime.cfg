SPECIFICATION Spec
CONSTANTS
  Runtimes = {r1, r2, r3}
  Devices = {d1, d2}
  CustomPools = {c}
  NoPool = NoPool
  HandlesFirst = TRUE
INVARIANTS OneRuntime ClaimNotLeaked EalFollowsOwner PoolsFreedFirst RxFromOwnPool DevicesOwned
