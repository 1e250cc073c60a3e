SPECIFICATION Spec
CONSTANTS
  Runtimes = {r1, r2}
  Devices = {d1, d2}
  CustomPools = {}
  NoPool = NoPool
  HandlesFirst = TRUE
INVARIANT TxRingsHavePools
