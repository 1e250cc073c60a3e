SPECIFICATION PacketsSpec
CONSTANTS
  Objects = {o1, o2}
  Devices = {d1}
  NRx = 2
  NTx = 1
  Mbufs = {m1, m2, m3}
  NullPtr = NullPtr
  Locals = {v}
  Bursts = {b1, b2}
  MaxSize = 2
  MaxAsked = 3
SYMMETRY Symmetry
INVARIANTS OneHolder BurstFits OneOwner HandedOnce NothingSkipped
