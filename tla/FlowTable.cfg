SPECIFICATION FairSpec
CONSTANTS
  Keys = {1, 2, 3, 4}
  Values = {1, 2}
  npos = 99
  Capacity = 3
  Size = 8
  Homes <- HomesAtWrap
INVARIANTS FindIsMap
PROPERTY CallsEnd
