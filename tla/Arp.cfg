SPECIFICATION Spec
CONSTANTS
  Ips = {1, 2, 3}
  Macs = {m1, m2}
  none = none
  Capacity = 2
  Size = 4
  Homes <- AllHomes
INVARIANTS LookupIsKnown
PROPERTY OnlyOurPeersAdded
