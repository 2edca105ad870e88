SPECIFICATION FairSpec
CONSTANTS
  Process = {p1, p2}
  Token = {k1, k2, k3}
  MaxTtl = 3
  NoToken = NoToken
INVARIANTS
  IInv
  LeaseIsKept
  ReleasedWhenDone
  ExclusionInTime
PROPERTIES
  ImplementsLease
  LockIsFreedEventually
