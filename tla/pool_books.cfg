SPECIFICATION Spec
CONSTANTS
  a1 = a1
  a2 = a2
  b1 = b1
  Sessions <- ThreeSessions
  Bucket <- ThreeBuckets
  Cap = 1
  MaxFaults = 3
  MaxOrphans = 1
  MaxStops = 1
INVARIANT TypeOK
INVARIANT PoolBooksSound
INVARIANT SecondContainerNeedsFailedStop
SYMMETRY SameUser
