SPECIFICATION FairSpec
CONSTANTS
  a1 = a1
  a2 = a2
  b1 = b1
  Sessions <- ThreeSessions
  Bucket <- ThreeBuckets
  Cap = 1
  MaxFaults = 1
  MaxOrphans = 0
  MaxStops = 1
PROPERTY DueEventuallyRuns
