CONSTANTS
  Generated = {db}
  Outpost = outpost
  MaxCommit = 2
  Breaks = {1}
  MaxFaults = 1
  MaxReboots = 1
  MaxAside = 2
SPECIFICATION FairSpec
INVARIANTS
  TypeOK
  OneDown
  Green
  LiveKept
PROPERTIES
  Converges
