CONSTANTS
  MaxEvents = 2
  MaxFaults = 1
  StartJoined = TRUE
  Keys = {ka, kb}
SPECIFICATION FairSpec
INVARIANTS
  TypeOK
  Honest
  VpnServes
  CertServed
  BoundedIssuance
  KeysUsable
PROPERTIES
  NeverLocksOut
  NoDeadFile
  Converges
