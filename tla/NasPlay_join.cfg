CONSTANTS
  MaxEvents = 0
  MaxFaults = 0
  StartJoined = FALSE
  Keys = {ka}
SPECIFICATION FairSpec
PROPERTIES
  Enrolls
