SPECIFICATION FairSpec
CONSTANTS
  g1 = g1  g2 = g2  A = A  B = B  u1 = u1  o1 = o1  o2 = o2  o3 = o3  o4 = o4  o5 = o5
  Pks <- MCPks
  Names <- MCNames
  Users <- MCUsers
  Ids <- MCIds
  Starts <- MCStarts
  Gone = Gone
  Absent = Absent
  Local = Local
  Other = Other
  MaxLdap = 1
  MaxEdits = 2
  MaxFails = 1
INVARIANTS TypeOK OneDirectory OneGroupEach
PROPERTIES ForeignKept Converges
CHECK_DEADLOCK FALSE
