SPECIFICATION FairSpec
CONSTANTS
  Records = {1, 2, 3}
  Time <- MCTime
  Limits = {0, 2}
  MaxSenders = 2
  Drivers = {1}
  Dist <- MCDist
  None = None
  Users = {1, 2}
  Levels <- MCLevels
  MaxPosts = 2
INVARIANTS
  TypeOK
  SimReport
  LoadReport
PROPERTIES
  ToolEnds
