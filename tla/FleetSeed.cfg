SPECIFICATION FairSpec
CONSTANTS
  Boots = {b1, b2, b3}
  DriverCount = 2
  Legacy = {old}
  None = None
CHECK_DEADLOCK FALSE
INVARIANTS
  TypeOK
PROPERTIES
  Implements
  StartupEnds
