SPECIFICATION Spec
CONSTANTS
  Requests = {1, 2, 3, 4}
  Drivers = {1, 2}
  Dist <- MCDist
  MaxConns = 3
  MaxFaults = 1
  Impatient = {1}
  None = None
INVARIANTS
  TypeOK
  NoDoubleDispatch
  NearestClaimed
  NoDriverJustified
  ReplyBacked
  NoWaitCycle
PROPERTY Implements
