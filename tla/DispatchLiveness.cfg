SPECIFICATION FairSpec
CONSTANTS
  Requests = {1, 2, 3}
  Drivers = {1, 2}
  Dist <- MCDist
  MaxConns = 2
  MaxFaults = 1
  Impatient = {1, 2, 3}
  None = None
PROPERTIES
  EveryRequestAnswered
  LocksReleased
