SPECIFICATION Spec
CONSTANTS
  Requests = {1, 2}
  Drivers = {1, 2}
  Dist <- MCDist
  MaxConns = 2
  MaxFaults = 1
  Impatient = {}
  None = None
INVARIANT StaysPending
