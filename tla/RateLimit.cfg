SPECIFICATION FairSpec
CONSTANTS
  Callers = {c1, c2, c3}
  Conns = {k1, k2, k3}
  PoolSize = 1
  Limit = 1
  MaxWindow = 1
  NoConn = NoConn
CHECK_DEADLOCK FALSE
INVARIANTS
  TypeOK
  RepliesAreOwn
  LimitRespected
PROPERTIES
  Implements
  AllowReturns
