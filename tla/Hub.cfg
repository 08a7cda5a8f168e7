SPECIFICATION FairSpec
CONSTANTS
  Clients = {c1, c2}
  Slow = {c2}
  Messages = {m1, m2}
  BufSize = 1
  MaxEvents = 1
  NoMsg = NoMsg
INVARIANTS
  TypeOK
  NoSendOnClosed
  OrderKept
PROPERTIES
  NoneWaitsForSlow
  BufferedIsWritten
  WritersEnd
