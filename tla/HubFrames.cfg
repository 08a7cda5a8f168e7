SPECIFICATION Spec
CONSTANTS
  Clients = {c1}
  Slow = {}
  Messages = {m1}
  BufSize = 1
  MaxEvents = 1
  NoMsg = NoMsg
INVARIANT FramesIntact
