CONSTANTS
  Threads = {t1}
  None = None
  Ops <- AllOps
  Method = "direct"
  Password = TRUE
  AutoReconnect = TRUE
  MaxSkip = 2
  BatchSize = 2
  ReplyOrder = "inorder"
  MaxCalls = 3
  MaxConns = 2
  MaxQueue = 1
SPECIFICATION Spec
INVARIANTS
  AtMostOnce
  NoLeakedConnection
PROPERTIES
  ImplementsRemoteCall
  ImplementsClientLink
