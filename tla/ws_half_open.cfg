CONSTANTS
  Threads = {t1}
  None = None
  Ops = {"connect"}
  Method = "direct"
  Password = FALSE
  AutoReconnect = FALSE
  MaxSkip = 2
  BatchSize = 1
  ReplyOrder = "inorder"
  MaxCalls = 2
  MaxConns = 2
  MaxQueue = 1
SPECIFICATION Spec
PROPERTIES
  ConnectedMeansAdmitted
