CONSTANTS
  Threads = {t1}
  None = None
  Ops <- SessionOps
  Method = "proxy"
  Password = TRUE
  AutoReconnect = TRUE
  MaxSkip = 2
  BatchSize = 2
  ReplyOrder = "inorder"
  MaxCalls = 3
  MaxConns = 2
  MaxQueue = 1
SPECIFICATION Spec
INVARIANTS
  TypeOK
  AwaitedAnswerOnItsWay
PROPERTIES
  ConnectedMeansAdmitted
  FailedSendDisconnects
