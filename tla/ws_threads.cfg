CONSTANTS
  Threads = {t1, t2}
  None = None
  Ops = {"send"}
  Method = "proxy"
  Password = FALSE
  AutoReconnect = TRUE
  MaxSkip = 2
  BatchSize = 1
  ReplyOrder = "anyorder"
  MaxCalls = 1
  MaxConns = 2
  MaxQueue = 1
SPECIFICATION FairSpec
INVARIANTS
  OwnAnswers
PROPERTIES
  CallsEnd
