CONSTANTS
  Threads = {t1, t2}
  None = None
  enb = enb
  mme = mme
  Services = {enb, mme}
  Order <- MCOrder
  Versioned = {mme}
  Ops = {"request", "check", "reconnect", "disconnect", "status", "connectAll", "closeAll"}
  AutoReconnect = TRUE
  MaxCalls = 1
  MaxClients = 4
SPECIFICATION FairSpec
INVARIANTS
  TypeOK
  ApiWrapsClient
PROPERTIES
  CloseAllClears
  StatusIsSnapshot
  DroppedClosed
  MethodsEnd
