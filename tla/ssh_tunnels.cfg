CONSTANTS
  WsClients = {w}
  HttpClients = {h}
  Port <- OwnPorts
  Program <- OneProgram
  Tools = {"lsof", "pkill"}
  Ops = {"connect", "reconnect", "close", "send"}
  AutoReconnect = TRUE
  MaxCalls = 3
  MaxTunnels = 6
SPECIFICATION FairSpec
INVARIANTS
  TypeOK
  TunnelsHeld
PROPERTIES
  KilledByPort
  MethodsReturn
