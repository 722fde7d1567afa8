CONSTANTS
  Threads = {t1}
  None = None
  enb = enb
  mme = mme
  Services = {enb}
  Order <- MCEnbOnly
  Versioned = {}
  Ops = {"check"}
  AutoReconnect = TRUE
  MaxCalls = 1
  MaxClients = 1
SPECIFICATION FairSpec
PROPERTIES
  CheckSeesConnection
