CONSTANTS
  u1 = u1
  enb = enb
  phy = phy
  Tester = u1
  Users = {u1}
  Services = {enb}
  Layers = {phy}
  Filters = {{phy}}
  Ops = {"collect", "start", "stop", "clear"}
  QuietClear = FALSE
  Malformed = TRUE
  MaxLines = 2
  MaxLoops = 2
SPECIFICATION FairSessionSpec
INVARIANTS
  SessionTypeOK
  EachLineOnce
  ExportComplete
PROPERTIES
  ExportFinal
  SessionEnds
