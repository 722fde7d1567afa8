CONSTANTS
  u1 = u1
  enb = enb
  phy = phy
  rrc = rrc
  Users = {u1}
  Services = {enb}
  Layers = {phy, rrc}
  Filters = {{phy, rrc}, {phy}}
  Ops = {"collect", "start", "stop", "clear"}
  QuietClear = TRUE
  Malformed = TRUE
  MaxLines = 2
  MaxLoops = 1
SPECIFICATION FairSpec
INVARIANTS
  NothingSkipped
PROPERTIES
  StopEnds
  Collected
