CONSTANTS
  u1 = u1
  u2 = u2
  Users = {u1, u2}
  Backup = TRUE
  MaxCalls = 2
SPECIFICATION Spec
INVARIANTS
  TypeOK
  Recoverable
  StoppedIsSaid
