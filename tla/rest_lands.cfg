CONSTANTS
  HttpCallers = {http}
  SshCallers = {}
  Requests <- AllRequests
  HttpRetries = 0
  SshRetries = 0
  MaxCalls = 1
  Mingled <- FewRequests
  NoCall = NoCall
SPECIFICATION Spec
CHECK_DEADLOCK FALSE
INVARIANTS
  CallsLand
