CONSTANTS
  HttpCallers = {http}
  SshCallers = {ssh}
  Requests <- AllRequests
  HttpRetries = 1
  SshRetries = 2
  MaxCalls = 2
  Mingled <- FewRequests
  NoCall = NoCall
SPECIFICATION FairSpec
CHECK_DEADLOCK FALSE
INVARIANTS
  TypeOK
  AnswerMeansDone
  RefusedUntouched
  TunnelledOnce
  SameCommand
  ArgumentsArrive
PROPERTIES
  ImplementsRepeatedCall
  CallsReturn
  LoopComesBack
