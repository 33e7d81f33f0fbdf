CONSTANTS
  Proc = {P1, P2}
  NoProc = NoProc
  NumTasks = 3
  MaxPriority = 3
  Arguments <- Some
  Requests <- AllRequests
SPECIFICATION Spec
INVARIANTS
  TypeOK
  EverythingUndone
  RateMonotonic
  PidFileIsFresh
\* Instances end.
CHECK_DEADLOCK FALSE
