CONSTANTS
  Proc = {P1}
  NoProc = NoProc
  NumTasks = 3
  MaxPriority = 3
  Arguments <- Shared
  Requests <- Low
SPECIFICATION Spec
INVARIANTS
  SlowerTasksHaveLess
\* Instances end.
CHECK_DEADLOCK FALSE
