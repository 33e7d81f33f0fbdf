CONSTANTS
  NumTasks = 2
  SampleTime <- TwoRates
  ShiftTime = 6
  Phase = 50
  Lead = 2
  Word = 7
  Boot = {3}
  MaxClock = 16
SPECIFICATION Spec
INVARIANTS
  TypeOK
  TasksStayInPhase
  NoCycleIsLost
  LoadAtMostOne
  StartsOnMultiple
\* The clock is bounded.
CHECK_DEADLOCK FALSE
