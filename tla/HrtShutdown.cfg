\* Two tasks, one of which may report an error, a writer and a reader:
\* liveness under the fairness of HrtTasks.
CONSTANTS
  NumTasks = 2
  Writers = {w1}
  Readers = {r1}
  Words = 1
  MayNotStart = {1}
  MayFail = {1}
  MaxNow = 0
  MaxVersion = 1
  CycleRing = 1
SPECIFICATION FairSpec
INVARIANTS
  StopsInOrder
PROPERTIES
  ShutdownCompletes
  TaskNotStarved
  ClientsComplete
