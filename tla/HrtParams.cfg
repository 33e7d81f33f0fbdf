\* Two tasks, two clients that write parameters.
CONSTANTS
  NumTasks = 2
  Writers = {w1, w2}
  Readers = {}
  Words = 2
  MayNotStart = {}
  MayFail = {}
  MaxNow = 1
  MaxVersion = 2
  CycleRing = 2
SPECIFICATION Spec
SYMMETRY ClientSymmetry
INVARIANTS
  TypeOK
  StepsUseOneBlock
  WaitsDescend
  ReportedWritesAreUsed
