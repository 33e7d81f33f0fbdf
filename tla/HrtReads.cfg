CONSTANTS
  NumTasks = 2
  Writers = {w1}
  Readers = {r1}
  Words = 2
  MayNotStart = {}
  MayFail = {}
  MaxNow = 0
  MaxVersion = 1
  CycleRing = 2
SPECIFICATION Spec
INVARIANTS
  SignalsAreOneCycle
PROPERTIES
  CyclesAreAtomic
