CONSTANTS
  NumTasks = 2
  NumMasters = 2
  NumDomains = 4
  MasterOf <- TwoMasters
  TidOf <- TwoTasks
  Fastest <- FastSlow
  Words = 2
  MayMiss = {2}
  CycleRing = 2
SPECIFICATION FairSpec
INVARIANTS
  TypeOK
  DataAreOneCycle
  AnswersAfterReceives
PROPERTIES
  StepsEnd
