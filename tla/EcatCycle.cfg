\* Decimations of every kind, with answers that may be missed.
CONSTANTS
  Domains <- MCDomains
  Decimation <- MCDecimation
  Fastest = 4
  RefClkDec = 3
  MayMiss = {6, 8}
SPECIFICATION FairSpec
INVARIANTS
  TypeOK
  AnswersInTime
PROPERTIES
  AnswersRecur
