CONSTANTS
  M1 = M1
  M2 = M2
  D1 = D1
  D2 = D2
  Master = {M1, M2}
  Domain = {D1, D2}
  Tid = {0, 1}
  Rate <- Rates
  NoTid = 9
  Calls <- TwoBlocks
  SlaveLists <- UpToTwo
SPECIFICATION Spec
INVARIANTS
  TypeOK
  DomainsAreShared
  MasterIsFastest
  EveryPdoIsCopied
\* The start ends.
CHECK_DEADLOCK FALSE
