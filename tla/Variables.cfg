CONSTANTS
  Models <- AllModels
  Types <- SomeTypes
  Descriptions <- SomeDescriptions
  Prefix = "Parameters"
SPECIFICATION Spec
INVARIANTS
  TypeOK
  VariablesAreTheirMemory
  EachHasItsPath
  SignalsAreOfTheirTask
\* The registration ends.
CHECK_DEADLOCK FALSE
