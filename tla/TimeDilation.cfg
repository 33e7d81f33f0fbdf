CONSTANTS
  Models <- DilatedModels
  Types <- SomeTypes
  Descriptions <- SomeDescriptions
  Prefix = "Parameters"
SPECIFICATION Spec
INVARIANTS
  NoOtherTimings
\* The registration ends.
CHECK_DEADLOCK FALSE
