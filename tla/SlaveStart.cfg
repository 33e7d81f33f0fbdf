CONSTANTS
  SdoLists <- SomeSdo
  SoeLists <- SomeSoe
  DcForms <- SomeDc
  SmLists <- SomeSm
  ParamLists <- SomeParams
  PortForms <- SomePorts
  MaxItems = 2
  Widths = {1, 3}
  SignalTypes <- SomeTypes
  WriteReal = TRUE
SPECIFICATION StartSpec
INVARIANTS
  TypeOK
  EachBlockOnce
  PortsAreAsAnnounced
  ConfigurationArrives
  InputsAreTheirElements
  OutputsChangeTheirElements
\* The calls of a block come to an end.
CHECK_DEADLOCK FALSE
