SPECIFICATION Spec
CONSTANTS
  Version <- MCVersion
  Result <- MCResult
  Setting <- MCSetting
  Name = {"a", "b"}
  MaxRows = 2
INVARIANT EveryRowEmitted
CHECK_DEADLOCK FALSE
