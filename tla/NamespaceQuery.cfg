SPECIFICATION Spec
CONSTANTS
  Version <- MCVersion
  Result <- MCResult
  Setting <- MCSetting
  Name = {"a", "b"}
  MaxRows = 3
INVARIANTS TypeOK ConnReturned LaterRowsComplete LagOfTheDialect
  SettingsConverted OtherAnswersDelivered
PROPERTY ImplementsQueryCall
CHECK_DEADLOCK FALSE
