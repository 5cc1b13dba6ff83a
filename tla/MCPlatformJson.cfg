SPECIFICATION Spec
CONSTANTS
  NameWidths = {1}
  ValueWidths = {1}
  MaxRows = 1
  PageSize = 2
  MaxEvents = 0
  MaxFaults = 0
  Users = {u1}
  SuspensionIds = {"userPause"}
  HandWritten <- MCHandWritten
  MaxOperations = 0
INVARIANT ValuesNamedByAlias
CHECK_DEADLOCK FALSE
