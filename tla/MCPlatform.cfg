SPECIFICATION Spec
CONSTANTS
  NameWidths = {1, 14}
  ValueWidths = {1, 9}
  MaxRows = 2
  PageSize = 2
  MaxEvents = 4
  MaxFaults = 1
  Users = {u1, u2}
  SuspensionIds = {"userPause"}
  HandWritten <- MCHandWritten
  MaxOperations = 3
INVARIANTS
  PlatformTypeOK
  ParsedIsSent
  TableAligned
  JsonKeepsColumns
  PrintedInOrder
  EndsComplete
  SuspensionsSurvive
  EditsAllKept
  HardBlockersStop
PROPERTIES CommandReturns ImplementsAtomic
CHECK_DEADLOCK FALSE
