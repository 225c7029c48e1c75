SPECIFICATION Spec
CONSTANTS
  TimoDefault = 4000
  TimoLong = 7000
  TimoSensor = 4050
  Wrap = 1000000
  XdrItem <- MCXdrItem
  XdrSettings <- MCXdr
  MaxUnknown = 3
  ConverterSettings <- MCSettings
  XdrRoom = 2
  MaxShips = 4
  LastIndex = 255
  MAXWAYPOINTS = 2
  Families <- MCFamilies
  Steps <- MCSteps
  Start = 1
  MaxMsgs = 4
  MaxTicks = 3
  Memory <- MCMemory
INVARIANTS TypeOK NoStaleValues WaypointIds AisMessagesWhole OwnRmcWaits
PROPERTIES LowerIdsWin XdrLinesComplete Throttled 
CHECK_DEADLOCK FALSE
