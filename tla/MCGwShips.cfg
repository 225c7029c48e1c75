SPECIFICATION Spec
CONSTANTS
  TimoDefault = 4000
  TimoLong = 7000
  TimoSensor = 4050
  Wrap = 1000000
  XdrItem <- MCXdrItem
  XdrSettings <- MCXdr
  MaxUnknown = 3
  ConverterSettings <- MCSettings
  XdrRoom = 2
  MaxShips = 1
  LastIndex = 2
  MAXWAYPOINTS = 2
  Families <- MCShips
  Steps <- MCSteps
  Start = 1
  MaxMsgs = 4
  MaxTicks = 3
  Memory <- MCMemory
INVARIANTS ShipNames
CHECK_DEADLOCK FALSE
