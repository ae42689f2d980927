SPECIFICATION LiveSpec
CONSTANTS
  WindowSize = 2
  Windows = 6
  FreeWindows = 3
  PerDatagram = 2
  Parts = 2
  FirstSeq = 9
  GroupWindow = 2
  Limits = {3}
  MaxTries = 2
  InFlight = 2
  Scenarios <- All
INVARIANT WindowsCountTheUnacked
PROPERTY LaterDisconnectFlushes
PROPERTY ImplementsChannel
PROPERTY RequestsEnd
CHECK_DEADLOCK FALSE
