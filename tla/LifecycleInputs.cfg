SPECIFICATION FairSpec
CONSTANTS
  Primaries = {}
  Inputs = {i1, i2}
  Streams = {s1}
  MaxId = 1
  Cap = 2
  MaxWs = 0
  EmptyPollsBeforeStop = 3
  None = None
PROPERTY IdlePlaceholderEnds
CHECK_DEADLOCK FALSE
