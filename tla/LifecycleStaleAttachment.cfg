SPECIFICATION FairSpec
CONSTANTS
  Primaries = {p1}
  Inputs = {i1}
  Streams = {s1, s2}
  MaxId = 2
  Cap = 2
  MaxWs = 0
  EmptyPollsBeforeStop = 1
  None = None
PROPERTY EndedStreamIsLeft
CHECK_DEADLOCK FALSE
