SPECIFICATION FairSpec
CONSTANTS
  Primaries = {p1, p2, p3}
  Inputs = {}
  Streams = {s1}
  MaxId = 1
  Cap = 2
  MaxWs = 2
  EmptyPollsBeforeStop = 1
  None = None
PROPERTY LifecycleReleased
CHECK_DEADLOCK FALSE
