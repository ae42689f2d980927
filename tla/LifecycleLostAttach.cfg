SPECIFICATION Spec
CONSTANTS
  Primaries = {p1}
  Inputs = {i1}
  Streams = {s1}
  MaxId = 2
  Cap = 2
  MaxWs = 0
  EmptyPollsBeforeStop = 1
  None = None
INVARIANT FirstMessageIsInit
SYMMETRY Symm
CHECK_DEADLOCK FALSE
