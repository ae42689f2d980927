SPECIFICATION Spec
CONSTANTS
  DataShards = 2
  FecShards = 1
  SeqSpace = 32
  First = {29}
  LastPacket = 34
  Behind = 1
  Ahead = 3
  LateAfter = 5
  Sizes = {1}
  Bound = 1
  DropFirst = 1
INVARIANT BlocksAreConsistent
INVARIANT NoSampleAfterCleanup
PROPERTY PlaysInOrder
PROPERTY StopReturns
