SPECIFICATION Spec
CONSTANTS
  DataShards = 2
  ParityShards = 1
  SeqSpace = 24
  FirstSeq = 0
  MultiBlock = {}
  Cooldown = 1
  DropLimit = 4
  TupleBound = 1
  Frames = 4
  Behind = 0
  Ahead = 2
  Bound = 2
  Modes <- AllModes
  Refreshes = 1
  Corruptions = 0
INVARIANT RefreshedByIdrFrame
