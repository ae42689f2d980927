SPECIFICATION Spec
CONSTANTS
  DataShards = 1
  ParityShards = 0
  SeqSpace = 28
  FirstSeq = 11
  MultiBlock = {}
  Cooldown = 1
  DropLimit = 4
  TupleBound = 1
  Frames = 7
  Behind = 0
  Ahead = 2
  Bound = 2
  Modes <- AllModes
  Refreshes = 1
  Corruptions = 0
INVARIANT DecoderHasReferences
