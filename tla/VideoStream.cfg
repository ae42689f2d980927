SPECIFICATION Spec
CONSTANTS
  DataShards = 3
  ParityShards = 2
  SeqSpace = 28
  FirstSeq = 11
  MultiBlock = {2}
  Cooldown = 1
  DropLimit = 4
  TupleBound = 1
  Frames = 4
  Behind = 2
  Ahead = 4
  Bound = 1
  Modes <- PacketModes
  Refreshes = 1
  Corruptions = 1
INVARIANT BlockCountsAreSound
INVARIANT LossesAreNew
INVARIANT DecoderHasReferences
INVARIANT NoSilentWait
