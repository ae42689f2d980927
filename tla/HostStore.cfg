SPECIFICATION FairSpec
CONSTANTS
  Requests = {r1, r2, r3}
  LastSlot = 1
  Loaded = Loaded
  Saver = Saver
  None = None
INVARIANT NothingUnsaved
PROPERTY RequestsEnd
CHECK_DEADLOCK FALSE
