SPECIFICATION FairSpec
CONSTANTS
  Phones = {}
  PadHolders = {}
  RelayOnly = TRUE
  None = None
PROPERTY TerminationNoticed
CHECK_DEADLOCK FALSE
