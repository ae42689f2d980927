SPECIFICATION FairSpec
CONSTANTS
  Phones = {a}
  PadHolders = {a}
  RelayOnly = TRUE
  None = None
INVARIANT ExitIsReported
PROPERTY LoopComesBack
PROPERTY EndIsReported
CHECK_DEADLOCK FALSE
