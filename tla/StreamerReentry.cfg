SPECIFICATION Spec
CONSTANTS
  Phones = {a}
  PadHolders = {}
  RelayOnly = FALSE
  None = None
INVARIANT NeverReentered
CHECK_DEADLOCK FALSE
