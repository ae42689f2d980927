SPECIFICATION Spec
CONSTANTS
  A = A
  B = B
  Callers <- MCCallers
  Scenarios <- PenScenario
  QueueBound = 2
  Int16Max = 1
  WheelDelta = 2
  MaxGamepads = 2
  GfeGamepads = 1
  MaxInTransit = 2
INVARIANT PenButtonsAreReliable
