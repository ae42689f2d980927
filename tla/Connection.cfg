SPECIFICATION Spec
CONSTANTS
  Scenarios <- MCScenarios
  RfiBound = 1
  AsyncBound = 2
INVARIANT NothingOutlivesWhatItUses
INVARIANT MessagesOutliveDisconnect
INVARIANT CallbacksSettle
PROPERTY CallsReturn
PROPERTY TerminationIsHeard
