SPECIFICATION FairSpec
CONSTANTS
  Primaries = {p1, p2}
  Inputs = {}
  Streams = {s1, s2}
  MaxId = 1
  Cap = 2
  MaxWs = 2
  EmptyPollsBeforeStop = 1
  None = None
INVARIANT StopFollowsInit
PROPERTY HealthyPrimaryKept
PROPERTY NewerStreamSurvives
PROPERTY LifecycleReleased
PROPERTY EndedSessionIsReaped
CHECK_DEADLOCK FALSE
