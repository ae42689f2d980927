SPECIFICATION SenderFairSpec
CONSTANTS
  MaxSize = 2
  MaxFrame = 2
  ChannelSize = 1
  QueueMax = 3
  Rate = 1
  Burst = 2
  MaxWait = 4
  MaxBacklog = 3
INVARIANT PacedBound
PROPERTY IdrIsAsked
PROPERTY CallbackReturns
