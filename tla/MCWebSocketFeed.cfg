CONSTANTS
  s1 = s1
  s2 = s2
  s3 = s3
  NoSocket = NoSocket
  Sockets <- MCSockets
  Limits <- MCLimits
  AttemptsBound = 2
SPECIFICATION FairFeedSpec
INVARIANTS
  FeedTypeOK
  OneLiveSocket
  StatusTruthful
PROPERTIES
  StaysConnected
