SPECIFICATION FairSpec
CONSTANTS
  Min = 1
  Max = 60
  MaxQueue = 3
  MaxTries = 9
INVARIANTS
  RetryNeverLost
  BackoffLaw
  OneHurriedRetry
PROPERTY
  Reconnects
