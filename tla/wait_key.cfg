SPECIFICATION FairSpec
CONSTANTS
  MaxKeys = 3
  MaxCalls = 3
INVARIANTS TypeOK NoKeyLost EventsClosed TimeoutHonest
PROPERTY CallReturns
CHECK_DEADLOCK FALSE
