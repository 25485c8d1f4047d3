SPECIFICATION FairSpec
CONSTANTS
  MaxDescs = 6
  MaxChanges = 3
  Slack = 2
  None = None
INVARIANTS TypeOK NoBufferLost MapMatchesData OutputsOnlyOnDelivery
PROPERTY CallReturns
