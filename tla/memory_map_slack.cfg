SPECIFICATION Spec
CONSTANTS
  MaxDescs = 6
  MaxChanges = 3
  Slack = 2
  None = None
INVARIANT SlackAbsorbsGrowth
