SPECIFICATION FairSpec
CONSTANTS
  NumHandles = 2
  Adapters <- SomeAdapters
  AREA = 1024
  LINE = 32
  None = None
  Requests = {"highest_resolution", "unknown"}
INVARIANTS TypeOK AdapterPreferred HighestModeChosen ScreenInfoTrue NothingLeaks FillStaysInside
PROPERTY SetupReturns
