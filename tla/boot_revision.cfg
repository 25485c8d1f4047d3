SPECIFICATION Spec
CONSTANTS
  NumHandles = 1
  Adapters <- SomeAdapters
  AREA = 1024
  LINE = 32
  Requests = {"highest_resolution"}
  None = None
  Tables <- SomeTables
  Consoles <- SomeConsoles
  LASTMODE = 5
INVARIANT RevisionTrue
