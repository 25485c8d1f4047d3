SPECIFICATION FairSpec
CONSTANTS
  WORD = 64
  NumBars = 4
  NumHandles = 2
  Devices <- AllDevices
  Machines <- AllMachines
INVARIANTS TypeOK SizedOnlyWhileSilent AddressesRestored RespondingWhenPrinting ReportsTrue NothingMissed
PROPERTY ImplementsInventory ProbeEnds
