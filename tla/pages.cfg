SPECIFICATION Spec
CONSTANTS
  ADDR = 32
  PAGE = 4
  MaxOwned = 2
  Memory <- SmallMemory
  Limits <- PageLimits
INVARIANTS TypeOK RangesExclusive NothingLeaks BelowLimit
