SPECIFICATION Spec
CONSTANTS
  LIM = 6
  BITS = 16
  DEC = 4
  KILO = 8
  Numbers <- SomeNumbers
  Strings <- SomeStrings
INVARIANTS TypeOK BufferFits NeverPastNul BuffersWhole NumbersPrinted StringsRight
PROPERTY PrintsRight
CHECK_DEADLOCK FALSE
