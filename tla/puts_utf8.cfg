SPECIFICATION Spec
CONSTANTS
  LIM = 6
  BITS = 16
  DEC = 4
  KILO = 8
  Numbers <- NoNumbers
  Strings <- SignWritingStrings
PROPERTY WellFormedAccepted
CHECK_DEADLOCK FALSE
