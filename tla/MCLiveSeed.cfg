SPECIFICATION LDSpec
CONSTANTS
  Conn = {c1}
  Page = {p1}
  MaxVersion = 1
  MaxBreaks = 0
  Buffer = 1
  Wire = 1
PROPERTIES
  SeededThenFresh
