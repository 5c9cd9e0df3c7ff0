CONSTANTS
  TopBit = 2
  BigEndian = FALSE
  MaxLabelSize = 3
  Pad = Pad
  a = a
  b = b
  Char <- MCChar
  Inputs <- MCFewInputs
SPECIFICATION Spec
INVARIANTS UnsortedRefused
CHECK_DEADLOCK FALSE
