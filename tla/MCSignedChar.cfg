CONSTANTS
  TopBit = 2
  BigEndian = FALSE
  MaxLabelSize = 3
  Pad = Pad
  a = a
  b = b
  Char <- MCChar
  NegativeChar = {b}
  Inputs <- MCInputs
  Queries <- MCQueries
SPECIFICATION TrieSpec
INVARIANTS MismatchIsLongest
CHECK_DEADLOCK FALSE
