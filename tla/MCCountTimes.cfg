CONSTANTS
  TopBit = 2
  BigEndian = FALSE
  MaxLabelSize = 3
  Pad = Pad
  a = a
  b = b
  Char <- MCChar
  NegativeChar = {}
  Inputs <- MCInputs
  Queries <- MCQueries
SPECIFICATION TrieSpec
INVARIANTS CountsOccurrences
CHECK_DEADLOCK FALSE
