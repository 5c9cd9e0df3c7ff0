CONSTANTS
  TopBit = 2
  BigEndian = FALSE
  MaxLabelSize = 3
  Pad = Pad
  a = a
  b = b
  Char <- MCChar
  NegativeChar = {}
  Inputs <- MCInputs
  Queries <- MCQueries
SPECIFICATION TrieSpec
INVARIANTS ReaderTypeOK MismatchIsLongest LeafIsFound
PROPERTIES CompletesAll CallReturns IncrementReturns
CHECK_DEADLOCK FALSE
