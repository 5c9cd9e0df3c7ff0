CONSTANTS
  TopBit = 2
  BigEndian = FALSE
  MaxLabelSize = 3
  Pad = Pad
  a = a
  b = b
  Char <- MCChar
  Inputs <- MCInputs
SPECIFICATION Spec
INVARIANTS TypeOK Spine OnlySizesThrow RankIsLeast Compact SiblingsDiffer
PROPERTIES Implements
CHECK_DEADLOCK FALSE
