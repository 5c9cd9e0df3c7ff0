CONSTANTS
  TopBit = 4
  BigEndian = FALSE
  LabelRange = 4
  Ranks <- MCRanks
  Offsets <- MCOffsets
  Labels <- MCLabels
  MaxItems = 2
SPECIFICATION Spec
INVARIANTS TypeOK RoundTrip Aligned
CHECK_DEADLOCK FALSE
