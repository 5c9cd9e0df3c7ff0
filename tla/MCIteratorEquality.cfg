SPECIFICATION Spec
CONSTANTS
  Trie = {t1, t2, t3}
  Iterator = {i1, i2}
  Address = {x1, x2, x3}
  Content <- MCContent
  Subtrie <- MCNoSubtrie
  Null = Null
  Free = Free
  Gone = Gone
  Unspecified = Unspecified
  NoIterator = NoIterator
  Broken = Broken
  c1 = c1
  c2 = c2
  d1 = d1
SYMMETRY Symmetry
INVARIANT EqualMeansSame
