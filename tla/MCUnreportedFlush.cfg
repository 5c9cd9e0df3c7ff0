SPECIFICATION Spec
CONSTANTS
  Program = {p1, p2}
  Kinds <- MCOneKind
  Built <- MCBuilt
  Storable <- MCBuilt
  Radix = 7
  Cuts <- MCCuts
  NoFile = NoFile
  NoTrie = NoTrie
  Nothing = Nothing
  Anything = Anything
  p1 = p1
  p2 = p2
PROPERTY SuccessIsStored
