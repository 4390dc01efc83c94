CONSTANTS
  x = x
  y = y
  o1 = o1
  o2 = o2
  SmallInt = SmallInt
  None = None
  Unbound = Unbound
  Names <- OneName
  Objects <- TwoObjects
  TopReturn = FALSE
  MaxDepth = 3
  MaxLines = 2
SYMMETRY Symmetry
CHECK_DEADLOCK FALSE
SPECIFICATION TopLevelSpec
INVARIANT TypeOK
INVARIANT HolderHoldsReturnValue
INVARIANT CodeIsAlive
INVARIANT LinesAreExecuted
PROPERTY CreatedGlobalsSurvive
