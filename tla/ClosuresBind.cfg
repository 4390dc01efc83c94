CONSTANTS
  None = None
  v1 = v1
  v2 = v2
  Names <- AllNames
  Enumerate <- InThisOrder
  Decls <- Functions
  Name <- NamesOf
  Params <- ParamsOf
  Body <- Bodies
  Values <- TwoValues
  MaxClosures = 2
SYMMETRY ValuesAlike
SPECIFICATION Spec
INVARIANT BoundWhenCreated
