CONSTANTS
  None = None
  dm = dm
  dk = dk
  m = m
  k1 = k1
  k2 = k2
  Decls <- TwoDecls
  Methods <- OneMethod
  Closures <- TwoClosures
  DeclOf <- DeclOfTwo
  CompileThreshold = 2
  MaxDepth = 3
  MaxVersions = 2
SPECIFICATION Spec
INVARIANT TypeOK
INVARIANT OwnerIsInnermost
INVARIANT TopLevelHasNoOwner
PROPERTY CompilesOnlyOnRequest
CHECK_DEADLOCK FALSE
