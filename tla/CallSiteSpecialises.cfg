CONSTANTS
  None = None
  A = A
  B = B
  AChild = AChild
  SmallInt = SmallInt
  mA = mA
  mB = mB
  mInt = mInt
  SmallIntClass = SmallInt
  Methods <- AllMethods
  Classes <- AllClasses
  Lookup <- LookupAll
  CompileThreshold = 3
  RECOMPILE_THRESHOLD = 2
  ForceCompiler = FALSE
  CallOnEveryPath = TRUE
SPECIFICATION FairSpec
INVARIANT TypeOK
INVARIANT CompiledCodeIsCurrent
PROPERTY SwitchNeedsContiguousRun
PROPERTY Specialises
CHECK_DEADLOCK FALSE
