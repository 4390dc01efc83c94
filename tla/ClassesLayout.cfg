CONSTANTS
  None = None
  ClassDecls <- Family
  Names <- AllNames
  NameOf <- NamesOf
  SuperOf <- Parents
  IVarsOf <- Variables
  Uses <- OwnVariables
  MaxClasses = 3
  MaxObjects = 3
SPECIFICATION Spec
INVARIANT TypeOK
INVARIANT TiersFindTheSameSlot
PROPERTY LookupIsStable
CHECK_DEADLOCK FALSE
