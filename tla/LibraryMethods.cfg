CONSTANTS
  None = None
  Unknown = Unknown
  o1 = o1
  o2 = o2
  f1 = f1
  f2 = f2
  p1 = p1
  p2 = p2
  Indices <- SmallIndices
  Elements <- TwoObjects
  FileObjects <- TwoFiles
  Paths <- TwoPaths
  NotAString = NotAString
  Terminal = Terminal
  NoFile = NoFile
  MaxFd = 4
  Literals <- FewLiterals
  MaxLength = 3
  StaticSelectorNames <- TwoStaticNames
  MethodNames <- SomeNames
  SignBit = 128
  Operands <- SomeWords
  MaxInUse = 2
SYMMETRY Alike
SPECIFICATION LibrarySpec
INVARIANT TypeOK
INVARIANT ReadsLastWrite
INVARIANT LengthCoversStored
INVARIANT OwnsItsDescriptor
INVARIANT TransfersReachOwnFile
INVARIANT DescriptorsAccounted
INVARIANT CompareIsLexicographic
INVARIANT PrefixKeepsOrder
INVARIANT SelectorsNameMethods
INVARIANT TiersAgree
INVARIANT ExactWithinTheWord
