CONSTANTS
  None = None
  Garbage = Garbage
  f = f
  g = g
  rax = rax
  rcx = rcx
  Decls <- Functions
  Register <- Registers
  Body <- ReturningBodies
  NestedExits = FALSE
  MaxDepth = 3
SPECIFICATION Spec
INVARIANT TypeOK
PROPERTY ImplementsActivations
