CONSTANTS
  None = None
  Garbage = Garbage
  f = f
  g = g
  rax = rax
  rcx = rcx
  Decls <- Functions
  Register <- Registers
  Body <- PlainBodies
  NestedExits = TRUE
  MaxDepth = 3
SPECIFICATION Spec
INVARIANT ContextIsClean
