SPECIFICATION Spec
CONSTANTS
  Val = {a, b}
  None = None
  Size = 20
  Sizes = {2, 4, 8}
  Wrap = 64
INVARIANTS ReadIsWritten
PROPERTIES ImplementsStream
CHECK_DEADLOCK FALSE
