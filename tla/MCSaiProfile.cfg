SPECIFICATION Spec
CONSTANTS
  Name = {n1, n2}
  Value = {a, b}
  Bad = Bad
  None = None
  End = End
  MaxLines = 3
  MaxOpts = 2
INVARIANTS AllOrNothing LookupIsLastDefinition
PROPERTIES ImplementsEnumeration
CHECK_DEADLOCK FALSE
