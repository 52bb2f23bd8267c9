SPECIFICATION Spec
CONSTANTS
  Ctx = {c1, c2}
  None = None
  Garbage = {"OK", "ERR"}
PROPERTY ResetStopsLoop
CHECK_DEADLOCK FALSE
