SPECIFICATION Spec
CONSTANTS
  Ctx = {c1, c2}
  None = None
  Garbage = {"OK", "ERR"}
INVARIANT InfoMeansInitialised
CHECK_DEADLOCK FALSE
