SPECIFICATION Spec
CONSTANTS
  Ctx = {c1, c2}
  None = None
INVARIANTS NoUseAfterFree AtMostOneLateCall
PROPERTIES StartedWorkerIsJoined ImplementsWorker
CHECK_DEADLOCK FALSE
