SPECIFICATION AgentSpec
CONSTANTS
  Ctx = {c1, c2}
  None = None
  Garbage = {"OK", "ERR"}
  MaxEvents = 2
  Sai = Sai
INVARIANTS AgentTypeOK KeepaliveUsable AcknowledgedResetIsDone SocketOutlivesUsers NothingAfterResetAck ExitIsClean
PROPERTIES KeepaliveInitSuffices HangIsFinal KeepalivesAreWorkers LostRunsOn AckedResetEndsProcess StartedResetEndsProcess
CHECK_DEADLOCK FALSE
