SPECIFICATION Spec
CONSTANTS
  MaxSeq = 5
  Cap = 2
  Kinds = {"req", "stop", "ack", "bad", "nlerr", "silent"}
INVARIANTS AnswersInOrder OnlyStopEndsLoop NoAnswerBeforeAck
PROPERTIES QueuedIsOpened StopEndsLoop ImplementsServer
CHECK_DEADLOCK FALSE
