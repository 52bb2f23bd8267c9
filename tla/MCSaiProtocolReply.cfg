SPECIFICATION Spec
CONSTANTS
  BufWords = 37
  Lengths = {0, 1, 2, 4, 36, 37}
  MaxReq = 3
INVARIANT ReplyHasResponseSize
CHECK_DEADLOCK FALSE
