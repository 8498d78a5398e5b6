CONSTANTS
  HeadLen = 2
  BodyLen = {0, 1}
  BufSize = 4
  Window = 4
  MaxMsgs = 2
  MaxCalls = 2
SPECIFICATION Spec
INVARIANT FailsOnlyAtEof
