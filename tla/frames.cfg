CONSTANTS
  HeadLen = 2
  BodyLen = {0, 1, 3}
  BufSize = 3
  Window = 6
  MaxMsgs = 2
  MaxCalls = 3
SPECIFICATION FairSpec
INVARIANTS
  GenuineUnlessCut
PROPERTIES
  ImplementsReplyStream
  Delivered
