CONSTANTS
  Proc = {p, q}
  Closer = {p}
  AsyncUser = {}
  Cached = {k}
  Call = {t}
  Stream = {s}
  Raw = {}
  TimeoutCmd = t
  Split = FALSE
  Faulty = TRUE
  MaxCmds = 2
  MaxItems = 1
  None = None
SPECIFICATION FairSpec
INVARIANTS
  OwnReplyIfPrivate
  NoStaleReply
  NoPanicForCloser
  InOrder
PROPERTIES
  ImplementsCommandLog
  CallsReturn
