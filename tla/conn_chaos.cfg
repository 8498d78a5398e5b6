CONSTANTS
  Proc = {p, q}
  Closer = {p}
  AsyncUser = {q}
  Cached = {k}
  Call = {t}
  Stream = {s}
  Raw = {t}
  TimeoutCmd = t
  Split = TRUE
  Faulty = FALSE
  MaxCmds = 2
  MaxItems = 0
  None = None
SPECIFICATION Spec
INVARIANTS TypeOK AtMostOnce
\* AsyncExec blocks its caller for ever
CHECK_DEADLOCK FALSE
