CONSTANTS
  Proc = {p, q}
  Closer = {p}
  BadDict = TRUE
  ChanCap = 1
  MaxHandles = 4
  None = None
SPECIFICATION FairSpec
INVARIANTS
  TypeOK
  NoDoubleFree
  NoUseAfterFree
  
PROPERTIES
  InitReturnsUnlessStuck
  ClosedIsFreedWhileOpen
\* The program may wait for ever on a channel that nobody serves any more.
CHECK_DEADLOCK FALSE
