CONSTANTS
  Db = {d}
  CmdSize = {1, 2, 4}
  BufferSize = 3
  MaxCmds = 4
  MaxSynonyms = 2
SPECIFICATION Spec
INVARIANTS TypeOK LossIsReported AtMostOnce SynonymsInOrder
