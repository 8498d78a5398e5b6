CONSTANTS
  Query = {a, b}
  Plain = {a}
  Spaced = {a}
  Short = {}
  Db = {d, log}
  Default = z
  LogDb = log
  LogCall = {"hot", "related"}
  Limits = {0, 2}
  DefaultLimit = 3
  MaxMatches = 4
  Refusals = TRUE
  MaxCalls = 5
SPECIFICATION Spec
INVARIANTS
  TypeOK
  SelectionKeptIfCurrent
  OpKept
  RelatedReadsNoNil
  CountOfLastSearch
  CountFreshIfBuilt
  LogMatches
