CONSTANTS
  Percent = {50, 120}
  Weight = {0, 300}
  Scale = {100, 300}
  Policy = {0, 1, 2, 3}
  Query <- MCQuery
  Meta <- MCMeta
  Vno = {9, 255}
  VnoMap <- MCVnoMap
  Word <- MCWord
  MaxDocs = 2
  MaxValues = 2
  MaxMore = 1
  MaxCalls = 3
SPECIFICATION Spec
INVARIANTS
  DocumentsAsSent
  InStep
  SettingsInForce
