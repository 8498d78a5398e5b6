CONSTANTS
  Proc = {p, q}
  MaxParts = 2
  MaxDocs = 3
SPECIFICATION DocsSpec
INVARIANTS DocIntactIfAlone AcknowledgedStored
