CONSTANTS
  LowerCase <- MCLowerCase
  Long = {"long"}
  Fields = 3
  Def <- MCDef
  Form = {"host:port"}
  Byte = 4
  Id <- MCId
  Text <- MCText
  MaxOps = 3
SPECIFICATION ProjectSpec
INVARIANTS
  NumbersAgree
  ReadsWhatWasWritten
  FindsWhatWasWritten
  OnePerId
