SPECIFICATION Spec
CONSTANTS
  Codes = {k}
  NoCode = NoCode
  NoDoc = NoDoc
  NoRow = NoRow
  ValidDays = 1
  TrialDays = 1
  ReceiptEnd <- NoTime
  SignsStatus = TRUE
  Configs <- OnlyDiskless
  Calls = {"check"}
  ActCode = k
  ForeignDocs <- OneBadDoc
  NetFailures = {"Timeout"}
  Skew = 0
  Mishaps = {}
  MaxMishaps = 0
  MaxTime = 1
  MaxRows = 1
INVARIANTS
  CheckedStatusIsCurrent
