SPECIFICATION Spec
CONSTANTS
  Codes = {k}
  NoCode = NoCode
  NoDoc = NoDoc
  NoRow = NoRow
  ValidDays = 1
  TrialDays = 1
  ReceiptEnd <- NoTime
  SignsStatus = TRUE
  Configs <- OnlyDesktop
  Calls = {"check", "activate"}
  ActCode = k
  ForeignDocs <- OneBadDoc
  NetFailures = {"Timeout"}
  Skew = 0
  Mishaps = {"vendor"}
  MaxMishaps = 1
  MaxTime = 1
  MaxRows = 2
INVARIANTS
  RecreatedRowIsPatched
