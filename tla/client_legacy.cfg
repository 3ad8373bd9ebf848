SPECIFICATION FairSpec
CONSTANTS
  Codes = {k}
  NoCode = NoCode
  NoDoc = NoDoc
  NoRow = NoRow
  ValidDays = 2
  TrialDays = 1
  ReceiptEnd = 1
  SignsStatus = FALSE
  Configs <- OnlyDesktop
  Calls = {"activate"}
  ActCode = k
  ForeignDocs <- OneBadDoc
  NetFailures = {"Timeout"}
  Skew = 0
  Mishaps = {"vendor"}
  MaxMishaps = 1
  MaxTime = 1
  MaxRows = 2
INVARIANTS
  VerdictOnlyWorsens
PROPERTIES
  CallsReturn
