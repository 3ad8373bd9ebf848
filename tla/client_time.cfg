SPECIFICATION Spec
CONSTANTS
  Codes = {k}
  NoCode = NoCode
  NoDoc = NoDoc
  NoRow = NoRow
  ValidDays = 1
  TrialDays = 1
  ReceiptEnd <- NoTime
  SignsStatus = TRUE
  Configs <- AllConfigs
  Calls = {"check", "refresh"}
  ActCode = k
  ForeignDocs <- OneBadDoc
  NetFailures = {"Timeout"}
  Skew = 1
  Mishaps = {"file", "crash"}
  MaxMishaps = 2
  MaxTime = 2
  MaxRows = 1
INVARIANTS
  OnlyVerifiedHeld
  FloorIsSound
PROPERTIES
  NoResurrection
  OfflineSurfacesTheLicense
  OnlyAReportPartsThem
  HoldsLikeAHolder
