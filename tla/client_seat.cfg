SPECIFICATION Spec
CONSTANTS
  Codes = {k}
  NoCode = NoCode
  NoDoc = NoDoc
  NoRow = NoRow
  ValidDays = 1
  TrialDays = 1
  ReceiptEnd <- NoTime
  SignsStatus = TRUE
  Configs <- OnlyDesktop
  Calls = {"check", "activate", "deactivate"}
  ActCode = k
  ForeignDocs <- OneBadDoc
  NetFailures = {"Timeout"}
  Skew = 0
  Mishaps = {"vendor", "file", "crash"}
  MaxMishaps = 2
  MaxTime = 1
  MaxRows = 2
INVARIANTS
  TypeOK
  FreedSeatStaysFreed
  NetworkDiagnosisIsCurrent
PROPERTIES
  SuccessIsFreshAndSaved
  SuccessMovesTheSeat
  SuccessMatchesTheServer
  OnlyVerifiedSaved
