SPECIFICATION Spec
CONSTANTS
  cached = cached
  plain = plain
  Threads <- BothThreads
  Cached <- OneCached
  Symbols = {easy_init, easy_reset}
  MaxSends <- SomeSends
  BodyCap = 1
  PartSizes = {1, 2}
  Statuses = {200, 407}
  Day = 1
INVARIANTS
  LibraryIsReadyWhenUsed
  OptionsAreOfThisRequest
  NothingIsLeftOpen
  AnswerIsWhole
PROPERTIES
  SendsReturn
CHECK_DEADLOCK FALSE
