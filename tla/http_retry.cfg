SPECIFICATION Spec
CONSTANTS
  Attempts = 3
  BackoffBase = 200
  BackoffCap = 5000
  TotalCap = 10000
  WordSize = 65536
  StatusCodes <- SomeStatuses
  RetryAfters <- SomeRetryAfters
  Failures = {"Unknown", "Proxy", "Timeout"}
INVARIANTS
  WaitIsBounded
PROPERTIES
  KeepsThePromise
  RequestsEnd
