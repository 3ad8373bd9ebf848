----------------------------- MODULE MCHttpRetry -----------------------------
(***************************************************************************)
(* The retry policy with the library's own constants.  WordSize is scaled  *)
(* down to 2^16 so that a Retry-After that overflows fits TLC's integers:  *)
(* 70 seconds wrap around to 4464 ms, 131 to 65464 ms.                     *)
(***************************************************************************)
EXTENDS HttpRetry

SomeStatuses == {200, 401, 404, 407, 408, 429, 500, 501}
SomeRetryAfters == {-1, 0, 1, 4, 70, 131}
==============================================================================
