------------------------------ MODULE HttpRetry ------------------------------
(***************************************************************************)
(* send_req (src/core/hlm_client.c): one request with its attempts and the *)
(* waits between them.  The transport port is called once per attempt; it  *)
(* returns an answer, possibly with a Retry-After, or a failure with its   *)
(* cause.  Times are in milliseconds.                                      *)
(***************************************************************************)
EXTENDS Integers

CONSTANTS
  Attempts,      \* HLM_HTTP_ATTEMPTS
  BackoffBase,   \* HLM_HTTP_BACKOFF_BASE_MS
  BackoffCap,    \* HLM_HTTP_BACKOFF_CAP_MS
  TotalCap,      \* HLM_HTTP_TOTAL_WAIT_CAP_MS
  WordSize,      \* 2^32: the waits are computed in unsigned int
  StatusCodes,   \* the HTTP statuses that may come back
  RetryAfters,   \* Retry-After values in seconds; -1: no such header
  Failures       \* causes the transport reports, "Unknown" among them

ASSUME RetryAssumption ==
  /\ Attempts \in Nat \ {0}
  /\ BackoffBase \in Nat
  /\ BackoffCap \in Nat
  /\ TotalCap \in Nat
  /\ WordSize \in Nat \ {0}
  /\ StatusCodes \subseteq Nat \ {0}
  /\ RetryAfters \subseteq Nat \cup {-1}
  /\ \A k \in 1 .. Attempts - 1 : BackoffBase * 2^(k - 1) \in 0 .. BackoffCap
  /\ "Unknown" \in Failures /\ "Proxy" \in Failures /\ "None" \notin Failures

VARIABLES
  pc,          \* "idle", "send" or "wait"
  attempt,
  waited,      \* total_wait_ms
  pause,       \* the wait before the next attempt
  result,      \* what send_req returned
  status,      \* *status_out: 0 until an answer is handed over
  net          \* last_net_failure

vars == <<pc, attempt, waited, pause, result, status, net>>

TypeOK ==
  /\ pc \in {"idle", "send", "wait"}
  /\ attempt \in 1 .. Attempts
  /\ waited \in Nat /\ pause \in Nat
  /\ result \in {"none", "OK", "E_AUTH", "E_HTTP"}
  /\ status \in StatusCodes \cup {0}
  /\ net \in Failures \cup {"None"}

IsTransient(s) == s \in {408, 429} \/ (s >= 500 /\ s \notin {501, 505})

Least(a, b) == IF a < b THEN a ELSE b

\* Mutant: Retry-After is obeyed whatever it says.
WaitAskedForever(ra) == (ra * 1000) % WordSize

(* The wait after a transient answer that asked for ra seconds (-1: it     *)
(* asked for none).                                                        *)
WaitAsked(ra) == Least((ra * 1000) % WordSize, BackoffCap)
Backoff       == BackoffBase * 2^(attempt - 1)
WaitAfter(ra) == IF ra >= 0 THEN WaitAsked(ra) ELSE Least(Backoff, BackoffCap)

(* backoff_wait: never more than what is left of the total.                *)
Wait(ms) ==
  LET granted == IF waited + ms > TotalCap THEN TotalCap - waited ELSE ms
  IN /\ pause' = granted
     /\ waited' = waited + granted
     /\ pc' = "wait"

Over(r, s) ==
  /\ pc' = "idle" /\ result' = r /\ status' = s
  /\ UNCHANGED <<attempt, waited, pause>>

GoesOn == UNCHANGED <<attempt, result, status>>

\* Mutant: an off-by-one in the count of attempts.
LastAttemptTooLate == attempt > Attempts

LastAttempt == attempt = Attempts

Begin ==
  /\ pc = "idle"
  /\ pc' = "send" /\ attempt' = 1 /\ waited' = 0 /\ pause' = 0
  /\ result' = "none" /\ status' = 0
  /\ UNCHANGED net

\* Mutant: the 407 leaves no cause behind.
ProxyRefusesUnnamed == pc = "send" /\ 407 \in StatusCodes /\ net' = "None" /\ Over("E_HTTP", 0)

(* 407: the network refused us, not the API.                               *)
ProxyRefuses ==
  /\ pc = "send" /\ 407 \in StatusCodes
  /\ net' = "Proxy" /\ Over("E_HTTP", 0)

KeyRefused ==
  /\ pc = "send" /\ StatusCodes \cap {401, 403} # {}
  /\ net' = "None" /\ Over("E_AUTH", 0)

Answered(s) ==
  /\ pc = "send" /\ s \notin {401, 403, 407}
  /\ ~IsTransient(s) \/ LastAttempt
  /\ net' = "None" /\ Over("OK", s)

TryAgainLater(s, ra) ==
  /\ pc = "send" /\ IsTransient(s) /\ ~LastAttempt
  /\ net' = "None" /\ Wait(WaitAfter(ra)) /\ GoesOn

(* The transport failed for cause f.                                       *)
Fails(f) ==
  /\ pc = "send"
  /\ net' = f
  /\ \/ LastAttempt /\ Over("E_HTTP", 0)
     \/ ~LastAttempt /\ Wait(Backoff) /\ GoesOn

\* Mutant: a retry is not counted as an attempt.
SleptUncounted ==
  /\ pc = "wait"
  /\ pc' = "send"
  /\ UNCHANGED <<attempt, waited, pause, result, status, net>>

(* The wait is over; the next attempt.                                     *)
Slept ==
  /\ pc = "wait"
  /\ pc' = "send" /\ attempt' = attempt + 1
  /\ UNCHANGED <<waited, pause, result, status, net>>

Init ==
  /\ pc = "idle" /\ attempt = 1 /\ waited = 0 /\ pause = 0
  /\ result = "none" /\ status = 0 /\ net = "None"

Sends == \/ ProxyRefuses \/ KeyRefused
         \/ \E s \in StatusCodes : Answered(s)
         \/ \E s \in StatusCodes, ra \in RetryAfters : TryAgainLater(s, ra)
         \/ \E f \in Failures : Fails(f)

Next == Begin \/ Sends \/ Slept

(* Every call of the transport returns, and so does every sleep.           *)
Spec == Init /\ [][Next]_vars /\ WF_vars(Sends) /\ WF_vars(Slept)
------------------------------------------------------------------------------
(* Waiting between the attempts of one request takes at most TotalCap in   *)
(* all and BackoffCap at a time, although the wait after a transport       *)
(* failure is not capped itself and the one the server asks for may        *)
(* overflow (backoff_wait).                                                *)
WaitIsBounded ==
  /\ waited <= TotalCap
  /\ pause <= BackoffCap

(* Whatever happens between the attempts, the rest of the client sees one  *)
(* request: an answer or a refused key without a network diagnosis, or no  *)
(* answer with one.                                                        *)
Single == INSTANCE Request WITH
  Causes  <- Failures,
  NoCause <- "None",
  open    <- pc # "idle",
  outcome <- result,
  cause   <- IF pc = "idle" THEN net ELSE "None"
KeepsThePromise == Single!RequestSpec

(* Every request ends.                                                     *)
RequestsEnd == pc # "idle" ~> pc = "idle"
==============================================================================
