--------------------------- MODULE HttpRetryProofs ---------------------------
(***************************************************************************)
(* Proofs about HttpRetry, for every number of attempts, every cap, every  *)
(* word size and every set of answers, Retry-After values and failures.    *)
(***************************************************************************)
EXTENDS HttpRetry, TLAPS

(* While a wait is under way an attempt is left, and the waits granted so  *)
(* far are within the caps.                                                *)
RetryInv ==
  /\ TypeOK
  /\ WaitIsBounded
  /\ pc = "wait" => attempt < Attempts

(* What the server asked for is cut to a pause within the cap, overflow or *)
(* not.                                                                    *)
LEMMA WaitAskedBounded ==
  ASSUME NEW ra \in RetryAfters, ra >= 0
  PROVE  WaitAsked(ra) \in 0 .. BackoffCap
<1>1. ra * 1000 \in Nat
  BY RetryAssumption
<1>2. (ra * 1000) % WordSize \in Nat
  BY <1>1, RetryAssumption
<1>. QED
  BY <1>2, RetryAssumption DEF WaitAsked, Least

(* The pause after a transport failure needs no cap of its own.            *)
LEMMA BackoffBounded ==
  ASSUME TypeOK, ~LastAttempt
  PROVE  Backoff \in 0 .. BackoffCap
<1>1. attempt \in 1 .. Attempts - 1
  BY RetryAssumption DEF TypeOK, LastAttempt
<1>. QED
  BY <1>1, RetryAssumption DEF Backoff

LEMMA WaitAfterBounded ==
  ASSUME TypeOK, ~LastAttempt, NEW ra \in RetryAfters
  PROVE  WaitAfter(ra) \in 0 .. BackoffCap
<1>1. CASE ra >= 0
  BY <1>1, WaitAskedBounded DEF WaitAfter
<1>2. CASE ~(ra >= 0)
  BY <1>2, BackoffBounded, RetryAssumption DEF WaitAfter, Least
<1>. QED
  BY <1>1, <1>2

(* backoff_wait keeps the total and the pause within their caps.           *)
LEMMA WaitBounded ==
  ASSUME TypeOK, WaitIsBounded, NEW ms \in 0 .. BackoffCap, Wait(ms)
  PROVE  /\ pc' = "wait"
         /\ waited' \in 0 .. TotalCap
         /\ pause' \in 0 .. BackoffCap
<1>. DEFINE granted == IF waited + ms > TotalCap THEN TotalCap - waited ELSE ms
<1>1. pause' = granted /\ waited' = waited + granted /\ pc' = "wait"
  BY DEF Wait
<1>. QED
  BY <1>1, RetryAssumption DEF TypeOK, WaitIsBounded

LEMMA RetryInit == Init => RetryInv
  BY RetryAssumption DEF Init, RetryInv, TypeOK, WaitIsBounded

(* Over hands the result over and leaves the counters.                     *)
LEMMA OverKeepsInv ==
  ASSUME RetryInv, NEW r \in {"OK", "E_AUTH", "E_HTTP"}, NEW s \in StatusCodes \cup {0},
         Over(r, s), net' \in Failures \cup {"None"}
  PROVE  RetryInv'
  BY DEF RetryInv, Over, TypeOK, WaitIsBounded

LEMMA WaitKeepsInv ==
  ASSUME RetryInv, ~LastAttempt, NEW ms \in 0 .. BackoffCap, Wait(ms), GoesOn,
         net' \in Failures \cup {"None"}
  PROVE  RetryInv'
<1>1. pc' = "wait" /\ waited' \in 0 .. TotalCap /\ pause' \in 0 .. BackoffCap
  BY WaitBounded DEF RetryInv
<1>2. attempt' < Attempts
  BY RetryAssumption DEF RetryInv, TypeOK, GoesOn, LastAttempt
<1>. QED
  BY <1>1, <1>2, RetryAssumption DEF RetryInv, TypeOK, WaitIsBounded, GoesOn

LEMMA RetryStep == RetryInv /\ [Next]_vars => RetryInv'
<1>. SUFFICES ASSUME RetryInv, [Next]_vars PROVE RetryInv'
  OBVIOUS
<1>1. CASE Begin
  BY <1>1, RetryAssumption DEF RetryInv, TypeOK, WaitIsBounded, Begin
<1>2. CASE ProxyRefuses
  BY <1>2, OverKeepsInv, RetryAssumption DEF ProxyRefuses
<1>3. CASE KeyRefused
  BY <1>3, OverKeepsInv DEF KeyRefused
<1>4. ASSUME NEW s \in StatusCodes, Answered(s) PROVE RetryInv'
  BY <1>4, OverKeepsInv DEF Answered
<1>5. ASSUME NEW s \in StatusCodes, NEW ra \in RetryAfters, TryAgainLater(s, ra)
      PROVE  RetryInv'
  <2>1. WaitAfter(ra) \in 0 .. BackoffCap
    BY <1>5, WaitAfterBounded DEF TryAgainLater, RetryInv
  <2>. QED
    BY <1>5, <2>1, WaitKeepsInv DEF TryAgainLater
<1>6. ASSUME NEW f \in Failures, Fails(f) PROVE RetryInv'
  <2>1. CASE LastAttempt
    BY <1>6, <2>1, OverKeepsInv DEF Fails
  <2>2. CASE ~LastAttempt
    <3>1. Backoff \in 0 .. BackoffCap
      BY <2>2, BackoffBounded DEF RetryInv
    <3>. QED
      BY <1>6, <2>2, <3>1, WaitKeepsInv DEF Fails
  <2>. QED
    BY <2>1, <2>2
<1>7. CASE Slept
  BY <1>7, RetryAssumption DEF RetryInv, TypeOK, WaitIsBounded, Slept
<1>8. CASE UNCHANGED vars
  BY <1>8 DEF RetryInv, TypeOK, WaitIsBounded, vars
<1>. QED
  BY <1>1, <1>2, <1>3, <1>4, <1>5, <1>6, <1>7, <1>8 DEF Next, Sends

THEOREM RetryInvariant == Spec => []RetryInv
  BY RetryInit, RetryStep, PTL DEF Spec

(* Every variable of send_req keeps to its type; in particular no attempt  *)
(* is made beyond the last.                                                *)
THEOREM RetryTypeCorrect == Spec => []TypeOK
<1>1. RetryInv => TypeOK
  BY DEF RetryInv
<1>. QED
  BY <1>1, RetryInvariant, PTL

(* One request waits at most TotalCap in all and BackoffCap at a time.     *)
THEOREM RetryWaitIsBounded == Spec => []WaitIsBounded
<1>1. RetryInv => WaitIsBounded
  BY DEF RetryInv
<1>. QED
  BY <1>1, RetryInvariant, PTL

(* send_req implements the single request LicenseClient takes it to be.    *)
THEOREM RetryKeepsThePromise == Spec => KeepsThePromise
<1>1. Init => Single!RequestInit
  BY DEF Init, Single!RequestInit
<1>2. RetryInv /\ [Next]_vars => [Single!Start \/ Single!Finish]_(Single!requestVars)
  <2>. SUFFICES ASSUME RetryInv, [Next]_vars
                PROVE  [Single!Start \/ Single!Finish]_(Single!requestVars)
    OBVIOUS
  <2>. USE DEF Single!requestVars, Single!Start, Single!Finish, Single!Answered,
               Single!KeyRefused, Single!NoAnswer
  <2>1. CASE Begin
    BY <2>1 DEF Begin
  <2>2. CASE ProxyRefuses
    BY <2>2, RetryAssumption DEF ProxyRefuses, Over
  <2>3. CASE KeyRefused
    BY <2>3 DEF KeyRefused, Over
  <2>4. ASSUME NEW s \in StatusCodes, Answered(s)
        PROVE  [Single!Start \/ Single!Finish]_(Single!requestVars)
    BY <2>4 DEF Answered, Over
  <2>5. ASSUME NEW s \in StatusCodes, NEW ra \in RetryAfters, TryAgainLater(s, ra)
        PROVE  [Single!Start \/ Single!Finish]_(Single!requestVars)
    BY <2>5 DEF TryAgainLater, Wait, GoesOn
  <2>6. ASSUME NEW f \in Failures, Fails(f)
        PROVE  [Single!Start \/ Single!Finish]_(Single!requestVars)
    BY <2>6 DEF Fails, Over, Wait, GoesOn
  <2>7. CASE Slept
    BY <2>7 DEF Slept
  <2>8. CASE UNCHANGED vars
    BY <2>8 DEF vars
  <2>. QED
    BY <2>1, <2>2, <2>3, <2>4, <2>5, <2>6, <2>7, <2>8 DEF Next, Sends
<1>. QED
  BY <1>1, <1>2, RetryInvariant, PTL DEF Spec, KeepsThePromise, Single!RequestSpec
==============================================================================
