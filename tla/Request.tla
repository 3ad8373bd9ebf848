------------------------------- MODULE Request -------------------------------
(***************************************************************************)
(* What LicenseClient takes one request to be: it is sent, and some time   *)
(* later it ends in exactly one of three ways.  It was answered by the     *)
(* API; the API turned the key down; or no answer came, and then a cause   *)
(* is on record.  However many attempts were made in between, this is all  *)
(* the rest of the client depends on.                                      *)
(***************************************************************************)
CONSTANTS Causes, NoCause

VARIABLES
  open,       \* the request is under way
  outcome,    \* how the last one ended
  cause       \* the network diagnosis it left

requestVars == <<open, outcome, cause>>

RequestInit == ~open /\ outcome = "none" /\ cause = NoCause

Start == ~open /\ open' /\ outcome' = "none" /\ cause' = NoCause

Answered   == outcome' = "OK" /\ cause' = NoCause
KeyRefused == outcome' = "E_AUTH" /\ cause' = NoCause
NoAnswer   == outcome' = "E_HTTP" /\ cause' \in Causes

Finish == open /\ ~open' /\ (Answered \/ KeyRefused \/ NoAnswer)

RequestSpec == RequestInit /\ [][Start \/ Finish]_requestVars
==============================================================================
