---------------------------- MODULE LicenseHolder ----------------------------
(***************************************************************************)
(* What a handle promises the application about the license it holds,      *)
(* whatever calls are made and whatever the network, the server, the cache *)
(* file and the clocks do:                                                 *)
(*   - it holds a document that verified, or nothing;                      *)
(*   - its verdict on a document was reached, when the document was        *)
(*     adopted, at a time no earlier than any trusted time it had been     *)
(*     shown, the document's own signed stamps included;                   *)
(*   - nothing else changes document or verdict, except a new handle.      *)
(***************************************************************************)
EXTENDS LicenseStatus

VARIABLES
  held,       \* the document, or NoDoc
  verdict,    \* the status reported for it
  at,         \* the last evaluation time
  shown       \* the latest trusted time shown to the handle

holderVars == <<held, verdict, at, shown>>

HolderTypeOK ==
  /\ held \in Document \cup {NoDoc}
  /\ verdict \in Statuses
  /\ at \in Nat /\ shown \in Nat

HolderInit == held = NoDoc /\ verdict = "Unknown" /\ at = 0 /\ shown = 0

(* A trusted time is shown, or only an evaluation time is chosen.          *)
LearnTime ==
  /\ shown' \in Nat /\ shown' >= shown
  /\ at' \in Nat
  /\ UNCHANGED <<held, verdict>>

AdoptVerified ==
  /\ held' \in Document /\ held'.check = "OK"
  /\ shown' \in Nat /\ shown' >= shown
  /\ shown' >= held'.created /\ shown' >= held'.updated
  /\ at' \in Nat /\ at' >= shown'
  /\ verdict' = LicenseStatusOf(held', at')

Forget == held' = NoDoc /\ verdict' = "Unknown" /\ at' = 0 /\ shown' = 0

HolderNext == LearnTime \/ AdoptVerified \/ Forget

HolderSpec == HolderInit /\ [][HolderNext]_holderVars
==============================================================================
