---------------------------- MODULE LicenseServer ----------------------------
(***************************************************************************)
(* EXTERNAL: the license server, as hlm_client.c uses it (the wire         *)
(* contract at the head of that file).  For this computer and product the  *)
(* server keeps at most one license row.  POST license creates it or       *)
(* answers 409, PATCH license attaches a receipt code to the row it names  *)
(* or frees the seat (code null), GET license signs the row as it is now   *)
(* for validDays more days.                                                *)
(***************************************************************************)
EXTENDS LicenseStatus

CONSTANTS
  ValidDays,     \* valid_days of the client's configuration
  TrialDays,     \* length of a trial
  ReceiptEnd,    \* when a receipt's subscription ends, or NoTime
  SignsStatus,   \* FALSE: a server that signs no status (legacy files)
  NoRow

ASSUME ServerAssumption ==
  /\ ValidDays \in Nat
  /\ TrialDays \in Nat
  /\ ReceiptEnd \in Stamp
  /\ SignsStatus \in BOOLEAN

Row == [id : Nat, created : Nat, updated : Stamp, code : Codes \cup {NoCode}]

NewRow(i, t) == [id |-> i, created |-> t, updated |-> NoTime, code |-> NoCode]

Attach(r, code, t) == [r EXCEPT !.code = code, !.updated = t]

RowStatus(r, t) ==
  IF r.code # NoCode
  THEN IF Lapsed(ReceiptEnd, t) THEN "ReceiptExpired" ELSE "Valid"
  ELSE IF r.updated # NoTime THEN "ReceiptUnregistered"
  ELSE IF t < r.created + TrialDays THEN "ValidTrial" ELSE "InvalidTrial"

Sign(r, t) ==
  [check      |-> "OK",
   id         |-> r.id,
   created    |-> r.created,
   updated    |-> r.updated,
   trialEnd   |-> r.created + TrialDays,
   expires    |-> t + ValidDays,
   sstatus    |-> IF SignsStatus THEN RowStatus(r, t) ELSE "Unknown",
   code       |-> r.code,
   receiptEnd |-> IF r.code = NoCode THEN NoTime ELSE ReceiptEnd]
==============================================================================
