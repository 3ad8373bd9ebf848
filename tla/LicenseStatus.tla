---------------------------- MODULE LicenseStatus ----------------------------
(***************************************************************************)
(* A signed license document and the verdict the library draws from it:    *)
(* hlm_license (include/hymma/hlm.h), hlm_license_check_machine and        *)
(* hlm_license_status (src/core/hlm_license.c).                            *)
(*                                                                         *)
(* A document is a record of what the library's decisions depend on.  The  *)
(* field check is the result of verifying it against this vendor's keys,   *)
(* this product and this machine, so tampering, another vendor's file,     *)
(* another product's or another computer's file are documents of the same  *)
(* type with another check.  Strings the verdict does not depend on        *)
(* (names, metadata, e-mail) are left out.                                 *)
(***************************************************************************)
EXTENDS Integers

CONSTANTS
  Codes,     \* receipt codes a license can carry
  NoCode,    \* no receipt attached
  NoDoc      \* no document: an empty cache, or a handle that holds no license

ASSUME SentinelsAssumption == NoCode \notin Codes

(***************************************************************************)
(* HLM_TIME_NONE is INT64_MIN, below every time: any value below 0 will do.*)
(***************************************************************************)
NoTime == -1
Stamp  == Nat \cup {NoTime}

Statuses == {"Unknown", "Expired", "Valid", "ValidTrial", "InvalidTrial",
             "ReceiptExpired", "ReceiptUnregistered"}

Checks == {"OK", "E_FORMAT", "E_SIGNATURE", "E_UNSUPPORTED_ALG",
           "E_PRODUCT_MISMATCH", "E_COMPUTER_MISMATCH"}

Document ==
  [check      : Checks,
   id         : Nat,                  \* which row of the server it was issued for
   created    : Stamp,
   updated    : Stamp,
   trialEnd   : Stamp,
   expires    : Stamp,                \* the license FILE's own expiry
   sstatus    : Statuses,             \* the status the server signed, if any
   code       : Codes \cup {NoCode},
   receiptEnd : Stamp]

Later(s, t) == IF s < t THEN t ELSE s

(***************************************************************************)
(* hlm_license_status: the file's expiry wins, then the signed status,     *)
(* then the rules for files that carry none.                               *)
(***************************************************************************)
Lapsed(stamp, now) == stamp # NoTime /\ stamp <= now

\* Mutant: the trial is tested the wrong way round.
LegacyStatusBackwards(d, now) ==
  IF d.updated = NoTime
  THEN IF d.trialEnd # NoTime /\ now >= d.trialEnd THEN "ValidTrial" ELSE "InvalidTrial"
  ELSE IF d.code = NoCode             THEN "ReceiptUnregistered"
  ELSE IF Lapsed(d.receiptEnd, now)   THEN "ReceiptExpired"
  ELSE "Valid"

LegacyStatus(d, now) ==
  IF d.updated = NoTime
  THEN IF d.trialEnd # NoTime /\ now < d.trialEnd THEN "ValidTrial" ELSE "InvalidTrial"
  ELSE IF d.code = NoCode             THEN "ReceiptUnregistered"
  ELSE IF Lapsed(d.receiptEnd, now)   THEN "ReceiptExpired"
  ELSE "Valid"

LicenseStatusOf(d, now) ==
  IF Lapsed(d.expires, now)      THEN "Expired"
  ELSE IF d.sstatus # "Unknown"  THEN d.sstatus
  ELSE LegacyStatus(d, now)

(* The statuses under which the application runs. *)
Usable(s) == s \in {"Valid", "ValidTrial"}
==============================================================================
