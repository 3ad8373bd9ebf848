------------------------ MODULE LicenseHolderProofs --------------------------
(***************************************************************************)
(* What follows from LicenseHolder, for every document and every time, and *)
(* so for every handle that implements it.                                 *)
(***************************************************************************)
EXTENDS LicenseHolder, TLAPS

(* A holder's verdict is the one its document had at a time not before any *)
(* trusted time known when it was reached.                                 *)
HolderInv ==
  /\ HolderTypeOK
  /\ held # NoDoc => held.check = "OK"

LEMMA HolderStep == HolderInv /\ [HolderNext]_holderVars => HolderInv'
<1>. SUFFICES ASSUME HolderInv, [HolderNext]_holderVars PROVE HolderInv'
  OBVIOUS
<1>1. CASE LearnTime
  BY <1>1 DEF HolderInv, HolderTypeOK, LearnTime
<1>2. CASE AdoptVerified
  <2>1. verdict' \in Statuses
    BY <1>2 DEF AdoptVerified, LicenseStatusOf, LegacyStatus, Document, Statuses
  <2>. QED
    BY <1>2, <2>1 DEF HolderInv, HolderTypeOK, AdoptVerified
<1>3. CASE Forget
  BY <1>3 DEF HolderInv, HolderTypeOK, Forget, Statuses
<1>4. CASE UNCHANGED holderVars
  BY <1>4 DEF HolderInv, HolderTypeOK, holderVars
<1>. QED
  BY <1>1, <1>2, <1>3, <1>4 DEF HolderNext

(* A holder holds nothing, or a document that verified.                    *)
THEOREM HolderHoldsVerified == HolderSpec => []HolderInv
<1>1. HolderInit => HolderInv
  BY DEF HolderInit, HolderInv, HolderTypeOK, Statuses
<1>. QED
  BY <1>1, HolderStep, PTL DEF HolderSpec

(* Once a verdict under which the application runs is reached, the         *)
(* document had not lapsed at any trusted time shown so far: a clock wound *)
(* back resurrects nothing.                                                *)
NoHeldResurrection ==
  held' # NoDoc /\ <<held', verdict'>> # <<held, verdict>> /\ Usable(verdict')
    => ~Lapsed(held'.expires, shown')

THEOREM HolderNeverResurrects == HolderSpec => [][NoHeldResurrection]_holderVars
<1>1. ASSUME HolderNext PROVE NoHeldResurrection
  <2>1. CASE AdoptVerified
    <3>1. SUFFICES ASSUME Usable(verdict') PROVE ~Lapsed(held'.expires, shown')
      BY DEF NoHeldResurrection
    <3>2. ~Lapsed(held'.expires, at')
      BY <2>1, <3>1 DEF AdoptVerified, LicenseStatusOf, Usable
    <3>3. held'.expires \in Stamp /\ shown' \in Nat /\ at' \in Nat /\ shown' <= at'
      BY <2>1 DEF AdoptVerified, Document
    <3>. QED
      BY <3>2, <3>3 DEF Lapsed, Stamp, NoTime
  <2>2. CASE LearnTime
    BY <2>2 DEF LearnTime, NoHeldResurrection
  <2>3. CASE Forget
    BY <2>3 DEF Forget, NoHeldResurrection
  <2>. QED
    BY <1>1, <2>1, <2>2, <2>3 DEF HolderNext
<1>2. [HolderNext]_holderVars => [NoHeldResurrection]_holderVars
  BY <1>1
<1>. QED
  BY <1>2, PTL DEF HolderSpec
==============================================================================
