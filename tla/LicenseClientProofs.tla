------------------------- MODULE LicenseClientProofs -------------------------
(***************************************************************************)
(* Proofs about LicenseClient, for every set of codes, documents and port  *)
(* configurations, every validity and trial period, every bound and every  *)
(* error of the timesync port.                                             *)
(*                                                                         *)
(* The type invariant is split by what disturbs it: the control state (the *)
(* step, the frame of the call and what it returns) is disturbed by the    *)
(* operators that end requests and calls, the rest by those that adopt a   *)
(* license or touch the world.                                             *)
(***************************************************************************)
EXTENDS LicenseClientProperties, TLAPS

------------------------------------------------------------------------------
(* The verdict on a document, for every document and time                  *)

LEMMA VerdictType ==
  ASSUME NEW d \in Document, NEW t
  PROVE  LicenseStatusOf(d, t) \in Statuses
  BY DEF LicenseStatusOf, LegacyStatus, Document, Statuses

(* What has lapsed stays lapsed.                                           *)
LEMMA LapsedStays ==
  ASSUME NEW e \in Stamp, NEW m \in Nat, NEW n \in Nat, m <= n, Lapsed(e, m)
  PROVE  Lapsed(e, n)
  BY DEF Lapsed, Stamp, NoTime

(* A license can only get worse with time (hlm_license_status): if it is   *)
(* usable at some moment it was usable at every moment before, whichever   *)
(* of the file's expiry, the signed status and the legacy rules decides.   *)
THEOREM UsableBefore ==
  ASSUME NEW d \in Document, NEW m \in Nat, NEW n \in Nat, m <= n,
         Usable(LicenseStatusOf(d, n))
  PROVE  Usable(LicenseStatusOf(d, m))
<1>0. d.expires \in Stamp /\ d.receiptEnd \in Stamp /\ d.trialEnd \in Stamp
  BY DEF Document
<1>1. ~Lapsed(d.expires, n)
  BY DEF LicenseStatusOf, Usable
<1>2. ~Lapsed(d.expires, m)
  BY <1>0, <1>1, LapsedStays
<1>3. CASE d.sstatus # "Unknown"
  BY <1>1, <1>2, <1>3 DEF LicenseStatusOf
<1>4. CASE d.sstatus = "Unknown"
  <2>1. Usable(LegacyStatus(d, n))
    BY <1>1, <1>4 DEF LicenseStatusOf
  <2>2. Usable(LegacyStatus(d, m))
    <3>1. CASE d.updated = NoTime
      <4>1. d.trialEnd # NoTime /\ n < d.trialEnd
        BY <2>1, <3>1 DEF LegacyStatus, Usable
      <4>2. m < d.trialEnd
        BY <4>1, <1>0 DEF Stamp
      <4>. QED
        BY <3>1, <4>1, <4>2 DEF LegacyStatus, Usable
    <3>2. CASE d.updated # NoTime
      <4>1. d.code # NoCode /\ ~Lapsed(d.receiptEnd, n)
        BY <2>1, <3>2 DEF LegacyStatus, Usable
      <4>2. ~Lapsed(d.receiptEnd, m)
        BY <4>1, <1>0, LapsedStays
      <4>. QED
        BY <3>2, <4>1, <4>2 DEF LegacyStatus, Usable
    <3>. QED
      BY <3>1, <3>2
  <2>. QED
    BY <1>2, <1>4, <2>2 DEF LicenseStatusOf
<1>. QED
  BY <1>3, <1>4
------------------------------------------------------------------------------
(* What keeps the types                                                    *)

ControlOK ==
  /\ cfg \in SUBSET Ports
  /\ pc \in Steps \cup {"idle"}
  /\ op \in OnlineCalls \cup {"none"}
  /\ why \in {"check", "rotated", "refresh"}
  /\ patchId \in Nat
  /\ call \in CallHistory
  /\ freed \in BOOLEAN
  /\ ret \in Results
  /\ report \in Report

HeldOK ==
  /\ license \in Document \cup {NoDoc}
  /\ status \in Statuses
  /\ floor \in Nat /\ evalNow \in Nat /\ seen \in Nat

WorldOK ==
  /\ store \in Document \cup {NoDoc}
  /\ row \in Row \cup {NoRow}
  /\ nextId \in Nat
  /\ now \in Nat /\ mishaps \in Nat

LEMMA TypeSplit == TypeOK <=> ControlOK /\ HeldOK /\ WorldOK
  BY DEF TypeOK, ControlOK, HeldOK, WorldOK
------------------------------------------------------------------------------
(* The control state                                                       *)

LEMMA NoCallOK == NoCall \in CallHistory
  BY DEF NoCall, Began, CallHistory

LEMMA ReportsOK ==
  ASSUME report \in Report
  PROVE  /\ Heard \in Report /\ Refused \in Report /\ ImportMessage \in Report
         /\ \A n \in NetFailures : Cut(n) \in Report
         /\ BeginCall(report) \in Report
         /\ NoReport \in Report
  BY DEF Report, Heard, Refused, ImportMessage, Cut, BeginCall, NoReport

LEMMA EndCallOK ==
  ASSUME NEW rep \in Report, NEW r
  PROVE  EndCall(r, rep) \in Report
  BY DEF EndCall, Report

(* The three ways a request is turned down.                                *)
LEMMA FailuresOK ==
  ASSUME report \in Report, NEW f \in RequestFailures
  PROVE  f.r \in {"E_HTTP", "E_AUTH", "E_API"} /\ f.report \in Report
<1>1. CASE Has("http")
  <2>1. PICK r \in {"E_HTTP", "E_AUTH", "E_API"}, rep \in Report : f = Failure(r, rep)
    BY <1>1, ReportsOK DEF RequestFailures
  <2>. QED
    BY <2>1 DEF Failure
<1>2. CASE ~Has("http")
  BY <1>2 DEF RequestFailures, Failure
<1>. QED
  BY <1>1, <1>2

LEMMA ReturnOK ==
  ASSUME ControlOK, NEW r \in Results, NEW rep \in Report, Return(r, rep)
  PROVE  ControlOK'
<1>1. freed' \in BOOLEAN
  BY Zenon DEF Return
<1>2. call' \in CallHistory
  BY NoCallOK DEF Return
<1>3. report' \in Report
  BY EndCallOK DEF Return
<1>. QED
  BY <1>1, <1>2, <1>3 DEF ControlOK, Return

LEMMA CallEdits ==
  ASSUME call \in CallHistory, NEW b \in BOOLEAN
  PROVE  /\ [call EXCEPT !.cut = b] \in CallHistory
         /\ [call EXCEPT !.disturbed = b] \in CallHistory
         /\ [call EXCEPT !.cut = FALSE, !.accepted = TRUE, !.disturbed = FALSE] \in CallHistory
  BY Zenon DEF CallHistory

LEMMA ProceedOK ==
  ASSUME ControlOK, NEW step \in Steps, NEW rep \in Report, NEW cut \in BOOLEAN,
         Proceed(step, rep, cut)
  PROVE  ControlOK'
<1>1. call' \in CallHistory
  BY CallEdits DEF Proceed, ControlOK
<1>. QED
  BY <1>1 DEF ControlOK, Proceed, Goto

LEMMA CheckSucceedsOK ==
  ASSUME ControlOK, NEW rep \in Report, NEW cut \in BOOLEAN, CheckSucceeds(rep, cut)
  PROVE  ControlOK'
<1>1. "OK" \in Results /\ "patch" \in Steps
  BY DEF Results, Steps
<1>. QED
  BY <1>1, ReturnOK, ProceedOK DEF CheckSucceeds

LEMMA RefreshFailsOK ==
  ASSUME ControlOK, NEW f, f.r \in CallErrors, f.report \in Report, RefreshFails(f)
  PROVE  ControlOK'
<1>1. f.r \in Results /\ "E_NO_LICENSE" \in Results
  BY DEF Results, CallErrors
<1>. QED
  BY <1>1, ReturnOK, CheckSucceedsOK DEF RefreshFails

LEMMA RefreshSucceedsOK ==
  ASSUME ControlOK, NEW rep \in Report, RefreshSucceeds(rep)
  PROVE  ControlOK'
<1>1. "OK" \in Results /\ "rePatch" \in Steps
  BY DEF Results, Steps
<1>. QED
  BY <1>1, ReturnOK, ProceedOK, CheckSucceedsOK DEF RefreshSucceeds

LEMMA RequestFailsOK ==
  ASSUME ControlOK, NEW f \in RequestFailures
  PROVE  /\ f.r \in CallErrors /\ f.r \in Results /\ f.report \in Report
  BY FailuresOK DEF ControlOK, CallErrors, Results

LEMMA PatchAcceptedOK ==
  ASSUME ControlOK, NEW id, PatchAccepted(id)
  PROVE  ControlOK'
<1>1. call' \in CallHistory
  BY CallEdits DEF PatchAccepted, ControlOK
<1>2. Heard \in Report
  BY ReportsOK DEF ControlOK
<1>. QED
  BY <1>1, <1>2 DEF ControlOK, PatchAccepted, Goto, Steps

LEMMA PatchFailsOK ==
  ASSUME ControlOK, NEW id, PatchFails(id)
  PROVE  ControlOK'
  BY RequestFailsOK, ReturnOK DEF PatchFails
------------------------------------------------------------------------------
(* The inductive invariant                                                 *)

StampedBy(d, t) == d.created <= t /\ d.updated <= t

(* What the handle holds.  FloorIsSound alone is not inductive: a license  *)
(* adopted from the cache raises the floor to its stamps, so the stamps of *)
(* everything that can be adopted must not lie in the future; and a        *)
(* verdict reached at the floor is not before the trusted times shown only *)
(* because none of them is above the floor.                                *)
HeldInv ==
  /\ HeldOK
  /\ OnlyVerifiedHeld
  /\ FloorIsSound
  /\ seen <= floor
  /\ license # NoDoc => StampedBy(license, now)

WorldInv ==
  /\ WorldOK
  /\ Verifies(store) => StampedBy(store, now)
  /\ row # NoRow => row.created <= now /\ row.updated <= now

(* A call is about to save or to name its license only if it has one.      *)
HasWhatItNeeds == pc \in {"save", "patch"} => license # NoDoc

ClientInv == ControlOK /\ HeldInv /\ WorldInv /\ HasWhatItNeeds

(* What is shown of every step: it keeps the invariant, it is a step of    *)
(* LicenseHolder or none, and it saves only what verified.                 *)
GoodStep ==
  /\ ClientInv'
  /\ [Holder!HolderNext]_(Holder!holderVars)
  /\ store' # store /\ ~StoreChanges => Verifies(store')

LEMMA SumGrows ==
  ASSUME NEW f \in Nat, NEW m \in Nat, NEW n \in Nat, NEW k \in Nat,
         m <= n, f <= m + k
  PROVE  f <= n + k
  OBVIOUS

LEMMA HeldStays ==
  ASSUME HeldInv, UNCHANGED held, now \in Nat, now' \in Nat, now' >= now
  PROVE  HeldInv' /\ UNCHANGED Holder!holderVars
<1>1. /\ license' = license /\ status' = status /\ floor' = floor
      /\ evalNow' = evalNow /\ seen' = seen
  BY DEF held
<1>2. license # NoDoc => license.created \in Int /\ license.updated \in Int
  BY DEF HeldInv, HeldOK, Document, Stamp, NoTime
<1>3. HeldOK' /\ OnlyVerifiedHeld'
  BY <1>1 DEF HeldInv, HeldOK, OnlyVerifiedHeld, Verifies
<1>4. FloorIsSound' /\ seen' <= floor'
  <2>1. Skew \in Nat /\ floor \in Nat /\ floor <= now + Skew
    BY ClientAssumption DEF HeldInv, HeldOK, FloorIsSound
  <2>2. floor' <= now' + Skew
    BY <1>1, <2>1, SumGrows
  <2>3. license' # NoDoc => license'.created <= floor' /\ license'.updated <= floor'
    BY <1>1 DEF HeldInv, FloorIsSound
  <2>. QED
    BY <1>1, <2>2, <2>3 DEF HeldInv, FloorIsSound
<1>5. license' # NoDoc => StampedBy(license', now')
  BY <1>1, <1>2 DEF HeldInv, StampedBy
<1>. QED
  BY <1>1, <1>3, <1>4, <1>5 DEF HeldInv, StampedBy, Holder!holderVars

LEMMA WorldStays ==
  ASSUME WorldInv, UNCHANGED <<store, server, env>>
  PROVE  WorldInv'
  BY DEF WorldInv, WorldOK, Verifies, StampedBy, server, env

(* LicenseHolder's documents and verdicts are those of LicenseStatus.      *)
LEMMA SameDocuments == Holder!Document = Document
  BY DEF Holder!Document, Document, Holder!Checks, Checks, Holder!Stamp, Stamp,
         Holder!NoTime, NoTime, Holder!Statuses, Statuses

LEMMA SameVerdict ==
  ASSUME NEW d, NEW t
  PROVE  Holder!LicenseStatusOf(d, t) = LicenseStatusOf(d, t)
  BY DEF Holder!LicenseStatusOf, LicenseStatusOf, Holder!LegacyStatus, LegacyStatus,
         Holder!Lapsed, Lapsed, Holder!NoTime, NoTime

(* Adopting a document stamped no later than now.                          *)
LEMMA AdoptOK ==
  ASSUME HeldInv, now \in Nat, now' = now,
         NEW d \in Document, d.check = "OK", StampedBy(d, now),
         NEW t \in Nat, Adopt(d, t)
  PROVE  /\ HeldInv'
         /\ license' = d /\ d # NoDoc
         /\ Holder!AdoptVerified
<1>. DEFINE f == StampFloor(floor, d)
            e == Later(t, f)
            s == Later(Later(seen, d.created), d.updated)
<1>1. /\ floor' = f /\ evalNow' = e /\ license' = d
      /\ status' = LicenseStatusOf(d, e) /\ seen' = s
  BY DEF Adopt
<1>2. d.created \in Int /\ d.updated \in Int
  BY DEF Document, Stamp, NoTime
<1>3. /\ floor \in Nat /\ seen \in Nat /\ seen <= floor /\ floor <= now + Skew /\ Skew \in Nat
  BY ClientAssumption DEF HeldInv, HeldOK, FloorIsSound
<1>4. /\ f \in Nat /\ f >= floor /\ f >= d.created /\ f >= d.updated
      /\ f \in {floor, d.created, d.updated}
  BY <1>2, <1>3 DEF StampFloor, RaiseFloor
<1>5. f <= now + Skew
  BY <1>2, <1>3, <1>4 DEF StampedBy
<1>6. /\ s \in Nat /\ s >= seen /\ s >= d.created /\ s >= d.updated /\ s <= f
  BY <1>2, <1>3, <1>4 DEF Later
<1>7. e \in Nat /\ e >= f
  BY <1>4 DEF Later
<1>8. d # NoDoc
  BY ClientAssumption
<1>9. HeldInv'
  <2>1. HeldOK'
    BY <1>1, <1>4, <1>6, <1>7, VerdictType DEF HeldOK
  <2>2. OnlyVerifiedHeld'
    BY <1>1, <1>8 DEF OnlyVerifiedHeld, Verifies
  <2>3. FloorIsSound'
    BY <1>1, <1>4, <1>5 DEF FloorIsSound
  <2>4. seen' <= floor' /\ StampedBy(license', now')
    BY <1>1, <1>6 DEF StampedBy
  <2>. QED
    BY <2>1, <2>2, <2>3, <2>4 DEF HeldInv, StampedBy
<1>10. Holder!AdoptVerified
  BY <1>1, <1>4, <1>6, <1>7, SameDocuments, SameVerdict DEF Holder!AdoptVerified
<1>. QED
  BY <1>1, <1>8, <1>9, <1>10

(* The row signed at a time since it last changed is such a document.      *)
LEMMA SignOK ==
  ASSUME WorldInv, row # NoRow, NEW t \in Nat, t <= now
  PROVE  /\ Sign(row, t) \in Document
         /\ Sign(row, t).check = "OK"
         /\ StampedBy(Sign(row, t), now)
<1>1. row \in Row /\ row.created <= now /\ row.updated <= now
  BY DEF WorldInv, WorldOK
<1>2. /\ row.id \in Nat /\ row.created \in Nat /\ row.updated \in Stamp
      /\ row.code \in Codes \cup {NoCode}
  BY <1>1 DEF Row
<1>3. RowStatus(row, t) \in Statuses /\ "Unknown" \in Statuses
  BY DEF RowStatus, Statuses
<1>4. row.created + TrialDays \in Stamp /\ t + ValidDays \in Stamp /\ row.created \in Stamp
  BY <1>2, ServerAssumption DEF Stamp
<1>5. (IF row.code = NoCode THEN NoTime ELSE ReceiptEnd) \in Stamp
  BY ServerAssumption DEF Stamp, NoTime
<1>6. (IF SignsStatus THEN RowStatus(row, t) ELSE "Unknown") \in Statuses
  BY <1>3
<1>7. "OK" \in Checks
  BY DEF Checks
<1>8. Sign(row, t) \in Document
  BY <1>2, <1>4, <1>5, <1>6, <1>7 DEF Sign, Document
<1>. QED
  BY <1>1, <1>8 DEF Sign, StampedBy

LEMMA HandFilesOK ==
  ASSUME WorldInv, NEW d \in HandFiles
  PROVE  d \in Document /\ d.check = "OK" /\ StampedBy(d, now)
<1>1. row # NoRow /\ row \in Row /\ now \in Nat
  BY DEF HandFiles, WorldInv, WorldOK
<1>2. Later(row.created, row.updated) \in Nat
  BY <1>1 DEF Row, Stamp, NoTime, Later
<1>3. PICK t \in Later(row.created, row.updated) .. now : d = Sign(row, t)
  BY <1>1 DEF HandFiles
<1>4. t \in Nat /\ t <= now
  BY <1>1, <1>2, <1>3
<1>. QED
  BY <1>1, <1>3, <1>4, SignOK

LEMMA ForeignDocsOK ==
  ASSUME NEW d \in ForeignDocs
  PROVE  d \in Document /\ d.check # "OK" /\ d.check \in CallErrors
  BY ClientAssumption DEF Document, CallErrors
------------------------------------------------------------------------------
(* Where the operators that end requests and calls lead                    *)

LEMMA ReturnWhere ==
  ASSUME NEW r, NEW rep, Return(r, rep)
  PROVE  pc' = "idle"
  BY DEF Return

LEMMA ProceedWhere ==
  ASSUME NEW step, NEW rep, NEW cut, Proceed(step, rep, cut)
  PROVE  pc' = step
  BY DEF Proceed, Goto

LEMMA CheckSucceedsWhere ==
  ASSUME NEW rep, NEW cut, CheckSucceeds(rep, cut)
  PROVE  pc' \in {"idle", "patch"}
  BY ReturnWhere, ProceedWhere DEF CheckSucceeds

LEMMA RefreshFailsWhere ==
  ASSUME NEW f, RefreshFails(f)
  PROVE  pc' = "idle" \/ (pc' = "patch" /\ license # NoDoc)
  BY ReturnWhere, CheckSucceedsWhere DEF RefreshFails

LEMMA RefreshSucceedsWhere ==
  ASSUME NEW rep, RefreshSucceeds(rep)
  PROVE  pc' \in {"idle", "patch", "rePatch"}
  BY ReturnWhere, ProceedWhere, CheckSucceedsWhere DEF RefreshSucceeds

(* A step that touches nothing but the control state and the server.       *)
LEMMA ControlStep ==
  ASSUME HeldInv, ControlOK', HasWhatItNeeds', WorldInv', UNCHANGED <<held, store, env>>,
         WorldInv
  PROVE  GoodStep
<1>1. now' = now /\ now \in Nat /\ store' = store
  BY DEF env, WorldInv, WorldOK
<1>2. HeldInv' /\ UNCHANGED Holder!holderVars
  BY <1>1, HeldStays DEF held
<1>. QED
  BY <1>1, <1>2 DEF GoodStep, ClientInv

(* A step that moves the floor and the evaluation time only.               *)
LEMMA TimeKept ==
  ASSUME ClientInv, ControlOK', UNCHANGED <<license, status, store, server, env>>,
         floor' \in Nat, floor' >= floor, floor' <= now + Skew,
         seen' \in Nat, seen' >= seen, seen' <= floor', evalNow' \in Nat,
         pc' = FirstStep, FirstStep # "save", FirstStep = "patch" => license # NoDoc
  PROVE  GoodStep
<1>1. HeldInv /\ WorldInv /\ now' = now /\ store' = store
  BY DEF ClientInv, env
<1>2. license # NoDoc => license.created \in Int /\ license.updated \in Int
  BY <1>1 DEF HeldInv, HeldOK, Document, Stamp, NoTime
<1>3. HeldInv'
  <2>1. HeldOK'
    BY <1>1 DEF HeldInv, HeldOK
  <2>2. OnlyVerifiedHeld' /\ (license' # NoDoc => StampedBy(license', now'))
    BY <1>1 DEF HeldInv, OnlyVerifiedHeld, Verifies, StampedBy
  <2>3. FloorIsSound'
    BY <1>1, <1>2 DEF HeldInv, HeldOK, FloorIsSound
  <2>. QED
    BY <2>1, <2>2, <2>3 DEF HeldInv, StampedBy
<1>4. WorldInv'
  BY <1>1, WorldStays
<1>5. Holder!LearnTime
  BY DEF Holder!LearnTime
<1>6. HasWhatItNeeds'
  BY DEF HasWhatItNeeds
<1>. QED
  BY <1>1, <1>3, <1>4, <1>5, <1>6 DEF GoodStep, ClientInv, Holder!HolderNext

(* A step that shows the handle a time, or lets it choose one.             *)
LEMMA TrustedStep ==
  ASSUME ClientInv, UNCHANGED <<store, server, env>>,
         NEW t \in Nat, t <= now + Skew,
         NEW rep \in Report, NEW cut \in BOOLEAN, UseTrusted(t, rep, cut)
  PROVE  GoodStep
<1>1. /\ floor \in Nat /\ seen \in Nat /\ seen <= floor /\ floor <= now + Skew
      /\ now \in Nat /\ Skew \in Nat /\ now' = now
  BY ClientAssumption DEF ClientInv, HeldInv, HeldOK, FloorIsSound, WorldInv, WorldOK, env
<1>2. /\ floor' \in Nat /\ floor' >= floor /\ floor' <= now + Skew
      /\ seen' \in Nat /\ seen' >= seen /\ seen' <= floor'
      /\ evalNow' = t
  BY <1>1 DEF UseTrusted, RaiseFloor, Later
<1>3. license' = license /\ status' = status
  BY DEF UseTrusted
<1>4. FirstStep \in Steps /\ (FirstStep = "patch" => license # NoDoc) /\ FirstStep # "save"
  BY DEF FirstStep, Steps
<1>5. ControlOK' /\ pc' = FirstStep
  BY <1>4, ProceedOK, ProceedWhere DEF UseTrusted, ClientInv
<1>. QED
  BY <1>1, <1>2, <1>3, <1>4, <1>5, TimeKept

LEMMA LocalStep ==
  ASSUME ClientInv, UNCHANGED <<store, server, env>>,
         NEW rep \in Report, NEW cut \in BOOLEAN, UseLocal(rep, cut)
  PROVE  GoodStep
<1>1. /\ floor \in Nat /\ seen \in Nat /\ seen <= floor /\ floor <= now + Skew
      /\ now \in Nat /\ now' = now
  BY DEF ClientInv, HeldInv, HeldOK, FloorIsSound, WorldInv, WorldOK, env
<1>2. evalNow' \in Nat
  BY <1>1, ClientAssumption DEF UseLocal, LocalTimes, ClampToFloor
<1>3. license' = license /\ status' = status /\ floor' = floor /\ seen' = seen
  BY DEF UseLocal
<1>4. FirstStep \in Steps /\ (FirstStep = "patch" => license # NoDoc) /\ FirstStep # "save"
  BY DEF FirstStep, Steps
<1>5. ControlOK' /\ pc' = FirstStep
  BY <1>4, ProceedOK, ProceedWhere DEF UseLocal, ClientInv
<1>. QED
  BY <1>1, <1>2, <1>3, <1>4, <1>5, TimeKept

(* A step that adopts a document, and perhaps writes it to the cache.      *)
LEMMA AdoptStep ==
  ASSUME ClientInv, ControlOK', UNCHANGED <<server, env>>,
         NEW d \in Document, d.check = "OK", StampedBy(d, now),
         NEW t \in Nat, Adopt(d, t), store' \in {store, d}
  PROVE  GoodStep
<1>1. /\ HeldInv /\ WorldInv /\ now \in Nat /\ now' = now
      /\ row' = row /\ nextId' = nextId /\ mishaps' = mishaps
  BY DEF ClientInv, WorldInv, WorldOK, env, server
<1>2. HeldInv' /\ license' = d /\ d # NoDoc /\ Holder!AdoptVerified
  BY <1>1, AdoptOK
<1>3. WorldInv'
  BY <1>1 DEF WorldInv, WorldOK, Verifies, StampedBy
<1>4. HasWhatItNeeds'
  BY <1>2 DEF HasWhatItNeeds
<1>5. store' # store => Verifies(store')
  BY <1>2 DEF Verifies
<1>. QED
  BY <1>2, <1>3, <1>4, <1>5 DEF GoodStep, ClientInv, Holder!HolderNext
------------------------------------------------------------------------------
(* The steps of a call                                                     *)

LEMMA TypeOfReport ==
  ASSUME ClientInv
  PROVE  /\ report \in Report /\ Heard \in Report /\ Refused \in Report
         /\ call.cut \in BOOLEAN
  BY ReportsOK DEF ClientInv, ControlOK, CallHistory

LEMMA CallStep ==
  ASSUME ClientInv, NEW o \in Calls, Call(o)
  PROVE  GoodStep
<1>1. o \in OnlineCalls
  BY ClientAssumption
<1>2. call' \in CallHistory
  BY DEF Call, Began, CallHistory, ClientInv, WorldInv, WorldOK
<1>3. report' \in Report
  BY ReportsOK DEF Call, ClientInv, ControlOK
<1>4. freed' \in BOOLEAN
  BY Zenon DEF Call
<1>5. ControlOK'
  BY <1>1, <1>2, <1>3, <1>4 DEF Call, ClientInv, ControlOK, Steps, Results
<1>6. HasWhatItNeeds'
  BY DEF Call, HasWhatItNeeds
<1>7. WorldInv /\ WorldInv' /\ HeldInv
  BY WorldStays DEF ClientInv, Call
<1>. QED
  BY <1>5, <1>6, <1>7, ControlStep DEF Call

LEMMA TimeSteps ==
  ASSUME ClientInv,
         TimesyncAnswers \/ TimesyncUnavailable \/ NoTrustedSource \/ FetchTime
  PROVE  GoodStep
<1>0. report \in Report /\ Heard \in Report /\ now \in Nat /\ Skew \in Nat
  BY TypeOfReport, ClientAssumption DEF ClientInv, WorldInv, WorldOK
<1>1. CASE TimesyncAnswers
  <2>1. PICK t \in SyncAnswers : UseTrusted(t, report, FALSE)
    BY <1>1 DEF TimesyncAnswers
  <2>2. t \in Nat /\ t <= now + Skew
    BY <1>0, <2>1 DEF SyncAnswers
  <2>. QED
    BY <1>0, <1>1, <2>1, <2>2, TrustedStep DEF TimesyncAnswers
<1>2. CASE TimesyncUnavailable
  <2>1. ControlOK' /\ pc' = "fetchTime"
    BY <1>0, <1>2, ProceedOK, ProceedWhere DEF TimesyncUnavailable, ClientInv, Steps
  <2>2. WorldInv /\ WorldInv' /\ HeldInv
    BY <1>2, WorldStays DEF ClientInv, TimesyncUnavailable
  <2>. QED
    BY <1>2, <2>1, <2>2, ControlStep DEF TimesyncUnavailable, HasWhatItNeeds
<1>3. CASE NoTrustedSource
  BY <1>0, <1>3, LocalStep DEF NoTrustedSource
<1>4. CASE FetchTime
  <2>1. CASE UseTrusted(now, Heard, FALSE)
    <3>1. now <= now + Skew
      BY <1>0
    <3>. QED
      BY <1>0, <1>4, <2>1, <3>1, TrustedStep DEF FetchTime
  <2>2. CASE UseLocal(Heard, FALSE)
    BY <1>0, <1>4, <2>2, LocalStep DEF FetchTime
  <2>3. ASSUME NEW f \in RequestFailures, UseLocal(f.report, f.r = "E_HTTP")
        PROVE  GoodStep
    <3>1. f.report \in Report /\ (f.r = "E_HTTP") \in BOOLEAN
      BY RequestFailsOK DEF ClientInv
    <3>. QED
      BY <1>4, <2>3, <3>1, LocalStep DEF FetchTime
  <2>. QED
    BY <1>4, <2>1, <2>2, <2>3 DEF FetchTime
<1>. QED
  BY <1>1, <1>2, <1>3, <1>4

LEMMA ReadCacheStep ==
  ASSUME ClientInv, ReadCache
  PROVE  GoodStep
<1>0. report \in Report /\ call.cut \in BOOLEAN /\ "postComputer" \in Steps
  BY TypeOfReport DEF Steps
<1>1. CASE Verifies(store) /\ Adopt(store, evalNow)
           /\ (CheckSucceeds(report, call.cut) \/ Proceed("postComputer", report, call.cut))
  <2>1. ControlOK'
    BY <1>0, <1>1, CheckSucceedsOK, ProceedOK DEF ClientInv
  <2>2. store \in Document /\ store.check = "OK" /\ StampedBy(store, now) /\ evalNow \in Nat
    BY <1>1 DEF Verifies, ClientInv, WorldInv, WorldOK, HeldInv, HeldOK
  <2>. QED
    BY <1>1, <2>1, <2>2, AdoptStep DEF ReadCache
<1>2. CASE Proceed("postComputer", report, call.cut) /\ UNCHANGED held
  <2>1. ControlOK' /\ pc' = "postComputer"
    BY <1>0, <1>2, ProceedOK, ProceedWhere DEF ClientInv
  <2>2. WorldInv /\ WorldInv' /\ HeldInv
    BY WorldStays DEF ClientInv, ReadCache
  <2>. QED
    BY <1>2, <2>1, <2>2, ControlStep DEF ReadCache, HasWhatItNeeds
<1>. QED
  BY <1>1, <1>2 DEF ReadCache
------------------------------------------------------------------------------
(* The server's row                                                        *)

LEMMA RowsOK ==
  ASSUME NEW t \in Nat
  PROVE  /\ \A i \in Nat : NewRow(i, t) \in Row
         /\ \A r \in Row, c \in Codes \cup {NoCode} :
              /\ Attach(r, c, t) \in Row
              /\ Attach(r, c, t).created = r.created
              /\ Attach(r, c, t).updated = t
<1>1. t \in Stamp /\ NoTime \in Stamp
  BY DEF Stamp
<1>. QED
  BY <1>1 DEF NewRow, Attach, Row

LEMMA CreatesOK ==
  ASSUME WorldInv, ServerCreates \/ UNCHANGED server, UNCHANGED <<store, env>>
  PROVE  WorldInv'
<1>1. now \in Nat /\ now' = now /\ store' = store /\ mishaps' = mishaps /\ nextId \in Nat
  BY DEF WorldInv, WorldOK, env
<1>2. CASE UNCHANGED server
  BY <1>2, WorldStays
<1>3. CASE row' = NewRow(nextId, now) /\ nextId' = nextId + 1
  <2>1. row' \in Row /\ row'.created = now /\ row'.updated = NoTime
    BY <1>1, <1>3, RowsOK DEF NewRow
  <2>. QED
    BY <1>1, <1>3, <2>1 DEF WorldInv, WorldOK, Verifies, StampedBy, NoTime
<1>. QED
  BY <1>2, <1>3 DEF ServerCreates

LEMMA EditsOK ==
  ASSUME WorldInv, row # NoRow, NEW c \in Codes \cup {NoCode}, row' = Attach(row, c, now),
         UNCHANGED <<store, nextId, now>>, mishaps' \in Nat
  PROVE  WorldInv'
<1>1. row \in Row /\ now \in Nat /\ row.created <= now
  BY DEF WorldInv, WorldOK
<1>2. row' \in Row /\ row'.created = row.created /\ row'.updated = now
  BY <1>1, RowsOK
<1>. QED
  BY <1>1, <1>2 DEF WorldInv, WorldOK, Verifies, StampedBy

LEMMA PatchesOK ==
  ASSUME WorldInv, NEW id, ServerPatches(id) \/ UNCHANGED server, UNCHANGED <<store, env>>
  PROVE  WorldInv'
<1>1. CASE ServerPatches(id)
  <2>1. PatchedCode \in Codes \cup {NoCode}
    BY ClientAssumption DEF PatchedCode
  <2>. QED
    BY <1>1, <2>1, EditsOK DEF ServerPatches, RowHasId, env, WorldInv, WorldOK
<1>. QED
  BY <1>1, WorldStays

(* A step that ends or follows a request and touches only the server.      *)
LEMMA RequestStep ==
  ASSUME ClientInv, ControlOK', WorldInv', UNCHANGED <<held, store, env>>,
         pc' \notin {"save", "patch"} \/ license # NoDoc
  PROVE  GoodStep
<1>1. HasWhatItNeeds'
  BY DEF HasWhatItNeeds, held
<1>. QED
  BY <1>1, ControlStep DEF ClientInv

LEMMA ProceedStep ==
  ASSUME ClientInv, WorldInv', UNCHANGED <<held, store, env>>,
         NEW step \in Steps \ {"save", "patch"}, NEW rep \in Report, NEW cut \in BOOLEAN,
         Proceed(step, rep, cut)
  PROVE  GoodStep
<1>1. ControlOK' /\ pc' = step
  BY ProceedOK, ProceedWhere DEF ClientInv
<1>. QED
  BY <1>1, RequestStep

LEMMA RefreshFailsStep ==
  ASSUME ClientInv, WorldInv', UNCHANGED <<held, store, env>>,
         NEW f, f.r \in CallErrors, f.report \in Report, RefreshFails(f)
  PROVE  GoodStep
<1>1. ControlOK' /\ (pc' = "idle" \/ (pc' = "patch" /\ license # NoDoc))
  BY RefreshFailsOK, RefreshFailsWhere DEF ClientInv
<1>. QED
  BY <1>1, RequestStep

LEMMA FailedRequestStep ==
  ASSUME ClientInv, WorldInv', UNCHANGED <<held, store, env>>,
         \E f \in RequestFailures : RefreshFails(f)
  PROVE  GoodStep
<1>1. PICK f \in RequestFailures : RefreshFails(f)
  OBVIOUS
<1>2. f.r \in CallErrors /\ f.report \in Report
  BY RequestFailsOK DEF ClientInv
<1>. QED
  BY <1>1, <1>2, RefreshFailsStep

LEMMA ReturnStep ==
  ASSUME ClientInv, WorldInv', UNCHANGED <<held, store, env>>,
         NEW r \in Results, NEW rep \in Report, Return(r, rep)
  PROVE  GoodStep
<1>1. ControlOK' /\ pc' = "idle"
  BY ReturnOK, ReturnWhere DEF ClientInv
<1>. QED
  BY <1>1, RequestStep
------------------------------------------------------------------------------
(* refresh_internal                                                        *)

LEMMA PostComputerStep ==
  ASSUME ClientInv, PostComputer
  PROVE  GoodStep
<1>1. WorldInv' /\ Heard \in Report /\ UNCHANGED <<held, store, env>>
  BY WorldStays, TypeOfReport DEF PostComputer, ClientInv
<1>2. CASE Proceed("getComputer", Heard, FALSE)
  BY <1>1, <1>2, ProceedStep DEF Steps
<1>. QED
  BY <1>1, <1>2, FailedRequestStep DEF PostComputer

LEMMA GetComputerStep ==
  ASSUME ClientInv, GetComputer
  PROVE  GoodStep
<1>1. WorldInv' /\ Heard \in Report /\ UNCHANGED <<held, store, env>>
  BY WorldStays, TypeOfReport DEF GetComputer, ClientInv
<1>2. CASE Proceed("postLicense", Heard, FALSE)
  BY <1>1, <1>2, ProceedStep DEF Steps
<1>3. CASE RefreshFails(Failure("E_FORMAT", Heard))
  <2>. DEFINE f == Failure("E_FORMAT", Heard)
  <2>1. f.r \in CallErrors /\ f.report \in Report
    BY <1>1 DEF Failure, CallErrors, Checks
  <2>. QED
    BY <1>1, <1>3, <2>1, RefreshFailsStep
<1>. QED
  BY <1>1, <1>2, <1>3, FailedRequestStep DEF GetComputer

LEMMA PostLicenseStep ==
  ASSUME ClientInv, PostLicense
  PROVE  GoodStep
<1>1. Heard \in Report /\ UNCHANGED <<held, store, env>>
  BY TypeOfReport DEF PostLicense
<1>2. WorldInv'
  BY <1>1, CreatesOK DEF PostLicense, ClientInv
<1>3. CASE Proceed("getLicense", Heard, FALSE)
  BY <1>1, <1>2, <1>3, ProceedStep DEF Steps
<1>. QED
  BY <1>1, <1>2, <1>3, FailedRequestStep DEF PostLicense

LEMMA GetLicenseStep ==
  ASSUME ClientInv, GetLicense
  PROVE  GoodStep
<1>1. /\ WorldInv' /\ Heard \in Report /\ UNCHANGED <<store, server, env>>
      /\ now \in Nat /\ evalNow \in Nat
  BY WorldStays, TypeOfReport
  DEF GetLicense, ClientInv, WorldInv, WorldOK, HeldInv, HeldOK
<1>2. CASE /\ row # NoRow
           /\ Adopt(Sign(row, now), evalNow)
           /\ Proceed("save", Heard, FALSE) \/ RefreshSucceeds(Heard)
  <2>1. /\ Sign(row, now) \in Document /\ Sign(row, now).check = "OK"
        /\ StampedBy(Sign(row, now), now)
    BY <1>1, <1>2, SignOK DEF ClientInv
  <2>2. ControlOK'
    BY <1>1, <1>2, ProceedOK, RefreshSucceedsOK DEF ClientInv, Steps
  <2>. QED
    BY <1>1, <1>2, <2>1, <2>2, AdoptStep
<1>3. CASE UNCHANGED held /\ \E d \in ForeignDocs : RefreshFails(Failure(d.check, Heard))
  <2>1. PICK d \in ForeignDocs : RefreshFails(Failure(d.check, Heard))
    BY <1>3
  <2>. DEFINE f == Failure(d.check, Heard)
  <2>2. f.r \in CallErrors /\ f.report \in Report
    BY <1>1, ForeignDocsOK DEF Failure
  <2>. QED
    BY <1>1, <1>3, <2>1, <2>2, RefreshFailsStep
<1>4. CASE UNCHANGED held /\ \E f \in RequestFailures : RefreshFails(f)
  BY <1>1, <1>4, FailedRequestStep
<1>. QED
  BY <1>2, <1>3, <1>4 DEF GetLicense

LEMMA SaveLicenseStep ==
  ASSUME ClientInv, SaveLicense
  PROVE  GoodStep
<1>1. /\ report \in Report /\ UNCHANGED <<held, server, env>>
      /\ license # NoDoc /\ license \in Document /\ Verifies(license)
      /\ StampedBy(license, now)
  BY TypeOfReport
  DEF SaveLicense, ClientInv, HasWhatItNeeds, HeldInv, HeldOK, OnlyVerifiedHeld
<1>2. CASE store' = license /\ RefreshSucceeds(report)
  <2>1. ControlOK'
    BY <1>1, <1>2, RefreshSucceedsOK DEF ClientInv
  <2>2. HasWhatItNeeds'
    BY <1>1 DEF HasWhatItNeeds, held
  <2>3. WorldInv'
    BY <1>1, <1>2 DEF ClientInv, WorldInv, WorldOK, StampedBy, server, env
  <2>4. HeldInv' /\ UNCHANGED Holder!holderVars
    BY <1>1, HeldStays DEF ClientInv, WorldInv, WorldOK, env
  <2>. QED
    BY <1>1, <1>2, <2>1, <2>2, <2>3, <2>4 DEF GoodStep, ClientInv
<1>3. CASE UNCHANGED store /\ RefreshFails(Failure("E_STORAGE", report))
  <2>. DEFINE f == Failure("E_STORAGE", report)
  <2>1. f.r \in CallErrors /\ f.report \in Report
    BY <1>1 DEF Failure, CallErrors
  <2>2. WorldInv'
    BY <1>1, <1>3, WorldStays DEF ClientInv
  <2>. QED
    BY <1>1, <1>3, <2>1, <2>2, RefreshFailsStep
<1>. QED
  BY <1>2, <1>3 DEF SaveLicense
------------------------------------------------------------------------------
(* activate and deactivate                                                 *)

LEMMA PatchAcceptedStep ==
  ASSUME ClientInv, NEW id, PatchAccepted(id), UNCHANGED <<held, store, env>>
  PROVE  GoodStep
<1>1. WorldInv'
  BY PatchesOK DEF ClientInv, PatchAccepted
<1>2. ControlOK'
  BY PatchAcceptedOK DEF ClientInv
<1>3. pc' = "postComputer"
  BY DEF PatchAccepted, Goto
<1>. QED
  BY <1>1, <1>2, <1>3, RequestStep

LEMMA PatchFailsStep ==
  ASSUME ClientInv, NEW id, PatchFails(id), UNCHANGED <<held, store, env>>
  PROVE  GoodStep
<1>1. WorldInv'
  BY PatchesOK DEF ClientInv, PatchFails
<1>2. PICK f \in RequestFailures : Return(f.r, f.report)
  BY DEF PatchFails
<1>3. f.r \in Results /\ f.report \in Report
  BY RequestFailsOK DEF ClientInv
<1>. QED
  BY <1>1, <1>2, <1>3, ReturnStep

LEMMA PatchMissesStep ==
  ASSUME ClientInv, pc = "patch", PatchMisses, UNCHANGED <<held, store, env>>
  PROVE  GoodStep
<1>1. WorldInv'
  BY WorldStays DEF ClientInv, PatchMisses
<1>2. license.id \in Nat
  BY DEF ClientInv, HasWhatItNeeds, HeldInv, HeldOK, Document
<1>3. call' \in CallHistory
  BY CallEdits DEF PatchMisses, ClientInv, ControlOK
<1>4. ControlOK' /\ pc' = "postComputer"
  BY <1>2, <1>3, TypeOfReport DEF ClientInv, ControlOK, PatchMisses, Goto, Steps
<1>. QED
  BY <1>1, <1>4, RequestStep

LEMMA PatchSteps ==
  ASSUME ClientInv, PatchLicense \/ RePatchLicense
  PROVE  GoodStep
<1>1. CASE PatchLicense
  BY <1>1, PatchAcceptedStep, PatchFailsStep, PatchMissesStep DEF PatchLicense
<1>2. CASE RePatchLicense
  BY <1>2, PatchAcceptedStep, PatchFailsStep DEF RePatchLicense
<1>. QED
  BY <1>1, <1>2
------------------------------------------------------------------------------
(* hlm_client_import                                                       *)

LEMMA ImportedOK ==
  ASSUME WorldInv, NEW d \in ForeignDocs \cup HandFiles, Verifies(d)
  PROVE  d \in Document /\ d.check = "OK" /\ StampedBy(d, now)
  BY ForeignDocsOK, HandFilesOK DEF Verifies

LEMMA RefusalsOK ==
  ASSUME NEW c \in Checks
  PROVE  ImportRefusal(c) \in ImportRefusals
  BY DEF Checks, ImportRefusal, ImportRefusals

LEMMA ImportReturnsOK ==
  ASSUME ControlOK, NEW r \in Results, NEW rep \in Report, ImportReturns(r, rep)
  PROVE  ControlOK' /\ pc' = pc /\ UNCHANGED <<server, env>>
<1>1. freed' \in BOOLEAN
  BY Zenon DEF ImportReturns
<1>. QED
  BY <1>1 DEF ControlOK, ImportReturns

LEMMA ImportStep ==
  ASSUME ClientInv, NEW d \in ForeignDocs \cup HandFiles, Import(d)
  PROVE  GoodStep
<1>0. /\ pc = "idle" /\ ControlOK /\ WorldInv /\ report \in Report
      /\ ImportMessage \in Report /\ floor \in Nat
  BY ReportsOK DEF Import, ClientInv, ControlOK, HeldInv, HeldOK
<1>1. d.check \in Checks
  BY <1>0, ForeignDocsOK, HandFilesOK DEF Document
<1>2. CASE ImportRefused(d)
  <2>1. PICK r \in Results, rep \in Report : ImportReturns(r, rep)
    BY <1>0, <1>1, <1>2, RefusalsOK DEF ImportRefused, Results, ImportRefusals
  <2>2. ControlOK' /\ pc' = "idle" /\ UNCHANGED <<held, store, server, env>>
    BY <1>0, <1>2, <2>1, ImportReturnsOK DEF ImportRefused
  <2>3. WorldInv'
    BY <1>0, <2>2, WorldStays
  <2>. QED
    BY <2>2, <2>3, RequestStep
<1>3. CASE ImportInstalls(d)
  <2>1. PICK t \in LocalTimes : Adopt(d, ClampToFloor(t))
    BY <1>3 DEF ImportInstalls
  <2>2. ClampToFloor(t) \in Nat
    BY <1>0, ClientAssumption DEF ClampToFloor, LocalTimes
  <2>3. ControlOK' /\ UNCHANGED <<server, env>>
    BY <1>0, <1>3, ImportReturnsOK DEF ImportInstalls, Results
  <2>4. d \in Document /\ d.check = "OK" /\ StampedBy(d, now)
    BY <1>0, <1>3, ImportedOK DEF ImportInstalls
  <2>. QED
    BY <1>3, <2>1, <2>2, <2>3, <2>4, AdoptStep DEF ImportInstalls
<1>. QED
  BY <1>2, <1>3 DEF Import
------------------------------------------------------------------------------
(* The world                                                               *)

LEMMA TickStep ==
  ASSUME ClientInv, Tick
  PROVE  GoodStep
<1>1. /\ now \in Nat /\ now' = now + 1 /\ now' \in Nat /\ now' >= now
      /\ UNCHANGED <<cfg, held, pc, frame, ret, report, store, server, mishaps>>
  BY DEF Tick, ClientInv, WorldInv, WorldOK
<1>2. HeldInv' /\ UNCHANGED Holder!holderVars
  BY <1>1, HeldStays DEF ClientInv
<1>3. ControlOK' /\ HasWhatItNeeds'
  BY <1>1 DEF ClientInv, ControlOK, HasWhatItNeeds, frame, held
<1>4. WorldInv'
  <2>1. Verifies(store) => store.created \in Int /\ store.updated \in Int
    BY DEF ClientInv, WorldInv, WorldOK, Verifies, Document, Stamp, NoTime
  <2>2. row # NoRow => row.created \in Int /\ row.updated \in Int
    BY DEF ClientInv, WorldInv, WorldOK, Row, Stamp, NoTime
  <2>3. store' = store /\ row' = row /\ nextId' = nextId /\ mishaps' = mishaps
    BY <1>1 DEF server
  <2>4. Verifies(store') => StampedBy(store', now')
    BY <1>1, <2>1, <2>3 DEF ClientInv, WorldInv, Verifies, StampedBy
  <2>5. row' # NoRow => row'.created <= now' /\ row'.updated <= now'
    BY <1>1, <2>2, <2>3 DEF ClientInv, WorldInv
  <2>. QED
    BY <1>1, <2>3, <2>4, <2>5 DEF ClientInv, WorldInv, WorldOK
<1>. QED
  BY <1>1, <1>2, <1>3, <1>4 DEF GoodStep, ClientInv

LEMMA MishapOK ==
  ASSUME ClientInv, NEW kind, Mishap(kind)
  PROVE  mishaps' \in Nat
  BY DEF Mishap, ClientInv, WorldInv, WorldOK

LEMMA VendorEditsRowStep ==
  ASSUME ClientInv, VendorEditsRow
  PROVE  GoodStep
<1>1. /\ mishaps' \in Nat /\ row # NoRow /\ store' = store /\ nextId' = nextId
      /\ now \in Nat /\ now' = now /\ WorldInv /\ UNCHANGED held
  BY MishapOK DEF VendorEditsRow, ClientInv, WorldInv, WorldOK
<1>2. call' \in CallHistory
  <2>1. (pc # "idle") \in BOOLEAN
    OBVIOUS
  <2>. QED
    BY <2>1, CallEdits DEF VendorEditsRow, ClientInv, ControlOK
<1>3. ControlOK' /\ HasWhatItNeeds'
  BY <1>2 DEF VendorEditsRow, ClientInv, ControlOK, HasWhatItNeeds, held
<1>4. WorldInv'
  <2>1. CASE row' = NoRow
    BY <1>1, <2>1 DEF WorldInv, WorldOK, Verifies, StampedBy
  <2>2. ASSUME NEW c \in Codes \cup {NoCode}, row' = Attach(row, c, now)
        PROVE  WorldInv'
    BY <1>1, <2>2, EditsOK
  <2>. QED
    BY <2>1, <2>2 DEF VendorEditsRow
<1>5. HeldInv' /\ UNCHANGED Holder!holderVars
  BY <1>1, HeldStays DEF ClientInv
<1>. QED
  BY <1>1, <1>3, <1>4, <1>5 DEF GoodStep, ClientInv

LEMMA StoreChangesStep ==
  ASSUME ClientInv, StoreChanges
  PROVE  GoodStep
<1>1. /\ mishaps' \in Nat /\ now \in Nat /\ now' = now /\ WorldInv
      /\ UNCHANGED <<held, server>>
  BY MishapOK DEF StoreChanges, ClientInv, WorldInv, WorldOK
<1>2. ControlOK' /\ HasWhatItNeeds'
  BY DEF StoreChanges, ClientInv, ControlOK, HasWhatItNeeds, held
<1>3. /\ store' \in Document \cup {NoDoc}
      /\ Verifies(store') => StampedBy(store', now)
  BY <1>1, ForeignDocsOK, HandFilesOK DEF StoreChanges, Verifies
<1>4. WorldInv'
  BY <1>1, <1>3 DEF WorldInv, WorldOK, StampedBy, server
<1>5. HeldInv' /\ UNCHANGED Holder!holderVars
  BY <1>1, HeldStays DEF ClientInv
<1>. QED
  BY <1>2, <1>4, <1>5 DEF GoodStep, ClientInv

LEMMA RestartStep ==
  ASSUME ClientInv, Restart
  PROVE  GoodStep
<1>1. /\ mishaps' \in Nat /\ now \in Nat /\ now' = now /\ WorldInv /\ store' = store
      /\ UNCHANGED server
  BY MishapOK DEF Restart, ClientInv, WorldInv, WorldOK
<1>2. ControlOK' /\ HasWhatItNeeds'
  BY NoCallOK, ReportsOK
  DEF Restart, ClientInv, ControlOK, HasWhatItNeeds, Results
<1>3. HeldInv'
  <2>1. 0 <= now + Skew
    BY <1>1, ClientAssumption
  <2>. QED
    BY <1>1, <2>1
    DEF Restart, HeldInv, HeldOK, OnlyVerifiedHeld, Verifies, FloorIsSound, Statuses,
        StampedBy
<1>4. WorldInv'
  BY <1>1 DEF WorldInv, WorldOK, Verifies, StampedBy, server
<1>5. Holder!Forget
  BY DEF Restart, Holder!Forget
<1>. QED
  BY <1>1, <1>2, <1>3, <1>4, <1>5 DEF GoodStep, ClientInv, Holder!HolderNext
------------------------------------------------------------------------------
(* The specification                                                       *)

LEMMA InitOK == Init => ClientInv /\ Holder!HolderInit
<1>. SUFFICES ASSUME Init PROVE ClientInv /\ Holder!HolderInit
  OBVIOUS
<1>1. cfg \in SUBSET Ports
  BY ClientAssumption DEF Init
<1>2. ControlOK /\ HasWhatItNeeds
  BY <1>1, NoCallOK DEF Init, ControlOK, HasWhatItNeeds, Results, Report, NoReport
<1>3. HeldInv
  BY ClientAssumption
  DEF Init, HeldInv, HeldOK, OnlyVerifiedHeld, Verifies, FloorIsSound, Statuses, StampedBy
<1>4. WorldInv
  BY DEF Init, WorldInv, WorldOK, Verifies, StampedBy
<1>5. Holder!HolderInit
  BY DEF Init, Holder!HolderInit
<1>. QED
  BY <1>2, <1>3, <1>4, <1>5 DEF ClientInv

LEMMA StutterStep ==
  ASSUME ClientInv, UNCHANGED vars
  PROVE  GoodStep
<1>1. UNCHANGED <<cfg, held, pc, frame, ret, report, store, server, env>>
  BY DEF vars
<1>2. ControlOK' /\ WorldInv' /\ (pc' \notin {"save", "patch"} \/ license # NoDoc)
  BY <1>1, WorldStays DEF ClientInv, ControlOK, frame, HasWhatItNeeds
<1>. QED
  BY <1>1, <1>2, RequestStep

LEMMA EveryStepIsGood == ClientInv /\ [Next]_vars => GoodStep
<1>. SUFFICES ASSUME ClientInv, [Next]_vars PROVE GoodStep
  OBVIOUS
<1>1. CASE Step
  BY <1>1, TimeSteps, ReadCacheStep, PostComputerStep, GetComputerStep, PostLicenseStep,
     GetLicenseStep, SaveLicenseStep, PatchSteps DEF Step
<1>2. CASE Application
  BY <1>2, CallStep, ImportStep DEF Application
<1>3. CASE World
  BY <1>3, TickStep, VendorEditsRowStep, StoreChangesStep, RestartStep DEF World
<1>4. CASE UNCHANGED vars
  BY <1>4, StutterStep
<1>. QED
  BY <1>1, <1>2, <1>3, <1>4 DEF Next

(* In every reachable state the handle and the world are as ClientInv      *)
(* says; every step from there is a GoodStep.                              *)
THEOREM ClientInvariant == Spec => []ClientInv
<1>1. Init => ClientInv
  BY InitOK
<1>2. ClientInv /\ [Next]_vars => ClientInv'
  BY EveryStepIsGood DEF GoodStep
<1>. QED
  BY <1>1, <1>2, PTL DEF Spec

(* The variables of a handle keep to their types, whatever is called and   *)
(* whatever the network, the server, the file and the clocks do.           *)
THEOREM ClientTypeCorrect == Spec => []TypeOK
<1>1. ClientInv => TypeOK
  BY TypeSplit DEF ClientInv, HeldInv, WorldInv
<1>. QED
  BY <1>1, ClientInvariant, PTL

(* A handle never holds a document that failed verification.               *)
THEOREM ClientHoldsVerified == Spec => []OnlyVerifiedHeld
<1>1. ClientInv => OnlyVerifiedHeld
  BY DEF ClientInv, HeldInv
<1>. QED
  BY <1>1, ClientInvariant, PTL

(* The trusted-time floor never forgets a stamp of the held license and    *)
(* never runs ahead of real time by more than the timesync port's error.   *)
THEOREM ClientFloorIsSound == Spec => []FloorIsSound
<1>1. ClientInv => FloorIsSound
  BY DEF ClientInv, HeldInv
<1>. QED
  BY <1>1, ClientInvariant, PTL

(* The client writes nothing but verified documents to the cache.          *)
THEOREM ClientSavesVerified == Spec => OnlyVerifiedSaved
<1>1. ClientInv /\ [Next]_vars => [store' # store /\ ~StoreChanges => Verifies(store')]_vars
  BY EveryStepIsGood DEF GoodStep
<1>. QED
  BY <1>1, ClientInvariant, PTL DEF Spec, OnlyVerifiedSaved

(* The client implements LicenseHolder: with the license it holds, its     *)
(* status, the last evaluation time and the latest trusted time shown, its *)
(* every step is a step of a holder, or none.                              *)
THEOREM ClientIsAHolder == Spec => HoldsLikeAHolder
<1>1. Init => Holder!HolderInit
  BY InitOK
<1>2. ClientInv /\ [Next]_vars => [Holder!HolderNext]_(Holder!holderVars)
  BY EveryStepIsGood DEF GoodStep
<1>. QED
  BY <1>1, <1>2, ClientInvariant, PTL DEF Spec, HoldsLikeAHolder, Holder!HolderSpec

(* Winding the local clock back never resurrects a license.                *)
Resurrects ==
  /\ license' # NoDoc /\ <<license', status'>> # <<license, status>> /\ Usable(status')
  /\ Lapsed(license'.expires, seen')

LEMMA HolderStepsResurrectNothing ==
  ASSUME [Holder!HolderNext]_(Holder!holderVars)
  PROVE  ~Resurrects
<1>1. CASE Holder!AdoptVerified
  <2>1. SUFFICES ASSUME Usable(status') PROVE ~Lapsed(license'.expires, seen')
    BY DEF Resurrects
  <2>2. /\ license' \in Document /\ seen' \in Nat /\ evalNow' \in Nat
        /\ evalNow' >= seen' /\ status' = LicenseStatusOf(license', evalNow')
    BY <1>1, SameDocuments, SameVerdict DEF Holder!AdoptVerified
  <2>3. ~Lapsed(license'.expires, evalNow')
    BY <2>1, <2>2 DEF LicenseStatusOf, Usable
  <2>. QED
    BY <2>2, <2>3, LapsedStays DEF Document
<1>2. CASE Holder!LearnTime
  BY <1>2 DEF Holder!LearnTime, Resurrects
<1>3. CASE Holder!Forget
  BY <1>3 DEF Holder!Forget, Resurrects
<1>4. CASE UNCHANGED Holder!holderVars
  BY <1>4 DEF Holder!holderVars, Resurrects
<1>. QED
  BY <1>1, <1>2, <1>3, <1>4 DEF Holder!HolderNext

(* Whatever the local clock is set to, a verdict under which the           *)
(* application runs is reached only for a document that had not lapsed at  *)
(* any trusted time the handle was ever shown.                             *)
THEOREM ClientNeverResurrects == Spec => NoResurrection
<1>. DEFINE P == license' # NoDoc /\ <<license', status'>> # <<license, status>>
                   /\ Usable(status') => ~Lapsed(license'.expires, seen')
<1>1. ClientInv /\ [Next]_vars => [P]_vars
  <2>1. ClientInv /\ [Next]_vars => ~Resurrects
    BY EveryStepIsGood, HolderStepsResurrectNothing DEF GoodStep
  <2>. QED
    BY <2>1 DEF Resurrects
<1>. QED
  BY <1>1, ClientInvariant, PTL DEF Spec, NoResurrection

(* The held license can only get worse with time.                          *)
THEOREM ClientVerdictOnlyWorsens == Spec => []VerdictOnlyWorsens
<1>1. ASSUME ClientInv PROVE VerdictOnlyWorsens
  <2>. SUFFICES ASSUME license # NoDoc,
                       NEW t \in 0 .. MaxTime + ValidDays, NEW s \in 0 .. t,
                       Usable(LicenseStatusOf(license, t))
                PROVE  Usable(LicenseStatusOf(license, s))
    BY DEF VerdictOnlyWorsens
  <2>1. license \in Document
    BY <1>1 DEF ClientInv, HeldInv, HeldOK
  <2>2. t \in Nat /\ s \in Nat /\ s <= t
    BY ClientAssumption, ServerAssumption
  <2>. QED
    BY <2>1, <2>2, UsableBefore
<1>. QED
  BY <1>1, ClientInvariant, PTL

------------------------------------------------------------------------------
(* One call of the client.  First its course: which of its steps follows   *)
(* which, how long it can get, what it reports about the network when it   *)
(* returns, and what a check offline surfaces.  Then what activate,        *)
(* deactivate and refresh achieve on the server, in memory and in the      *)
(* file, whatever goes wrong around them.                                  *)

(* Which caller each step is reached from: check_internal alone reads the  *)
(* cache, and it leads to the first PATCH; only the refresh that a 404     *)
(* brought about leads to the second one; hlm_client_check sends none.     *)
CourseInv ==
  /\ pc \in {"time", "fetchTime"} /\ op # "refresh" => why = "check"
  /\ pc \in {"cache", "patch"} => why = "check"
  /\ pc = "rePatch" => why = "rotated"
  /\ op = "check" => why = "check" /\ pc \notin {"patch", "rePatch"}

(* NetworkDiagnosisIsCurrent alone is not inductive: a call begins, and    *)
(* writes its license, with no cause on record, and its return value is    *)
(* not set before it returns.                                              *)
DiagnosisInv ==
  /\ pc # "idle" => ret = "none"
  /\ pc \in {"time", "save"} => report.net = "None"
  /\ pc # "idle" /\ report.net # "None" => call.cut
  /\ ret = "E_HTTP" /\ Has("http") => report.net # "None" /\ report.err = "net"

CallInv == CourseInv /\ DiagnosisInv

(* How many steps of a call are left at most: the steps of one refresh     *)
(* before its save, and how many refreshes may follow this one.            *)
Position(step) ==
  CASE step = "time"         -> 8
    [] step = "fetchTime"    -> 7
    [] step = "cache"        -> 6
    [] step = "postComputer" -> 5
    [] step = "getComputer"  -> 4
    [] step = "postLicense"  -> 3
    [] step = "getLicense"   -> 2
    [] step = "save"         -> 1
    [] step \in {"patch", "rePatch"} -> 0

StillToCome(caller) ==
  CASE caller = "check" -> 12 [] caller = "rotated" -> 6 [] caller = "refresh" -> 0

StepsLeft == IF pc = "idle" THEN 0 ELSE StillToCome(why) + Position(pc)

(* Every step of a call leaves fewer to come, and nothing that happens     *)
(* around it brings more: a call takes at most 20 steps.                   *)
CallsAreShort ==
  /\ [](StepsLeft \in 0 .. 20)
  /\ [][/\ Step => StepsLeft' < StepsLeft
        /\ pc # "idle" => StepsLeft' <= StepsLeft]_vars

(* What is shown of every step.                                            *)
Surfaces == Returns /\ op = "check" /\ ret' \in {"E_HTTP", "E_NO_LICENSE"} => license' = NoDoc
Shorter  == /\ Step => StepsLeft' < StepsLeft
            /\ pc # "idle" => StepsLeft' <= StepsLeft
GoodCallStep == CallInv' /\ Surfaces /\ Shorter
------------------------------------------------------------------------------
(* The ways a step of a call can end                                       *)

LEMMA Positions ==
  /\ Position("time") = 8 /\ Position("fetchTime") = 7 /\ Position("cache") = 6
  /\ Position("postComputer") = 5 /\ Position("getComputer") = 4
  /\ Position("postLicense") = 3 /\ Position("getLicense") = 2 /\ Position("save") = 1
  /\ Position("patch") = 0 /\ Position("rePatch") = 0
  BY DEF Position

LEMMA PositionRange ==
  ASSUME NEW step \in Steps
  PROVE  Position(step) \in 0 .. 8 /\ (step \notin {"patch", "rePatch"} => Position(step) > 0)
  BY Positions DEF Steps

LEMMA StillToComeRange ==
  /\ StillToCome("check") = 12 /\ StillToCome("rotated") = 6 /\ StillToCome("refresh") = 0
  BY DEF StillToCome

LEMMA StepsLeftRange ==
  ASSUME ControlOK, CourseInv
  PROVE  StepsLeft \in 0 .. 20 /\ (pc # "idle" => StepsLeft > 0)
<1>1. CASE pc = "idle"
  BY <1>1 DEF StepsLeft
<1>2. CASE pc # "idle"
  <2>1. pc \in Steps /\ why \in {"check", "rotated", "refresh"}
    BY <1>2 DEF ControlOK
  <2>2. StillToCome(why) \in {12, 6, 0}
    BY <2>1, StillToComeRange
  <2>3. why = "refresh" => pc \notin {"patch", "rePatch"}
    BY DEF CourseInv
  <2>4. why = "refresh" \/ StillToCome(why) \in {12, 6}
    BY <2>1, StillToComeRange
  <2>. QED
    BY <1>2, <2>1, <2>2, <2>3, <2>4, PositionRange DEF StepsLeft
<1>. QED
  BY <1>1, <1>2

LEMMA ReturnsCall ==
  ASSUME ClientInv, CallInv, pc # "idle", NEW r, NEW rep \in Report, Return(r, rep),
         r = "E_HTTP" /\ Has("http") => rep.net # "None",
         op = "check" /\ r \in {"E_HTTP", "E_NO_LICENSE"} => license' = NoDoc
  PROVE  GoodCallStep
<1>1. /\ pc' = "idle" /\ ret' = r /\ report' = EndCall(r, rep) /\ op' = "none" /\ cfg' = cfg
  BY DEF Return
<1>2. CourseInv'
  BY <1>1 DEF CourseInv
<1>3. DiagnosisInv'
  <2>1. r = "E_HTTP" /\ Has("http")' => Has("http")
    BY <1>1 DEF Has
  <2>2. r = "E_HTTP" /\ rep.net # "None" => report'.net # "None" /\ report'.err = "net"
    BY <1>1 DEF EndCall, Report
  <2>. QED
    BY <1>1, <2>1, <2>2 DEF DiagnosisInv
<1>4. Surfaces
  BY <1>1 DEF Surfaces
<1>5. Shorter
  <2>1. StepsLeft' = 0
    BY <1>1 DEF StepsLeft
  <2>2. StepsLeft \in 0 .. 20 /\ StepsLeft > 0
    BY StepsLeftRange DEF ClientInv, CallInv
  <2>. QED
    BY <2>1, <2>2 DEF Shorter
<1>. QED
  BY <1>2, <1>3, <1>4, <1>5 DEF GoodCallStep, CallInv

(* The same caller's next step.                                            *)
LEMMA ProceedsCall ==
  ASSUME ClientInv, CallInv, pc # "idle",
         NEW step \in Steps \ {"time"}, NEW rep \in Report, NEW cut \in BOOLEAN,
         Proceed(step, rep, cut),
         rep.net # "None" => cut, step = "save" => rep.net = "None",
         step = "fetchTime" => why = "check" \/ op = "refresh",
         step \in {"cache", "patch"} => why = "check", step = "rePatch" => why = "rotated",
         step \in {"patch", "rePatch"} => op # "check",
         Position(step) < Position(pc)
  PROVE  GoodCallStep
<1>1. /\ pc' = step /\ ret' = ret /\ report' = rep /\ op' = op /\ why' = why /\ cfg' = cfg
      /\ call' = [call EXCEPT !.cut = cut]
  BY DEF Proceed, Goto
<1>2. call'.cut = cut
  BY <1>1 DEF ClientInv, ControlOK, CallHistory
<1>3. step # "idle"
  BY DEF Steps
<1>4. CourseInv'
  BY <1>1 DEF CallInv, CourseInv
<1>5. DiagnosisInv'
  BY <1>1, <1>2 DEF CallInv, DiagnosisInv
<1>6. Surfaces
  BY <1>1, <1>3 DEF Surfaces, Returns
<1>7. Shorter
  <2>1. StepsLeft' = StillToCome(why) + Position(step) /\ StepsLeft = StillToCome(why) + Position(pc)
    BY <1>1, <1>3 DEF StepsLeft
  <2>2. /\ StillToCome(why) \in {0, 6, 12} /\ pc \in Steps
        /\ Position(step) \in 0 .. 8 /\ Position(pc) \in 0 .. 8
    BY PositionRange, StillToComeRange DEF ClientInv, ControlOK
  <2>. QED
    BY <2>1, <2>2 DEF Shorter
<1>. QED
  BY <1>4, <1>5, <1>6, <1>7 DEF GoodCallStep, CallInv

LEMMA CheckSucceedsCall ==
  ASSUME ClientInv, CallInv, pc # "idle", pc \notin {"patch", "rePatch"}, why = "check",
         NEW rep \in Report, NEW cut \in BOOLEAN, CheckSucceeds(rep, cut),
         rep.net # "None" => cut
  PROVE  GoodCallStep
<1>1. "patch" \in Steps /\ Position("patch") = 0 /\ Position(pc) > 0
  BY PositionRange DEF Steps, Position, ClientInv, ControlOK
<1>. QED
  BY <1>1, ReturnsCall, ProceedsCall DEF CheckSucceeds

(* What is needed of a failure: a request without an answer left a cause.  *)
Diagnosed(f) == f.r = "E_HTTP" /\ Has("http") => f.report.net # "None"

LEMMA RequestDiagnosed ==
  ASSUME ClientInv, NEW f \in RequestFailures
  PROVE  /\ f.r \in {"E_HTTP", "E_AUTH", "E_API"} /\ f.report \in Report /\ Diagnosed(f)
         /\ f.report.net # "None" => f.r = "E_HTTP"
<1>1. f.r \in {"E_HTTP", "E_AUTH", "E_API"} /\ f.report \in Report
  BY FailuresOK DEF ClientInv, ControlOK
<1>2. CASE Has("http")
  <2>1. /\ Heard.net = "None" /\ Refused.net = "None"
        /\ \A n \in NetFailures : Cut(n).net = n /\ n # "None"
    BY ClientAssumption DEF Heard, Refused, Cut, Report, ClientInv, ControlOK
  <2>2. ASSUME NEW n \in NetFailures, f = Failure("E_HTTP", Cut(n))
        PROVE  f.r = "E_HTTP" /\ f.report.net # "None"
    <3>1. f.r = "E_HTTP" /\ f.report = Cut(n)
      BY <2>2 DEF Failure
    <3>. QED
      BY <2>1, <3>1
  <2>3. ASSUME NEW r \in {"E_AUTH", "E_API"}, NEW rep \in {Heard, Refused}, f = Failure(r, rep)
        PROVE  f.r # "E_HTTP" /\ f.report.net = "None"
    <3>1. f.r = r /\ f.report = rep
      BY <2>3 DEF Failure
    <3>. QED
      BY <2>1, <3>1
  <2>4. (f.r = "E_HTTP" /\ f.report.net # "None") \/ (f.r # "E_HTTP" /\ f.report.net = "None")
    BY <1>2, <2>2, <2>3 DEF RequestFailures
  <2>. QED
    BY <1>1, <2>4 DEF Diagnosed
<1>3. CASE ~Has("http")
  BY <1>1, <1>3 DEF RequestFailures, Failure, Diagnosed
<1>. QED
  BY <1>1, <1>2, <1>3

LEMMA RefreshFailsCall ==
  ASSUME ClientInv, CallInv, pc # "idle", pc \notin {"patch", "rePatch"}, license' = license,
         NEW f, f.r \in CallErrors, f.r # "E_NO_LICENSE", f.report \in Report, Diagnosed(f),
         RefreshFails(f)
  PROVE  GoodCallStep
<1>1. CASE /\ why = "check" /\ f.r = "E_HTTP" /\ license # NoDoc
           /\ CheckSucceeds(f.report, TRUE)
  BY <1>1, CheckSucceedsCall
<1>2. CASE /\ why = "check" /\ f.r = "E_HTTP" /\ license = NoDoc /\ ~Has("http")
           /\ Return("E_NO_LICENSE", f.report)
  BY <1>2, ReturnsCall
<1>3. CASE /\ ~(why = "check" /\ f.r = "E_HTTP" /\ (license # NoDoc \/ ~Has("http")))
           /\ Return(f.r, f.report)
  <2>1. op = "check" /\ f.r \in {"E_HTTP", "E_NO_LICENSE"} => license' = NoDoc
    BY <1>3 DEF CallInv, CourseInv
  <2>. QED
    BY <1>3, <2>1, ReturnsCall DEF Diagnosed
<1>. QED
  BY <1>1, <1>2, <1>3 DEF RefreshFails

LEMMA RequestFailsCall ==
  ASSUME ClientInv, CallInv, pc # "idle", pc \notin {"patch", "rePatch"}, license' = license,
         \E f \in RequestFailures : RefreshFails(f)
  PROVE  GoodCallStep
<1>1. PICK f \in RequestFailures : RefreshFails(f)
  OBVIOUS
<1>2. f.r \in CallErrors /\ f.r # "E_NO_LICENSE" /\ f.report \in Report /\ Diagnosed(f)
  BY RequestDiagnosed DEF CallErrors
<1>. QED
  BY <1>1, <1>2, RefreshFailsCall

LEMMA RefreshSucceedsCall ==
  ASSUME ClientInv, CallInv, pc # "idle", pc \notin {"patch", "rePatch"},
         NEW rep \in Report, rep.net = "None", RefreshSucceeds(rep)
  PROVE  GoodCallStep
<1>1. CASE why = "check" /\ CheckSucceeds(rep, FALSE)
  BY <1>1, CheckSucceedsCall
<1>2. CASE why = "rotated" /\ Proceed("rePatch", rep, FALSE)
  <2>1. "rePatch" \in Steps /\ Position("rePatch") = 0 /\ Position(pc) > 0
    BY PositionRange DEF Steps, Position, ClientInv, ControlOK
  <2>2. op # "check"
    BY <1>2 DEF CallInv, CourseInv
  <2>. QED
    BY <1>2, <2>1, <2>2, ProceedsCall
<1>3. CASE why = "refresh" /\ Return("OK", rep)
  BY <1>3, ReturnsCall
<1>. QED
  BY <1>1, <1>2, <1>3 DEF RefreshSucceeds
------------------------------------------------------------------------------
(* The steps of a call                                                     *)

LEMMA HeardNothingCut == ClientInv => Heard \in Report /\ Heard.net = "None"
  BY ReportsOK DEF ClientInv, ControlOK, Heard, Report

(* The time is known, or has to do: on to the first step of the call.      *)
LEMMA FirstStepCall ==
  ASSUME ClientInv, CallInv, pc \in {"time", "fetchTime"},
         NEW rep \in Report, NEW cut \in BOOLEAN, Proceed(FirstStep, rep, cut),
         rep.net # "None" => cut
  PROVE  GoodCallStep
<1>1. /\ FirstStep \in {"postComputer", "cache", "patch"} /\ FirstStep \in Steps
      /\ FirstStep \in {"cache", "patch"} => why = "check"
      /\ FirstStep = "patch" => op # "check"
  BY DEF FirstStep, Steps, CallInv, CourseInv
<1>2. Position(FirstStep) < Position(pc)
  BY <1>1 DEF Position
<1>. QED
  BY <1>1, <1>2, ProceedsCall

LEMMA TimeCall ==
  ASSUME ClientInv, CallInv,
         TimesyncAnswers \/ TimesyncUnavailable \/ NoTrustedSource \/ FetchTime
  PROVE  GoodCallStep
<1>0. report \in Report /\ (pc = "time" => report.net = "None")
  BY DEF ClientInv, ControlOK, CallInv, DiagnosisInv
<1>1. CASE TimesyncAnswers \/ NoTrustedSource
  BY <1>0, <1>1, FirstStepCall DEF TimesyncAnswers, NoTrustedSource, UseTrusted, UseLocal
<1>2. CASE TimesyncUnavailable
  <2>1. "fetchTime" \in Steps /\ Position("fetchTime") < Position("time")
    BY DEF Steps, Position
  <2>2. why = "check" \/ op = "refresh"
    BY <1>2 DEF TimesyncUnavailable, CallInv, CourseInv
  <2>. QED
    BY <1>0, <1>2, <2>1, <2>2, ProceedsCall DEF TimesyncUnavailable
<1>3. CASE FetchTime
  <2>1. CASE UseTrusted(now, Heard, FALSE) \/ UseLocal(Heard, FALSE)
    BY <1>3, <2>1, HeardNothingCut, FirstStepCall DEF FetchTime, UseTrusted, UseLocal
  <2>2. ASSUME NEW f \in RequestFailures, UseLocal(f.report, f.r = "E_HTTP")
        PROVE  GoodCallStep
    <3>1. /\ f.report \in Report /\ (f.r = "E_HTTP") \in BOOLEAN
          /\ f.report.net # "None" => f.r = "E_HTTP"
      BY RequestDiagnosed
    <3>. QED
      BY <1>3, <2>2, <3>1, FirstStepCall DEF FetchTime, UseLocal
  <2>. QED
    BY <1>3, <2>1, <2>2 DEF FetchTime
<1>. QED
  BY <1>1, <1>2, <1>3

LEMMA ReadCacheCall ==
  ASSUME ClientInv, CallInv, ReadCache
  PROVE  GoodCallStep
<1>1. /\ pc = "cache" /\ why = "check" /\ report \in Report /\ call.cut \in BOOLEAN
      /\ report.net # "None" => call.cut
  BY DEF ReadCache, ClientInv, ControlOK, CallHistory, CallInv, CourseInv, DiagnosisInv
<1>2. CASE CheckSucceeds(report, call.cut)
  BY <1>1, <1>2, CheckSucceedsCall
<1>3. CASE Proceed("postComputer", report, call.cut)
  <2>1. "postComputer" \in Steps /\ Position("postComputer") < Position("cache")
    BY DEF Steps, Position
  <2>. QED
    BY <1>1, <1>3, <2>1, ProceedsCall
<1>. QED
  BY <1>2, <1>3 DEF ReadCache

(* One request of refresh_internal was answered: on to the next.           *)
LEMMA AnsweredCall ==
  ASSUME ClientInv, CallInv, pc # "idle",
         NEW step \in {"getComputer", "postLicense", "getLicense", "save"},
         Position(step) < Position(pc), Proceed(step, Heard, FALSE)
  PROVE  GoodCallStep
<1>1. step \in Steps
  BY DEF Steps
<1>. QED
  BY <1>1, HeardNothingCut, ProceedsCall

LEMMA PostComputerCall ==
  ASSUME ClientInv, CallInv, PostComputer
  PROVE  GoodCallStep
<1>1. pc = "postComputer" /\ license' = license
  BY DEF PostComputer, held
<1>2. Position("getComputer") < Position("postComputer")
  BY DEF Position
<1>. QED
  BY <1>1, <1>2, AnsweredCall, RequestFailsCall DEF PostComputer

LEMMA GetComputerCall ==
  ASSUME ClientInv, CallInv, GetComputer
  PROVE  GoodCallStep
<1>1. pc = "getComputer" /\ license' = license
  BY DEF GetComputer, held
<1>2. Position("postLicense") < Position("getComputer")
  BY DEF Position
<1>3. CASE RefreshFails(Failure("E_FORMAT", Heard))
  <2>. DEFINE f == Failure("E_FORMAT", Heard)
  <2>1. /\ f.r \in CallErrors /\ f.r # "E_NO_LICENSE" /\ f.report \in Report /\ Diagnosed(f)
    BY HeardNothingCut DEF Failure, CallErrors, Checks, Diagnosed
  <2>2. RefreshFails(f)
    BY <1>3
  <2>. HIDE DEF f
  <2>. QED
    BY <1>1, <2>1, <2>2, RefreshFailsCall
<1>. QED
  BY <1>1, <1>2, <1>3, AnsweredCall, RequestFailsCall DEF GetComputer

LEMMA PostLicenseCall ==
  ASSUME ClientInv, CallInv, PostLicense
  PROVE  GoodCallStep
<1>1. pc = "postLicense" /\ license' = license
  BY DEF PostLicense, held
<1>2. Position("getLicense") < Position("postLicense")
  BY DEF Position
<1>. QED
  BY <1>1, <1>2, AnsweredCall, RequestFailsCall DEF PostLicense

LEMMA GetLicenseCall ==
  ASSUME ClientInv, CallInv, GetLicense
  PROVE  GoodCallStep
<1>1. pc = "getLicense"
  BY DEF GetLicense
<1>2. Position("save") < Position("getLicense")
  BY DEF Position
<1>3. CASE Proceed("save", Heard, FALSE)
  BY <1>1, <1>2, <1>3, AnsweredCall
<1>4. CASE RefreshSucceeds(Heard)
  BY <1>1, <1>4, HeardNothingCut, RefreshSucceedsCall
<1>5. ASSUME NEW d \in ForeignDocs, RefreshFails(Failure(d.check, Heard)), UNCHANGED held
      PROVE  GoodCallStep
  <2>. DEFINE f == Failure(d.check, Heard)
  <2>1. f.r = d.check /\ f.report = Heard
    BY DEF Failure
  <2>2. d.check \in CallErrors /\ d.check \notin {"E_NO_LICENSE", "E_HTTP"}
    BY ForeignDocsOK DEF Document, Checks
  <2>3. RefreshFails(f) /\ license' = license
    BY <1>5 DEF held
  <2>4. Diagnosed(f)
    BY <2>1, <2>2 DEF Diagnosed
  <2>. HIDE DEF f
  <2>. QED
    BY <1>1, <2>1, <2>2, <2>3, <2>4, HeardNothingCut, RefreshFailsCall
<1>6. CASE (\E f \in RequestFailures : RefreshFails(f)) /\ UNCHANGED held
  BY <1>1, <1>6, RequestFailsCall DEF held
<1>. QED
  BY <1>3, <1>4, <1>5, <1>6 DEF GetLicense

LEMMA SaveLicenseCall ==
  ASSUME ClientInv, CallInv, SaveLicense
  PROVE  GoodCallStep
<1>1. pc = "save" /\ license' = license /\ report \in Report /\ report.net = "None"
  BY DEF SaveLicense, held, CallInv, DiagnosisInv, ClientInv, ControlOK
<1>2. CASE RefreshSucceeds(report)
  BY <1>1, <1>2, RefreshSucceedsCall
<1>3. CASE RefreshFails(Failure("E_STORAGE", report))
  <2>. DEFINE f == Failure("E_STORAGE", report)
  <2>1. /\ f.r \in CallErrors /\ f.r # "E_NO_LICENSE" /\ f.report \in Report /\ Diagnosed(f)
    BY <1>1 DEF Failure, CallErrors, Diagnosed
  <2>2. RefreshFails(f)
    BY <1>3
  <2>. HIDE DEF f
  <2>. QED
    BY <1>1, <2>1, <2>2, RefreshFailsCall
<1>. QED
  BY <1>2, <1>3 DEF SaveLicense

(* A PATCH was answered, by 200 or by 404: a refresh follows, for another  *)
(* caller.                                                                 *)
LEMMA PatchedCall ==
  ASSUME ClientInv, CallInv,
         pc \in {"patch", "rePatch"},
         why' = "refresh" \/ (why' = "rotated" /\ pc = "patch"),
         Goto("postComputer", Heard), call'.cut = FALSE
  PROVE  GoodCallStep
<1>1. /\ pc' = "postComputer" /\ ret' = ret /\ report' = Heard /\ op' = op /\ cfg' = cfg
      /\ Heard.net = "None"
  BY HeardNothingCut DEF Goto
<1>2. op # "check" /\ why = IF pc = "patch" THEN "check" ELSE "rotated"
  BY DEF CallInv, CourseInv
<1>3. CourseInv' /\ DiagnosisInv'
  BY <1>1, <1>2 DEF CallInv, CourseInv, DiagnosisInv
<1>4. Surfaces
  BY <1>1 DEF Surfaces, Returns
<1>5. Shorter
  <2>1. StepsLeft' = StillToCome(why') + 5 /\ StepsLeft = StillToCome(why) + 0
    BY <1>1 DEF StepsLeft, Position
  <2>. QED
    BY <1>2, <2>1, StillToComeRange DEF Shorter
<1>. QED
  BY <1>3, <1>4, <1>5 DEF GoodCallStep, CallInv

LEMMA PatchFailsCall ==
  ASSUME ClientInv, CallInv, pc \in {"patch", "rePatch"}, NEW id, PatchFails(id)
  PROVE  GoodCallStep
<1>1. PICK f \in RequestFailures : Return(f.r, f.report)
  BY DEF PatchFails
<1>2. f.report \in Report /\ Diagnosed(f) /\ op # "check"
  BY RequestDiagnosed DEF CallInv, CourseInv
<1>. QED
  BY <1>1, <1>2, ReturnsCall DEF Diagnosed

LEMMA PatchCall ==
  ASSUME ClientInv, CallInv, PatchLicense \/ RePatchLicense
  PROVE  GoodCallStep
<1>1. /\ [call EXCEPT !.cut = FALSE].cut = FALSE
      /\ [call EXCEPT !.cut = FALSE, !.accepted = TRUE, !.disturbed = FALSE].cut = FALSE
  BY DEF ClientInv, ControlOK, CallHistory
<1>2. ASSUME NEW id, pc \in {"patch", "rePatch"}, PatchAccepted(id)
      PROVE  GoodCallStep
  BY <1>1, <1>2, PatchedCall DEF PatchAccepted
<1>3. ASSUME pc = "patch", PatchMisses
      PROVE  GoodCallStep
  <2>1. /\ pc = "patch" /\ pc \in {"patch", "rePatch"} /\ why' = "rotated"
        /\ Goto("postComputer", Heard) /\ call'.cut = FALSE
    BY <1>1, <1>3 DEF PatchMisses
  <2>. QED
    BY <2>1, PatchedCall
<1>4. CASE PatchLicense
  BY <1>2, <1>3, <1>4, PatchFailsCall DEF PatchLicense
<1>5. CASE RePatchLicense
  BY <1>2, <1>5, PatchFailsCall DEF RePatchLicense
<1>. QED
  BY <1>4, <1>5

LEMMA StepCall ==
  ASSUME ClientInv, CallInv, Step
  PROVE  GoodCallStep
  BY TimeCall, ReadCacheCall, PostComputerCall, GetComputerCall, PostLicenseCall,
     GetLicenseCall, SaveLicenseCall, PatchCall DEF Step
------------------------------------------------------------------------------
(* The application and the world                                           *)

LEMMA BeginsCall ==
  ASSUME ClientInv, CallInv, NEW o \in Calls, Call(o), ~Step
  PROVE  GoodCallStep
<1>1. /\ pc = "idle" /\ pc' = "time" /\ op' = o /\ ret' = "none" /\ report' = BeginCall(report)
      /\ why' = IF o = "refresh" THEN "refresh" ELSE "check"
  BY DEF Call
<1>2. report'.net = "None"
  BY <1>1 DEF BeginCall, Report, ClientInv, ControlOK
<1>3. CourseInv' /\ DiagnosisInv'
  BY <1>1, <1>2 DEF CourseInv, DiagnosisInv
<1>. QED
  BY <1>1, <1>3 DEF GoodCallStep, CallInv, Surfaces, Returns, Shorter

LEMMA ImportCall ==
  ASSUME ClientInv, CallInv, NEW d \in ForeignDocs \cup HandFiles, Import(d), ~Step
  PROVE  GoodCallStep
<1>1. d.check \in Checks
  BY ForeignDocsOK, HandFilesOK DEF Document, ClientInv
<1>2. ImportRefusal(d.check) # "E_HTTP"
  BY <1>1, RefusalsOK DEF ImportRefusals
<1>3. \E r, rep : ImportReturns(r, rep) /\ r # "E_HTTP"
  BY <1>2 DEF Import, ImportRefused, ImportInstalls
<1>4. pc = "idle" /\ ret' # "E_HTTP" /\ UNCHANGED <<pc, op, why>>
  BY <1>3 DEF Import, ImportReturns
<1>5. CourseInv' /\ DiagnosisInv'
  BY <1>4 DEF CallInv, CourseInv, DiagnosisInv
<1>. QED
  BY <1>4, <1>5 DEF GoodCallStep, CallInv, Surfaces, Returns, Shorter

(* What happens around a call does not move it.                            *)
LEMMA AroundCall ==
  ASSUME ClientInv, CallInv, UNCHANGED <<cfg, pc, op, why, ret, report>>, call'.cut = call.cut \/ pc = "idle",
         ~Step
  PROVE  GoodCallStep
<1>1. StepsLeft' = StepsLeft
  BY DEF StepsLeft
<1>2. StepsLeft' <= StepsLeft
  BY <1>1, StepsLeftRange DEF ClientInv, CallInv
<1>3. CallInv'
  BY DEF CallInv, CourseInv, DiagnosisInv, Has
<1>. QED
  BY <1>2, <1>3 DEF GoodCallStep, Surfaces, Returns, Shorter

LEMMA WorldCall ==
  ASSUME ClientInv, CallInv, World, ~Step
  PROVE  GoodCallStep
<1>1. CASE Tick
  <2>1. UNCHANGED <<cfg, pc, op, why, ret, report>> /\ call' = call
    BY <1>1 DEF Tick, frame
  <2>. QED
    BY <2>1, AroundCall
<1>2. CASE VendorEditsRow
  <2>1. [call EXCEPT !.disturbed = (pc # "idle")].cut = call.cut
    BY DEF ClientInv, ControlOK, CallHistory
  <2>2. UNCHANGED <<cfg, pc, op, why, ret, report>> /\ call'.cut = call.cut
    BY <1>2, <2>1 DEF VendorEditsRow
  <2>. QED
    BY <2>2, AroundCall
<1>3. CASE StoreChanges
  <2>1. UNCHANGED <<cfg, pc, op, why, ret, report>> /\ call' = call
    BY <1>3 DEF StoreChanges
  <2>. QED
    BY <2>1, AroundCall
<1>4. CASE Restart
  <2>1. pc' = "idle" /\ op' = "none" /\ ret' = "none"
    BY <1>4 DEF Restart
  <2>2. StepsLeft' = 0 /\ StepsLeft \in 0 .. 20
    BY <2>1, StepsLeftRange DEF StepsLeft, ClientInv, CallInv
  <2>3. CourseInv' /\ DiagnosisInv'
    BY <2>1 DEF CourseInv, DiagnosisInv
  <2>. QED
    BY <2>1, <2>2, <2>3 DEF GoodCallStep, CallInv, Surfaces, Returns, Shorter
<1>. QED
  BY <1>1, <1>2, <1>3, <1>4 DEF World
------------------------------------------------------------------------------
(* The specification                                                       *)

LEMMA CallInit == Init => CallInv
  BY DEF Init, CallInv, CourseInv, DiagnosisInv

LEMMA EveryStepKeepsCourse == ClientInv /\ CallInv /\ [Next]_vars => GoodCallStep
<1>. SUFFICES ASSUME ClientInv, CallInv, [Next]_vars PROVE GoodCallStep
  OBVIOUS
<1>1. CASE Step
  BY <1>1, StepCall
<1>2. CASE Application /\ ~Step
  BY <1>2, BeginsCall, ImportCall DEF Application
<1>3. CASE World /\ ~Step
  BY <1>3, WorldCall
<1>4. CASE UNCHANGED vars /\ ~Step
  <2>1. UNCHANGED <<cfg, pc, op, why, ret, report>> /\ call' = call
    BY <1>4 DEF vars, frame
  <2>. QED
    BY <1>4, <2>1, AroundCall
<1>. QED
  BY <1>1, <1>2, <1>3, <1>4 DEF Next

(* In every reachable state the call is on its course and its diagnosis is *)
(* as CallInv says; every step from there is a GoodCallStep.               *)
THEOREM CallInvariant == Spec => []CallInv
<1>1. ClientInv /\ CallInv /\ [Next]_vars => CallInv'
  BY EveryStepKeepsCourse DEF GoodCallStep
<1>. QED
  BY <1>1, CallInit, ClientInvariant, PTL DEF Spec

(* A cause of network failure is on record only while this call's last     *)
(* request got no answer, and a call that returned HLM_E_HTTP left a cause *)
(* and the end-user message for it (begin_call, send_req, end_call).       *)
THEOREM CallDiagnosisIsCurrent == Spec => []NetworkDiagnosisIsCurrent
<1>1. CallInv => NetworkDiagnosisIsCurrent
  BY DEF CallInv, DiagnosisInv, NetworkDiagnosisIsCurrent
<1>. QED
  BY <1>1, CallInvariant, PTL

(* hlm_client_check reports a transport failure only when there is no      *)
(* license to report on (check_internal).                                  *)
THEOREM CallSurfacesTheLicense == Spec => OfflineSurfacesTheLicense
<1>1. ClientInv /\ CallInv /\ [Next]_vars
        => [(Returns /\ op = "check" /\ ret' \in {"E_HTTP", "E_NO_LICENSE"})
              => license' = NoDoc]_vars
  BY EveryStepKeepsCourse DEF GoodCallStep, Surfaces
<1>. QED
  BY <1>1, CallInvariant, ClientInvariant, PTL DEF Spec, OfflineSurfacesTheLicense

(* No call can go on for ever: whatever the server answers, each step of a *)
(* call brings its end nearer and nothing around it moves it away; the     *)
(* longest, an activation whose license the server had rotated away, takes *)
(* 20 steps.  (That a step is always taken is fairness, which is checked   *)
(* as CallsReturn.)                                                        *)
THEOREM CallsTakeTwentySteps == Spec => CallsAreShort
<1>1. ClientInv /\ CallInv => StepsLeft \in 0 .. 20
  BY StepsLeftRange DEF ClientInv, CallInv
<1>2. ClientInv /\ CallInv /\ [Next]_vars
        => [/\ Step => StepsLeft' < StepsLeft
            /\ pc # "idle" => StepsLeft' <= StepsLeft]_vars
  BY EveryStepKeepsCourse DEF GoodCallStep, Shorter
<1>. QED
  BY <1>1, <1>2, CallInvariant, ClientInvariant, PTL DEF Spec, CallsAreShort

(* The license in use and the file a new process starts from are the same  *)
(* after every step, or the write is still to come, or it failed and the   *)
(* call says HLM_E_STORAGE: get_signed_license adopts before it writes,    *)
(* hlm_client_import writes before it adopts, and neither leaves the other *)
(* half undone in silence.                                                 *)
THEOREM OnlyReportsPartThem == Spec => OnlyAReportPartsThem
<1>. DEFINE Together == license = store \/ pc = "save"
            Kept     == license' = store' \/ pc' = "save" \/ ret' = "E_STORAGE"
<1>1. ASSUME Has("write"), Together, Step
      PROVE  Kept
  <2>1. CASE SaveLicense
    <3>1. license' = license
      BY <2>1 DEF SaveLicense, held
    <3>2. ASSUME RefreshFails(Failure("E_STORAGE", report))
          PROVE  ret' = "E_STORAGE"
      BY <3>2 DEF RefreshFails, Failure, Return
    <3>. QED
      BY <2>1, <3>1, <3>2 DEF SaveLicense
  <2>2. CASE GetLicense
    <3>1. CASE UNCHANGED held
      BY <1>1, <2>2, <3>1 DEF GetLicense, held
    <3>2. CASE Proceed("save", Heard, FALSE)
      BY <3>2 DEF Proceed, Goto
    <3>. QED
      BY <1>1, <2>2, <3>1, <3>2 DEF GetLicense
  <2>3. CASE ReadCache
    <3>1. CASE UNCHANGED held
      BY <1>1, <2>3, <3>1 DEF ReadCache, held
    <3>2. CASE Adopt(store, evalNow)
      BY <2>3, <3>2 DEF ReadCache, Adopt
    <3>. QED
      BY <2>3, <3>1, <3>2 DEF ReadCache
  <2>4. CASE TimesyncAnswers \/ TimesyncUnavailable \/ NoTrustedSource \/ FetchTime
    BY <1>1, <2>4 DEF TimesyncAnswers, TimesyncUnavailable, NoTrustedSource, FetchTime,
                      UseTrusted, UseLocal, held
  <2>5. CASE PostComputer \/ GetComputer \/ PostLicense \/ PatchLicense \/ RePatchLicense
    BY <1>1, <2>5 DEF PostComputer, GetComputer, PostLicense, PatchLicense, RePatchLicense, held
  <2>. QED
    BY <1>1, <2>1, <2>2, <2>3, <2>4, <2>5 DEF Step
<1>2. ASSUME Together, Application
      PROVE  Kept
  <2>1. ASSUME NEW o \in Calls, Call(o)
        PROVE  Kept
    BY <1>2, <2>1 DEF Call, held
  <2>2. ASSUME NEW d, Import(d)
        PROVE  Kept
    BY <1>2, <2>2 DEF Import, ImportRefused, ImportInstalls, Adopt, held
  <2>. QED
    BY <1>2, <2>1, <2>2 DEF Application
<1>3. ASSUME Together, Tick \/ VendorEditsRow
      PROVE  Kept
  BY <1>3 DEF Tick, VendorEditsRow, held
<1>4. [Next]_vars => [(Has("write") /\ Together /\ ~StoreChanges /\ ~Restart) => Kept]_vars
  <2>. HIDE DEF Together, Kept
  <2>. QED
    BY <1>1, <1>2, <1>3 DEF Next, World
<1>. QED
  BY <1>4, PTL DEF Spec, OnlyAReportPartsThem

------------------------------------------------------------------------------

MatchesRow(d) == /\ row # NoRow
                 /\ d.id = row.id /\ d.code = row.code /\ d.updated = row.updated

SignedDuringCall(d) == d.expires >= call.began + ValidDays

(* While nobody else touches the row, it carries what this call's PATCH    *)
(* said; the refresh that returns to activate or deactivate is the one     *)
(* after the PATCH.                                                        *)
PatchInv ==
  /\ why = "refresh" /\ op # "refresh" => call.accepted
  /\ op \in {"activate", "deactivate"} /\ call.accepted /\ ~call.disturbed
       => row # NoRow /\ row.code = PatchedCode
  /\ pc = "idle" => op = "none"

(* The license about to be saved is the one this call was just given.      *)
SaveInv ==
  pc = "save" => /\ SignedDuringCall(license)
                 /\ ~call.disturbed => MatchesRow(license)

(* While a seat is freed nothing can bring the code back: not the call in  *)
(* progress, and not the row, which a later refresh will sign.             *)
FreedInv ==
  /\ freed => op # "activate" /\ (row # NoRow => row.code = NoCode)
  /\ FreedSeatStaysFreed

SeatInv == call.began <= now /\ PatchInv /\ SaveInv /\ FreedInv

(* What the properties of the seat say of a step.                          *)
Fresh == /\ license'.expires >= call.began + ValidDays
         /\ Has("write") => store' = license'
Moved == /\ call.accepted
         /\ ~call.disturbed =>
              license'.code = IF op = "activate" THEN ActCode ELSE NoCode
Matching == ~call.disturbed => /\ row # NoRow
                               /\ license'.id = row.id /\ license'.code = row.code
                               /\ license'.updated = row.updated
GoodReturn ==
  /\ ReturnsOK /\ op \in {"refresh", "activate", "deactivate"} => Fresh /\ Matching
  /\ ReturnsOK /\ op \in {"activate", "deactivate"} => Moved

GoodSeatStep == SeatInv' /\ GoodReturn

(* What holds of the world around the ends of requests and calls: nothing  *)
(* comes to be held or saved that brings a freed code back, and the row is *)
(* left alone, created or patched by this call.                            *)
Clean(d) == freed /\ Has("write") /\ Verifies(d) => d.code = NoCode
CleanStep ==
  /\ Clean(license') /\ Clean(store')
  /\ UNCHANGED env
  /\ \/ row' = row
     \/ row = NoRow /\ row'.code = NoCode
     \/ row # NoRow /\ row' # NoRow /\ row'.code = PatchedCode
------------------------------------------------------------------------------
(* The ways a step can end                                                 *)

LEMMA CallKept ==
  ASSUME call \in CallHistory, NEW b, call' = [call EXCEPT !.cut = b]
  PROVE  /\ call'.began = call.began
         /\ call'.accepted = call.accepted
         /\ call'.disturbed = call.disturbed
  BY DEF CallHistory

LEMMA ProceedsSeat ==
  ASSUME ClientInv, SeatInv, CleanStep,
         NEW step, step \notin {"save", "idle"}, NEW rep, NEW cut, Proceed(step, rep, cut)
  PROVE  GoodSeatStep
<1>1. /\ pc' = step /\ op' = op /\ freed' = freed /\ why' = why /\ cfg' = cfg
      /\ call' = [call EXCEPT !.cut = cut]
  BY DEF Proceed, Goto
<1>2. /\ call'.began = call.began /\ call'.accepted = call.accepted
      /\ call'.disturbed = call.disturbed
  BY <1>1, CallKept DEF ClientInv, ControlOK
<1>3. call'.began <= now'
  BY <1>2 DEF CleanStep, env, SeatInv
<1>4. PatchInv'
  BY <1>1, <1>2 DEF CleanStep, SeatInv, PatchInv, PatchedCode
<1>5. SaveInv' /\ GoodReturn
  BY <1>1 DEF SaveInv, GoodReturn, ReturnsOK, Returns
<1>6. FreedInv'
  BY <1>1
  DEF CleanStep, Clean, SeatInv, FreedInv, FreedSeatStaysFreed, Has, Verifies, PatchedCode
<1>. QED
  BY <1>3, <1>4, <1>5, <1>6 DEF GoodSeatStep, SeatInv

LEMMA IdleInv ==
  ASSUME ClientInv, UNCHANGED env, pc' = "idle", op' = "none", why' = "check",
         call' = NoCall
  PROVE  call'.began <= now' /\ PatchInv' /\ SaveInv'
<1>1. call'.began = 0 /\ now' \in Nat
  BY DEF NoCall, Began, ClientInv, WorldInv, WorldOK, env
<1>. QED
  BY <1>1 DEF PatchInv, SaveInv

(* A call that fails, or a check, returns.                                 *)
LEMMA ReturnsSeat ==
  ASSUME ClientInv, SeatInv, CleanStep,
         NEW r, NEW rep, r # "OK" \/ op = "check", Return(r, rep)
  PROVE  GoodSeatStep
<1>1. /\ pc' = "idle" /\ ret' = r /\ op' = "none" /\ why' = "check" /\ call' = NoCall
      /\ cfg' = cfg /\ freed' = freed
  <2>1. freed' = (freed \/ (op = "deactivate" /\ r = "OK" /\ ~call.disturbed))
    BY DEF Return
  <2>2. freed \in BOOLEAN /\ ~(op = "deactivate" /\ r = "OK")
    BY DEF ClientInv, ControlOK
  <2>3. freed' = freed
    BY <2>1, <2>2, Zenon
  <2>. QED
    BY <2>3 DEF Return
<1>2. call'.began <= now' /\ PatchInv' /\ SaveInv'
  BY <1>1, IdleInv DEF CleanStep
<1>3. FreedInv'
  BY <1>1
  DEF CleanStep, Clean, SeatInv, FreedInv, FreedSeatStaysFreed, Has, Verifies, PatchedCode
<1>4. GoodReturn
  BY <1>1 DEF GoodReturn, ReturnsOK
<1>. QED
  BY <1>2, <1>3, <1>4 DEF GoodSeatStep, SeatInv

(* The refresh that ends refresh, activate or deactivate returns HLM_OK.   *)
LEMMA SucceedsSeat ==
  ASSUME ClientInv, SeatInv, CleanStep, row' = row,
         NEW rep, why = "refresh", Return("OK", rep),
         SignedDuringCall(license'), Has("write") => store' = license',
         ~call.disturbed => MatchesRow(license')
  PROVE  GoodSeatStep
<1>1. /\ pc' = "idle" /\ op' = "none" /\ why' = "check" /\ call' = NoCall /\ cfg' = cfg
  BY DEF Return
<1>2. call'.began <= now' /\ PatchInv' /\ SaveInv'
  BY <1>1, IdleInv DEF CleanStep
<1>3. op \in {"activate", "deactivate"} => Moved
  <2>. SUFFICES ASSUME op \in {"activate", "deactivate"} PROVE Moved
    OBVIOUS
  <2>1. call.accepted
    BY DEF SeatInv, PatchInv
  <2>2. ~call.disturbed => license'.code = PatchedCode
    BY <2>1 DEF SeatInv, PatchInv, MatchesRow
  <2>. QED
    BY <2>1, <2>2 DEF Moved, PatchedCode
<1>4. GoodReturn
  BY <1>3 DEF GoodReturn, Fresh, Matching, SignedDuringCall, MatchesRow
<1>5. FreedInv'
  <2>1. CASE freed
    BY <1>1, <2>1
    DEF CleanStep, Clean, SeatInv, FreedInv, FreedSeatStaysFreed, Has, Verifies, PatchedCode
  <2>2. CASE ~freed /\ freed'
    <3>1. op = "deactivate" /\ ~call.disturbed
      BY <2>2 DEF Return
    <3>2. license'.code = NoCode /\ row.code = NoCode
      BY <1>3, <3>1 DEF Moved, MatchesRow
    <3>. QED
      BY <1>1, <3>2 DEF FreedInv, FreedSeatStaysFreed, Has, Verifies
  <2>3. CASE ~freed'
    BY <2>3 DEF FreedInv, FreedSeatStaysFreed
  <2>. QED
    BY <2>1, <2>2, <2>3
<1>. QED
  BY <1>2, <1>4, <1>5 DEF GoodSeatStep, SeatInv

LEMMA CheckSucceedsSeat ==
  ASSUME ClientInv, SeatInv, CleanStep, NEW rep, NEW cut, CheckSucceeds(rep, cut)
  PROVE  GoodSeatStep
  BY ReturnsSeat, ProceedsSeat DEF CheckSucceeds

LEMMA RefreshFailsSeat ==
  ASSUME ClientInv, SeatInv, CleanStep, NEW f, f.r \in CallErrors, RefreshFails(f)
  PROVE  GoodSeatStep
<1>1. f.r # "OK"
  BY DEF CallErrors, Checks
<1>. QED
  BY <1>1, ReturnsSeat, CheckSucceedsSeat DEF RefreshFails

LEMMA RequestFailsSeat ==
  ASSUME ClientInv, SeatInv, CleanStep, \E f \in RequestFailures : RefreshFails(f)
  PROVE  GoodSeatStep
<1>1. PICK f \in RequestFailures : RefreshFails(f)
  OBVIOUS
<1>2. f.r \in CallErrors
  BY RequestFailsOK DEF ClientInv
<1>. QED
  BY <1>1, <1>2, RefreshFailsSeat

LEMMA RefreshSucceedsSeat ==
  ASSUME ClientInv, SeatInv, CleanStep, row' = row, NEW rep, RefreshSucceeds(rep),
         SignedDuringCall(license'), Has("write") => store' = license',
         ~call.disturbed => MatchesRow(license')
  PROVE  GoodSeatStep
<1>1. CASE why = "check" /\ CheckSucceeds(rep, FALSE)
  BY <1>1, CheckSucceedsSeat
<1>2. CASE why = "rotated" /\ Proceed("rePatch", rep, FALSE)
  BY <1>2, ProceedsSeat
<1>3. CASE why = "refresh" /\ Return("OK", rep)
  BY <1>3, SucceedsSeat
<1>. QED
  BY <1>1, <1>2, <1>3 DEF RefreshSucceeds
------------------------------------------------------------------------------
(* The steps of a call                                                     *)

(* Whatever is held and saved now is clean.                                *)
LEMMA StaysClean ==
  ASSUME SeatInv, UNCHANGED <<license, store, env>>, row' = row
  PROVE  CleanStep
  BY DEF CleanStep, Clean, SeatInv, FreedInv, FreedSeatStaysFreed

LEMMA CallSeat ==
  ASSUME ClientInv, SeatInv, NEW o \in Calls, Call(o)
  PROVE  GoodSeatStep
<1>1. /\ pc = "idle" /\ pc' = "time" /\ op' = o /\ call' = Began(now) /\ cfg' = cfg
      /\ why' = (IF o = "refresh" THEN "refresh" ELSE "check")
      /\ license' = license /\ store' = store /\ row' = row /\ now' = now /\ now \in Nat
      /\ freed' = (freed /\ o # "activate")
  BY DEF Call, held, server, env, ClientInv, WorldInv, WorldOK
<1>2. call'.began = now /\ call'.accepted = FALSE
  BY <1>1 DEF Began
<1>3. freed' => freed /\ o # "activate"
  BY <1>1, Zenon
<1>4. PatchInv' /\ SaveInv' /\ GoodReturn /\ call'.began <= now'
  BY <1>1, <1>2 DEF PatchInv, SaveInv, GoodReturn, ReturnsOK, Returns
<1>5. FreedInv'
  BY <1>1, <1>3 DEF SeatInv, FreedInv, FreedSeatStaysFreed, Has, Verifies
<1>. QED
  BY <1>4, <1>5 DEF GoodSeatStep, SeatInv

LEMMA TimeSeat ==
  ASSUME ClientInv, SeatInv,
         TimesyncAnswers \/ TimesyncUnavailable \/ NoTrustedSource \/ FetchTime
  PROVE  GoodSeatStep
<1>1. \E step \in {FirstStep, "fetchTime"} : \E rep, cut : Proceed(step, rep, cut)
  BY DEF TimesyncAnswers, TimesyncUnavailable, NoTrustedSource, FetchTime, UseTrusted, UseLocal
<1>2. FirstStep \notin {"save", "idle"}
  BY DEF FirstStep
<1>3. UNCHANGED <<license, store, env>> /\ row' = row
  BY DEF TimesyncAnswers, TimesyncUnavailable, NoTrustedSource, FetchTime, UseTrusted, UseLocal,
         held, server
<1>. QED
  BY <1>1, <1>2, <1>3, StaysClean, ProceedsSeat

LEMMA ReadCacheSeat ==
  ASSUME ClientInv, SeatInv, ReadCache
  PROVE  GoodSeatStep
<1>1. store' = store /\ row' = row /\ UNCHANGED env
  BY DEF ReadCache, server
<1>2. license' \in {license, store}
  BY DEF ReadCache, Adopt, held
<1>3. CleanStep
  BY <1>1, <1>2 DEF CleanStep, Clean, SeatInv, FreedInv, FreedSeatStaysFreed
<1>4. CheckSucceeds(report, call.cut) \/ Proceed("postComputer", report, call.cut)
  BY DEF ReadCache
<1>. QED
  BY <1>3, <1>4, CheckSucceedsSeat, ProceedsSeat

LEMMA ComputerSeat ==
  ASSUME ClientInv, SeatInv, PostComputer \/ GetComputer
  PROVE  GoodSeatStep
<1>1. UNCHANGED <<license, store, env>> /\ row' = row
  BY DEF PostComputer, GetComputer, held, server
<1>2. CleanStep
  BY <1>1, StaysClean
<1>3. CASE PostComputer
  BY <1>2, <1>3, ProceedsSeat, RequestFailsSeat DEF PostComputer
<1>4. CASE GetComputer
  <2>. DEFINE f == Failure("E_FORMAT", Heard)
  <2>1. f.r \in CallErrors
    BY DEF Failure, CallErrors, Checks
  <2>. QED
    BY <1>2, <1>4, <2>1, ProceedsSeat, RefreshFailsSeat, RequestFailsSeat DEF GetComputer
<1>. QED
  BY <1>3, <1>4

LEMMA PostLicenseSeat ==
  ASSUME ClientInv, SeatInv, PostLicense
  PROVE  GoodSeatStep
<1>1. row' = row \/ (row = NoRow /\ row'.code = NoCode)
  <2>1. NewRow(nextId, now).code = NoCode
    BY DEF NewRow
  <2>2. ServerCreates \/ UNCHANGED server
    BY DEF PostLicense
  <2>. QED
    BY <2>1, <2>2 DEF ServerCreates, server
<1>2. CleanStep
  BY <1>1
  DEF PostLicense, held, CleanStep, Clean, SeatInv, FreedInv, FreedSeatStaysFreed
<1>. QED
  BY <1>2, ProceedsSeat, RequestFailsSeat DEF PostLicense

(* What the server signs during a call is fresh, is the row as it is, and  *)
(* brings no freed code back.                                              *)
LEMMA SignedSeat ==
  ASSUME ClientInv, SeatInv, row # NoRow
  PROVE  /\ SignedDuringCall(Sign(row, now)) /\ MatchesRow(Sign(row, now))
         /\ Clean(Sign(row, now))
<1>1. Sign(row, now).expires = now + ValidDays
  BY DEF Sign
<1>2. now \in Nat /\ call.began \in Nat /\ call.began <= now /\ ValidDays \in Nat
  BY ServerAssumption
  DEF ClientInv, WorldInv, WorldOK, ControlOK, CallHistory, SeatInv
<1>3. MatchesRow(Sign(row, now)) /\ Clean(Sign(row, now))
  BY DEF Sign, MatchesRow, Clean, SeatInv, FreedInv
<1>. QED
  BY <1>1, <1>2, <1>3 DEF SignedDuringCall

LEMMA GetLicenseSeat ==
  ASSUME ClientInv, SeatInv, GetLicense
  PROVE  GoodSeatStep
<1>1. store' = store /\ row' = row /\ UNCHANGED env
  BY DEF GetLicense, server
<1>2. CASE /\ row # NoRow
           /\ Adopt(Sign(row, now), evalNow)
           /\ \/ Has("write") /\ Proceed("save", Heard, FALSE)
              \/ ~Has("write") /\ RefreshSucceeds(Heard)
  <2>1. license' = Sign(row, now)
    BY <1>2 DEF Adopt
  <2>2. SignedDuringCall(license') /\ MatchesRow(license')
    BY <1>2, <2>1, SignedSeat
  <2>3. CleanStep
    BY <1>1, <1>2, <2>1, SignedSeat
    DEF CleanStep, Clean, SeatInv, FreedInv, FreedSeatStaysFreed
  <2>4. CASE Proceed("save", Heard, FALSE)
    <3>1. /\ pc' = "save" /\ op' = op /\ freed' = freed /\ why' = why /\ cfg' = cfg
          /\ call' = [call EXCEPT !.cut = FALSE]
      BY <2>4 DEF Proceed, Goto
    <3>2. /\ call'.began = call.began /\ call'.accepted = call.accepted
          /\ call'.disturbed = call.disturbed
      BY <3>1, CallKept DEF ClientInv, ControlOK
    <3>3. PatchInv' /\ call'.began <= now'
      BY <1>1, <3>1, <3>2 DEF SeatInv, PatchInv, PatchedCode, env
    <3>4. SaveInv' /\ GoodReturn
      BY <1>1, <2>2, <3>1, <3>2
      DEF SaveInv, SignedDuringCall, MatchesRow, GoodReturn, ReturnsOK, Returns
    <3>5. FreedInv'
      BY <1>1, <2>3, <3>1
      DEF CleanStep, Clean, SeatInv, FreedInv, FreedSeatStaysFreed, Has, Verifies
    <3>. QED
      BY <3>3, <3>4, <3>5 DEF GoodSeatStep, SeatInv
  <2>5. CASE ~Has("write") /\ RefreshSucceeds(Heard)
    BY <1>1, <2>2, <2>3, <2>5, RefreshSucceedsSeat
  <2>. QED
    BY <1>2, <2>4, <2>5
<1>3. CASE /\ \/ \E d \in ForeignDocs : RefreshFails(Failure(d.check, Heard))
              \/ \E f \in RequestFailures : RefreshFails(f)
           /\ UNCHANGED held
  <2>1. CleanStep
    BY <1>1, <1>3, StaysClean DEF held
  <2>2. ASSUME NEW d \in ForeignDocs, RefreshFails(Failure(d.check, Heard))
        PROVE  GoodSeatStep
    <3>. DEFINE f == Failure(d.check, Heard)
    <3>1. f.r \in CallErrors
      BY ForeignDocsOK DEF Failure
    <3>. QED
      BY <2>1, <2>2, <3>1, RefreshFailsSeat
  <2>. QED
    BY <1>3, <2>1, <2>2, RequestFailsSeat
<1>. QED
  BY <1>2, <1>3 DEF GetLicense

LEMMA SaveLicenseSeat ==
  ASSUME ClientInv, SeatInv, SaveLicense
  PROVE  GoodSeatStep
<1>1. /\ pc = "save" /\ license' = license /\ row' = row /\ UNCHANGED env
      /\ store' \in {license, store}
  BY DEF SaveLicense, held, server
<1>2. CleanStep
  BY <1>1 DEF CleanStep, Clean, SeatInv, FreedInv, FreedSeatStaysFreed
<1>3. CASE store' = license /\ RefreshSucceeds(report)
  <2>1. SignedDuringCall(license') /\ (~call.disturbed => MatchesRow(license'))
    BY <1>1 DEF SeatInv, SaveInv
  <2>2. row' = row /\ store' = license' /\ RefreshSucceeds(report)
    BY <1>1, <1>3
  <2>. QED
    BY <1>2, <2>1, <2>2, RefreshSucceedsSeat
<1>4. CASE RefreshFails(Failure("E_STORAGE", report))
  <2>. DEFINE f == Failure("E_STORAGE", report)
  <2>1. f.r \in CallErrors
    BY DEF Failure, CallErrors
  <2>. QED
    BY <1>2, <1>4, <2>1, RefreshFailsSeat
<1>. QED
  BY <1>3, <1>4 DEF SaveLicense
------------------------------------------------------------------------------
(* activate and deactivate                                                 *)

LEMMA PatchedRow ==
  ASSUME ClientInv, NEW id, ServerPatches(id)
  PROVE  row # NoRow /\ row' # NoRow /\ row'.code = PatchedCode
<1>1. row # NoRow /\ row \in Row /\ now \in Nat /\ row' = Attach(row, PatchedCode, now)
  BY DEF ServerPatches, RowHasId, ClientInv, WorldInv, WorldOK
<1>2. PatchedCode \in Codes \cup {NoCode}
  BY ClientAssumption DEF PatchedCode
<1>3. row' \in Row
  BY <1>1, <1>2, RowsOK
<1>4. row'.code = PatchedCode
  BY <1>1 DEF Attach, Row
<1>. QED
  BY <1>1, <1>3, <1>4, ClientAssumption

LEMMA PatchesSeat ==
  ASSUME ClientInv, SeatInv, NEW id, UNCHANGED <<held, store, env>>,
         ServerPatches(id) \/ UNCHANGED server
  PROVE  CleanStep /\ (ServerPatches(id) => row' # NoRow /\ row'.code = PatchedCode)
<1>1. license' = license /\ store' = store /\ UNCHANGED env
  BY DEF held
<1>2. CASE UNCHANGED server /\ ~ServerPatches(id)
  BY <1>1, <1>2, StaysClean DEF server
<1>3. CASE ServerPatches(id)
  <2>1. row # NoRow /\ row' # NoRow /\ row'.code = PatchedCode
    BY <1>3, PatchedRow
  <2>. QED
    BY <1>1, <2>1 DEF CleanStep, Clean, SeatInv, FreedInv, FreedSeatStaysFreed
<1>. QED
  BY <1>2, <1>3

LEMMA PatchAcceptedSeat ==
  ASSUME ClientInv, SeatInv, NEW id, PatchAccepted(id), UNCHANGED <<held, store, env>>
  PROVE  GoodSeatStep
<1>1. /\ pc' = "postComputer" /\ op' = op /\ freed' = freed /\ why' = "refresh" /\ cfg' = cfg
      /\ call' = [call EXCEPT !.cut = FALSE, !.accepted = TRUE, !.disturbed = FALSE]
      /\ now' = now /\ license' = license /\ store' = store
  BY DEF PatchAccepted, Goto, held, env
<1>2. call'.began = call.began /\ call'.accepted
  BY <1>1 DEF ClientInv, ControlOK, CallHistory
<1>3. row' # NoRow /\ row'.code = PatchedCode
  BY PatchesSeat DEF PatchAccepted
<1>4. PatchInv' /\ SaveInv' /\ GoodReturn /\ call'.began <= now'
  BY <1>1, <1>2, <1>3
  DEF SeatInv, PatchInv, PatchedCode, SaveInv, GoodReturn, ReturnsOK, Returns
<1>5. FreedInv'
  BY <1>1, <1>3 DEF SeatInv, FreedInv, FreedSeatStaysFreed, Has, Verifies, PatchedCode
<1>. QED
  BY <1>4, <1>5 DEF GoodSeatStep, SeatInv

LEMMA PatchFailsSeat ==
  ASSUME ClientInv, SeatInv, NEW id, PatchFails(id), UNCHANGED <<held, store, env>>
  PROVE  GoodSeatStep
<1>1. CleanStep
  BY PatchesSeat DEF PatchFails
<1>2. PICK f \in RequestFailures : Return(f.r, f.report)
  BY DEF PatchFails
<1>3. f.r # "OK"
  BY RequestFailsOK DEF ClientInv, CallErrors, Checks
<1>. QED
  BY <1>1, <1>2, <1>3, ReturnsSeat

LEMMA PatchMissesSeat ==
  ASSUME ClientInv, SeatInv, PatchMisses, UNCHANGED <<held, store, env>>
  PROVE  GoodSeatStep
<1>1. /\ pc' = "postComputer" /\ op' = op /\ freed' = freed /\ why' = "rotated" /\ cfg' = cfg
      /\ call' = [call EXCEPT !.cut = FALSE]
      /\ now' = now /\ license' = license /\ store' = store /\ row' = row
  BY DEF PatchMisses, Goto, held, server, env
<1>2. /\ call'.began = call.began /\ call'.accepted = call.accepted
      /\ call'.disturbed = call.disturbed
  BY <1>1, CallKept DEF ClientInv, ControlOK
<1>3. PatchInv' /\ SaveInv' /\ GoodReturn /\ call'.began <= now'
  BY <1>1, <1>2 DEF SeatInv, PatchInv, PatchedCode, SaveInv, GoodReturn, ReturnsOK, Returns
<1>4. FreedInv'
  BY <1>1 DEF SeatInv, FreedInv, FreedSeatStaysFreed, Has, Verifies
<1>. QED
  BY <1>3, <1>4 DEF GoodSeatStep, SeatInv

LEMMA PatchSeat ==
  ASSUME ClientInv, SeatInv, PatchLicense \/ RePatchLicense
  PROVE  GoodSeatStep
<1>1. CASE PatchLicense
  BY <1>1, PatchAcceptedSeat, PatchFailsSeat, PatchMissesSeat DEF PatchLicense
<1>2. CASE RePatchLicense
  BY <1>2, PatchAcceptedSeat, PatchFailsSeat DEF RePatchLicense
<1>. QED
  BY <1>1, <1>2
------------------------------------------------------------------------------
(* The application and the world                                           *)

(* Between calls the invariant is about the freed seat alone.              *)
LEMMA QuietSeat ==
  ASSUME ClientInv, SeatInv, UNCHANGED <<cfg, pc, op, why, call, row, now>>,
         FreedSeatStaysFreed', freed' => freed, pc = "idle"
  PROVE  GoodSeatStep
  BY DEF GoodSeatStep, SeatInv, PatchInv, SaveInv, FreedInv, GoodReturn, ReturnsOK, Returns,
         PatchedCode

LEMMA ImportSeat ==
  ASSUME ClientInv, SeatInv, NEW d \in ForeignDocs \cup HandFiles, Import(d)
  PROVE  GoodSeatStep
<1>1. PICK r : \E rep : ImportReturns(r, rep)
  BY DEF Import, ImportRefused, ImportInstalls
<1>2. /\ pc = "idle" /\ UNCHANGED <<cfg, pc, op, why, call, row, now>>
      /\ freed' = (freed /\ r # "INSTALLED")
  BY <1>1 DEF Import, ImportReturns, server, env
<1>3. freed' => freed
  BY <1>2, Zenon
<1>4. FreedSeatStaysFreed'
  <2>1. CASE UNCHANGED <<held, store>>
    BY <1>2, <1>3, <2>1 DEF SeatInv, FreedInv, FreedSeatStaysFreed, Has, Verifies, held
  <2>2. CASE ImportInstalls(d)
    <3>1. ~freed'
      BY <2>2, Zenon DEF ImportInstalls, ImportReturns
    <3>. QED
      BY <3>1 DEF FreedSeatStaysFreed
  <2>. QED
    BY <2>1, <2>2 DEF Import, ImportRefused
<1>. QED
  BY <1>2, <1>3, <1>4, QuietSeat

LEMMA WorldSeat ==
  ASSUME ClientInv, SeatInv, World
  PROVE  GoodSeatStep
<1>1. CASE Tick
  <2>1. /\ now' = now + 1 /\ now \in Nat /\ call.began \in Nat
        /\ UNCHANGED <<cfg, license, store, row, pc, op, why, call, freed, ret>>
    BY <1>1 DEF Tick, held, frame, server, ClientInv, ControlOK, CallHistory, WorldInv, WorldOK
  <2>2. call'.began <= now'
    BY <2>1 DEF SeatInv
  <2>3. PatchInv' /\ SaveInv' /\ GoodReturn
    BY <2>1 DEF SeatInv, PatchInv, SaveInv, SignedDuringCall, MatchesRow, PatchedCode,
                GoodReturn, ReturnsOK, Returns
  <2>4. FreedInv'
    BY <2>1 DEF SeatInv, FreedInv, FreedSeatStaysFreed, Has, Verifies
  <2>. QED
    BY <2>2, <2>3, <2>4 DEF GoodSeatStep, SeatInv
<1>2. CASE VendorEditsRow
  <2>1. /\ call' = [call EXCEPT !.disturbed = (pc # "idle")] /\ ~freed'
        /\ UNCHANGED <<cfg, license, store, pc, op, why, ret, now>>
    BY <1>2 DEF VendorEditsRow, held
  <2>2. /\ call'.began = call.began /\ call'.accepted = call.accepted
        /\ call'.disturbed = (pc # "idle")
    BY <2>1 DEF ClientInv, ControlOK, CallHistory
  <2>3. pc # "idle" => call'.disturbed
    BY <2>2
  <2>4. SaveInv'
    BY <2>1, <2>2, <2>3 DEF SeatInv, SaveInv, SignedDuringCall
  <2>5. PatchInv'
    BY <2>1, <2>2, <2>3 DEF SeatInv, PatchInv
  <2>6. FreedInv' /\ GoodReturn
    BY <2>1 DEF FreedInv, FreedSeatStaysFreed, GoodReturn, ReturnsOK, Returns
  <2>. QED
    BY <2>1, <2>2, <2>4, <2>5, <2>6 DEF GoodSeatStep, SeatInv
<1>3. CASE StoreChanges
  <2>1. ~freed' /\ pc = "idle" /\ UNCHANGED <<cfg, pc, op, why, call, row, now>>
    BY <1>3 DEF StoreChanges, server
  <2>2. FreedSeatStaysFreed'
    BY <2>1 DEF FreedSeatStaysFreed
  <2>. QED
    BY <2>1, <2>2, QuietSeat
<1>4. CASE Restart
  <2>1. /\ pc' = "idle" /\ op' = "none" /\ why' = "check" /\ call' = NoCall /\ ret' = "none"
        /\ license' = NoDoc /\ UNCHANGED <<cfg, freed, store, row, now>>
    BY <1>4 DEF Restart, server
  <2>2. call'.began <= now' /\ PatchInv' /\ SaveInv' /\ GoodReturn
    BY <2>1 DEF NoCall, Began, ClientInv, WorldInv, WorldOK, PatchInv, SaveInv, GoodReturn,
                ReturnsOK, Returns
  <2>3. FreedInv'
    BY <2>1 DEF SeatInv, FreedInv, FreedSeatStaysFreed, Has, Verifies
  <2>. QED
    BY <2>2, <2>3 DEF GoodSeatStep, SeatInv
<1>. QED
  BY <1>1, <1>2, <1>3, <1>4 DEF World
------------------------------------------------------------------------------
(* The specification                                                       *)

LEMMA SeatInit == Init => SeatInv
  BY DEF Init, SeatInv, PatchInv, SaveInv, FreedInv, FreedSeatStaysFreed, NoCall, Began

LEMMA SeatStutter ==
  ASSUME ClientInv, SeatInv, UNCHANGED vars
  PROVE  GoodSeatStep
<1>1. UNCHANGED <<cfg, license, store, row, now, pc, op, why, call, freed, ret>>
  BY DEF vars, held, frame, server, env
<1>2. PatchInv' /\ SaveInv' /\ GoodReturn /\ call'.began <= now'
  BY <1>1 DEF SeatInv, PatchInv, SaveInv, SignedDuringCall, MatchesRow, PatchedCode,
              GoodReturn, ReturnsOK, Returns
<1>3. FreedInv'
  BY <1>1 DEF SeatInv, FreedInv, FreedSeatStaysFreed, Has, Verifies
<1>. QED
  BY <1>2, <1>3 DEF GoodSeatStep, SeatInv

LEMMA EveryStepKeepsSeats == ClientInv /\ SeatInv /\ [Next]_vars => GoodSeatStep
<1>. SUFFICES ASSUME ClientInv, SeatInv, [Next]_vars PROVE GoodSeatStep
  OBVIOUS
<1>1. CASE Step
  BY <1>1, TimeSeat, ReadCacheSeat, ComputerSeat, PostLicenseSeat, GetLicenseSeat,
     SaveLicenseSeat, PatchSeat DEF Step
<1>2. CASE Application
  BY <1>2, CallSeat, ImportSeat DEF Application
<1>3. CASE World
  BY <1>3, WorldSeat
<1>4. CASE UNCHANGED vars
  BY <1>4, SeatStutter
<1>. QED
  BY <1>1, <1>2, <1>3, <1>4 DEF Next

THEOREM SeatInvariant == Spec => []SeatInv
<1>1. ClientInv /\ SeatInv /\ [Next]_vars => SeatInv'
  BY EveryStepKeepsSeats DEF GoodSeatStep
<1>. QED
  BY <1>1, SeatInit, ClientInvariant, PTL DEF Spec

(* A seat given back stays given back, in memory and in the file, whatever *)
(* fails after deactivate returned HLM_OK.                                 *)
THEOREM FreedSeatsStayFreed == Spec => []FreedSeatStaysFreed
<1>1. SeatInv => FreedSeatStaysFreed
  BY DEF SeatInv, FreedInv
<1>. QED
  BY <1>1, SeatInvariant, PTL

(* A successful refresh, activate or deactivate leaves a license signed    *)
(* during the call, in memory and in the file.                             *)
THEOREM SuccessesAreFreshAndSaved == Spec => SuccessIsFreshAndSaved
<1>1. ClientInv /\ SeatInv /\ [Next]_vars
        => [(ReturnsOK /\ op \in {"refresh", "activate", "deactivate"})
              => /\ license'.expires >= call.began + ValidDays
                 /\ Has("write") => store' = license']_vars
  BY EveryStepKeepsSeats DEF GoodSeatStep, GoodReturn, Fresh
<1>. QED
  BY <1>1, SeatInvariant, ClientInvariant, PTL DEF Spec, SuccessIsFreshAndSaved

(* activate and deactivate succeed only if their PATCH was accepted, and   *)
(* leave a license that says so unless the vendor changed the row.         *)
THEOREM SuccessesMoveTheSeat == Spec => SuccessMovesTheSeat
<1>1. ClientInv /\ SeatInv /\ [Next]_vars
        => [(ReturnsOK /\ op \in {"activate", "deactivate"})
              => /\ call.accepted
                 /\ ~call.disturbed =>
                      license'.code = IF op = "activate" THEN ActCode ELSE NoCode]_vars
  BY EveryStepKeepsSeats DEF GoodSeatStep, GoodReturn, Moved
<1>. QED
  BY <1>1, SeatInvariant, ClientInvariant, PTL DEF Spec, SuccessMovesTheSeat

(* A successful refresh, activate or deactivate leaves the license of the  *)
(* row as it is now, unless the vendor changed the row.                    *)
THEOREM SuccessesMatchTheServer == Spec => SuccessMatchesTheServer
<1>1. ClientInv /\ SeatInv /\ [Next]_vars
        => [(ReturnsOK /\ op \in {"refresh", "activate", "deactivate"} /\ ~call.disturbed)
              => /\ row # NoRow
                 /\ license'.id = row.id /\ license'.code = row.code
                 /\ license'.updated = row.updated]_vars
  BY EveryStepKeepsSeats DEF GoodSeatStep, GoodReturn, Matching
<1>. QED
  BY <1>1, SeatInvariant, ClientInvariant, PTL DEF Spec, SuccessMatchesTheServer
=============================================================================
