---------------------------- MODULE LicenseClient ----------------------------
(***************************************************************************)
(* One hlm_client handle (src/core/hlm_client.c) between the license       *)
(* server, the license file it caches, and the clocks.                     *)
(*                                                                         *)
(* A public call runs as a sequence of steps, one for every request the    *)
(* code sends and for every access to the cache file; the server's row,    *)
(* real time and the process (a crash, then a new handle) may change       *)
(* between any two of them.  A request is send_req with all its attempts:  *)
(* it ends with an answer, with E_AUTH or with E_HTTP, and when it fails   *)
(* the server may or may not have executed it (a lost answer).  Module     *)
(* HttpRetry has the attempts.  The write of the cache is atomic here;     *)
(* module FileStore has its steps.                                         *)
(***************************************************************************)
EXTENDS LicenseServer

CONSTANTS
  Configs,       \* the ports a handle may be built with: sets of port names
  Calls,         \* the network calls the application makes
  ActCode,       \* the receipt code the application activates with
  ForeignDocs,   \* documents that are not this machine's license
  NetFailures,   \* the causes the transport tells apart
  Skew,          \* how far the timesync port may be from real time
  Mishaps,       \* what may happen around the handle: "vendor", "file", "crash"
  MaxMishaps,    \* bound: how often, in a behaviour
  MaxTime,       \* bound: real time and local clock readings
  MaxRows        \* bound: rows the server ever creates

Ports == {"timesync", "http", "read", "write"}
OnlineCalls == {"check", "refresh", "activate", "deactivate"}

ASSUME ClientAssumption ==
  /\ Configs \subseteq SUBSET Ports
  /\ Calls \subseteq OnlineCalls
  /\ ActCode \in Codes
  /\ ForeignDocs \subseteq {d \in Document : d.check # "OK"}
  /\ "None" \notin NetFailures
  /\ Skew \in Nat
  /\ MaxMishaps \in Nat
  /\ MaxTime \in Nat
  /\ MaxRows \in Nat
  /\ NoDoc \notin Document
  /\ NoRow \notin Row

VARIABLES
  cfg,        \* the ports of the handle
  (* the handle: memory, lost by a restart *)
  license,    \* license and has_license: NoDoc when has_license is 0
  status,
  floor,      \* time_floor
  evalNow,    \* eval_now
  seen,       \* history: the latest trusted time this handle was shown
  (* the call in progress *)
  pc,         \* the step the call is at, "idle" between calls
  op,         \* which call it is
  why,        \* who called refresh_internal: "check", "rotated" or "refresh"
  patchId,    \* the license id in the PATCH body
  call,       \* history of the call in progress, see CallHistory
  freed,      \* history: a deactivate returned HLM_OK, and nothing since
              \* then (activate, import, vendor, file) may bring the code back
  (* what the application sees of the last call *)
  ret,        \* its return value
  report,     \* last_net_failure and last_error
  (* the world *)
  store,      \* the cache file
  row,        \* the server's row for this computer and product
  nextId,
  now,        \* real time, the server's clock
  mishaps     \* how many so far

held   == <<license, status, floor, evalNow, seen>>
frame  == <<op, why, patchId, call, freed>>
server == <<row, nextId>>
env    == <<now, mishaps>>
vars   == <<cfg, held, pc, frame, ret, report, store, server, env>>

Steps == {"time", "fetchTime", "cache", "postComputer", "getComputer", "postLicense",
          "getLicense", "save", "patch", "rePatch"}

CallErrors == {"E_HTTP", "E_AUTH", "E_API", "E_STORAGE", "E_NO_LICENSE"}
                \cup (Checks \ {"OK"})
ImportRefusals == {"NOT_A_LICENSE", "SIGNATURE_INVALID", "WRONG_PRODUCT",
                   "WRONG_COMPUTER", "WRITE_FAILED", "E_ARG"}
Results  == {"none", "OK", "INSTALLED"} \cup CallErrors \cup ImportRefusals

(* last_net_failure, and whose message last_error holds                    *)
Report == [net : NetFailures \cup {"None"}, err : {"", "net", "api", "import"}]

(* What the properties need to know of the call in progress: when it       *)
(* began, whether its last request got no answer, whether the server       *)
(* accepted its PATCH, and whether somebody else changed the row since.    *)
CallHistory == [began : Nat, cut : BOOLEAN, accepted : BOOLEAN, disturbed : BOOLEAN]

Has(port) == port \in cfg
Began(t)  == [began |-> t, cut |-> FALSE, accepted |-> FALSE, disturbed |-> FALSE]
NoCall    == Began(0)

TypeOK ==
  /\ cfg \in SUBSET Ports
  /\ license \in Document \cup {NoDoc}
  /\ status \in Statuses
  /\ floor \in Nat /\ evalNow \in Nat /\ seen \in Nat
  /\ pc \in Steps \cup {"idle"}
  /\ op \in OnlineCalls \cup {"none"}
  /\ why \in {"check", "rotated", "refresh"}
  /\ patchId \in Nat
  /\ call \in CallHistory
  /\ freed \in BOOLEAN
  /\ ret \in Results
  /\ report \in Report
  /\ store \in Document \cup {NoDoc}
  /\ row \in Row \cup {NoRow}
  /\ nextId \in Nat
  /\ now \in Nat /\ mishaps \in Nat
------------------------------------------------------------------------------
(* How requests and calls end                                              *)

(* begin_call and end_call.                                                *)
\* Mutant: a call does not forget the diagnosis of the one before.
BeginCallKeepsDiagnosis(rep) == rep

BeginCall(rep)  == [rep EXCEPT !.net = "None"]
EndCall(r, rep) ==
  IF r = "E_HTTP" /\ rep.net # "None" THEN [rep EXCEPT !.err = "net"] ELSE rep

(* What send_req and map_api_error leave behind for a request that was     *)
(* answered, got no answer for cause n, or was refused by the API.         *)
Heard   == [report EXCEPT !.net = "None"]
Cut(n)  == [report EXCEPT !.net = n]
Refused == [net |-> "None", err |-> "api"]

(* The ways send_req and its caller turn a request down.  Without an http  *)
(* port nothing is sent and nothing is recorded.                           *)
Failure(r, rep) == [r |-> r, report |-> rep]
RequestFailures ==
  IF Has("http")
  THEN {Failure("E_HTTP", Cut(n)) : n \in NetFailures}
         \cup {Failure("E_AUTH", Heard), Failure("E_API", Refused)}
  ELSE {Failure("E_HTTP", report)}

(* The call returns r to the application.                                  *)
Return(r, rep) ==
  /\ pc' = "idle"
  /\ ret' = r
  /\ report' = EndCall(r, rep)
  /\ op' = "none" /\ why' = "check" /\ patchId' = 0 /\ call' = NoCall
  /\ freed' = (freed \/ (op = "deactivate" /\ r = "OK" /\ ~call.disturbed))
  /\ UNCHANGED cfg

Goto(step, rep) ==
  /\ pc' = step
  /\ report' = rep
  /\ UNCHANGED <<cfg, op, freed, ret>>

(* The request the call is at was answered, or not; go on.                 *)
Proceed(step, rep, cut) ==
  /\ Goto(step, rep)
  /\ call' = [call EXCEPT !.cut = cut]
  /\ UNCHANGED <<why, patchId>>

(* check_internal returns HLM_OK: to the application, or to                *)
(* set_receipt_code_internal, which goes on to the PATCH.                  *)
CheckSucceeds(rep, cut) ==
  \/ op = "check" /\ Return("OK", rep)
  \/ op # "check" /\ Proceed("patch", rep, cut)

\* Mutant: check reports the transport failure although it holds a license.
RefreshFailsNoFallback(f) == Return(f.r, f.report)

(* refresh_internal fails with f.r in one of its three callers.            *)
RefreshFails(f) ==
  \/ /\ why = "check" /\ f.r = "E_HTTP" /\ license # NoDoc
     /\ CheckSucceeds(f.report, TRUE)
  \/ /\ why = "check" /\ f.r = "E_HTTP" /\ license = NoDoc /\ ~Has("http")
     /\ Return("E_NO_LICENSE", f.report)
  \/ /\ ~(why = "check" /\ f.r = "E_HTTP" /\ (license # NoDoc \/ ~Has("http")))
     /\ Return(f.r, f.report)

(* refresh_internal returns HLM_OK.                                        *)
RefreshSucceeds(rep) ==
  \/ why = "check" /\ CheckSucceeds(rep, FALSE)
  \/ why = "rotated" /\ Proceed("rePatch", rep, FALSE)
  \/ why = "refresh" /\ Return("OK", rep)
------------------------------------------------------------------------------
(* Trusted time                                                            *)

\* Mutant: the floor is set, not raised.
RaiseFloorAssigns(f, t) == t

RaiseFloor(f, t) == IF t > f THEN t ELSE f
ClampToFloor(t)  == IF t < floor THEN floor ELSE t

LocalTimes  == 0 .. MaxTime
SyncAnswers == {t \in (now - Skew) .. (now + Skew) : t >= 0}

FirstStep ==
  IF op = "refresh" THEN "postComputer"
  ELSE IF op = "check" \/ license = NoDoc THEN "cache"
  ELSE "patch"

UseTrusted(t, rep, cut) ==
  /\ floor' = RaiseFloor(floor, t)
  /\ evalNow' = t
  /\ seen' = Later(seen, t)
  /\ Proceed(FirstStep, rep, cut)
  /\ UNCHANGED <<license, status>>

UseLocal(rep, cut) ==
  /\ \E t \in LocalTimes : evalNow' = ClampToFloor(t)
  /\ Proceed(FirstStep, rep, cut)
  /\ UNCHANGED <<license, status, floor, seen>>

(* A public network call begins.                                           *)
Call(o) ==
  /\ pc = "idle"
  /\ pc' = "time"
  /\ op' = o
  /\ why' = IF o = "refresh" THEN "refresh" ELSE "check"
  /\ ret' = "none"
  /\ report' = BeginCall(report)
  /\ call' = Began(now)
  /\ freed' = (freed /\ o # "activate")
  /\ UNCHANGED <<cfg, held, patchId, store, server, env>>

TimesyncAnswers ==
  /\ pc = "time" /\ Has("timesync")
  /\ \E t \in SyncAnswers : UseTrusted(t, report, FALSE)
  /\ UNCHANGED <<store, server, env>>

TimesyncUnavailable ==
  /\ pc = "time" /\ Has("timesync") /\ Has("http")
  /\ Proceed("fetchTime", report, FALSE)
  /\ UNCHANGED <<held, store, server, env>>

NoTrustedSource ==
  /\ pc = "time" /\ ~(Has("timesync") /\ Has("http"))
  /\ UseLocal(report, FALSE)
  /\ UNCHANGED <<store, server, env>>

(* fetch_server_time: GET DateTime.  The answer may be no date.            *)
FetchTime ==
  /\ pc = "fetchTime"
  /\ \/ UseTrusted(now, Heard, FALSE)
     \/ UseLocal(Heard, FALSE)
     \/ \E f \in RequestFailures : UseLocal(f.report, f.r = "E_HTTP")
  /\ UNCHANGED <<store, server, env>>
------------------------------------------------------------------------------
(* Adopting a verified license                                             *)

\* Mutant: HLM_TIME_NONE is not told from a time.
StampFloorUnchecked(f, d) == d.updated

StampFloor(f, d) == RaiseFloor(RaiseFloor(f, d.created), d.updated)

\* Mutant: the verdict is reached before the floor is raised.
AdoptJudgesFirst(d, t) ==
  LET f == StampFloor(floor, d)
  IN /\ floor' = f
     /\ evalNow' = Later(t, f)
     /\ license' = d
     /\ status' = LicenseStatusOf(d, t)
     /\ seen' = Later(Later(seen, d.created), d.updated)

(* adopt_verified, evaluating at t                                         *)
Adopt(d, t) ==
  LET f == StampFloor(floor, d)
      e == Later(t, f)
  IN /\ floor' = f
     /\ evalNow' = e
     /\ license' = d
     /\ status' = LicenseStatusOf(d, e)
     /\ seen' = Later(Later(seen, d.created), d.updated)

(* adopt_license: only a document that verifies is adopted                 *)
Verifies(d) == d # NoDoc /\ d.check = "OK"

\* Mutant: the cache file is trusted because this library wrote it.
ReadCacheTrusting ==
  /\ pc = "cache"
  /\ \/ /\ Has("read") /\ store # NoDoc
        /\ Adopt(store, evalNow)
        /\ \/ status' # "Expired" /\ CheckSucceeds(report, call.cut)
           \/ status' = "Expired" /\ Proceed("postComputer", report, call.cut)
     \/ Proceed("postComputer", report, call.cut) /\ UNCHANGED held
  /\ UNCHANGED <<store, server, env>>

(* check_internal reads the cache.                                         *)
ReadCache ==
  /\ pc = "cache"
  /\ \/ /\ Has("read") /\ Verifies(store)
        /\ Adopt(store, evalNow)
        /\ \/ status' # "Expired" /\ CheckSucceeds(report, call.cut)
           \/ status' = "Expired" /\ Proceed("postComputer", report, call.cut)
     \/ \* no cache, a file that does not verify, or a read that fails
        /\ Proceed("postComputer", report, call.cut)
        /\ UNCHANGED held
  /\ UNCHANGED <<store, server, env>>
------------------------------------------------------------------------------
(* refresh_internal: four requests, then the write of the cache            *)

(* POST computer and GET computer change nothing this model keeps.         *)
PostComputer ==
  /\ pc = "postComputer"
  /\ \/ Has("http") /\ Proceed("getComputer", Heard, FALSE)
     \/ \E f \in RequestFailures : RefreshFails(f)
  /\ UNCHANGED <<held, store, server, env>>

GetComputer ==
  /\ pc = "getComputer"
  /\ \/ Proceed("postLicense", Heard, FALSE)
     \/ RefreshFails(Failure("E_FORMAT", Heard))    \* an answer without an id
     \/ \E f \in RequestFailures : RefreshFails(f)
  /\ UNCHANGED <<held, store, server, env>>

(* EXTERNAL: the server's side of POST license.                            *)
ServerCreates ==
  \/ /\ row = NoRow /\ nextId <= MaxRows
     /\ row' = NewRow(nextId, now) /\ nextId' = nextId + 1
  \/ row # NoRow /\ UNCHANGED server                \* 409: it exists

PostLicense ==
  /\ pc = "postLicense"
  /\ \/ ServerCreates /\ Proceed("getLicense", Heard, FALSE)
     \/ /\ ServerCreates \/ UNCHANGED server
        /\ \E f \in RequestFailures : RefreshFails(f)
  /\ UNCHANGED <<held, store, env>>

(* get_signed_license up to the write: verify, adopt, then go and save.    *)
GetLicense ==
  /\ pc = "getLicense"
  /\ \/ /\ row # NoRow
        /\ Adopt(Sign(row, now), evalNow)
        /\ \/ Has("write") /\ Proceed("save", Heard, FALSE)
           \/ ~Has("write") /\ RefreshSucceeds(Heard)
     \/ /\ \/ \E d \in ForeignDocs : RefreshFails(Failure(d.check, Heard))
           \/ \E f \in RequestFailures : RefreshFails(f)
        /\ UNCHANGED held
  /\ UNCHANGED <<store, server, env>>

\* Mutant: a failed write of the cache goes unreported.
SaveLicenseIgnoresFailure ==
  /\ pc = "save"
  /\ store' = license \/ UNCHANGED store
  /\ RefreshSucceeds(report)
  /\ UNCHANGED <<held, server, env>>

(* storage.write of the document just adopted.                             *)
SaveLicense ==
  /\ pc = "save"
  /\ \/ store' = license /\ RefreshSucceeds(report)
     \/ UNCHANGED store /\ RefreshFails(Failure("E_STORAGE", report))
  /\ UNCHANGED <<held, server, env>>
------------------------------------------------------------------------------
(* activate and deactivate                                                 *)

PatchedCode == IF op = "activate" THEN ActCode ELSE NoCode

(* EXTERNAL: the server's side of PATCH license, for the row it names.     *)
RowHasId(id) == row # NoRow /\ row.id = id
ServerPatches(id) ==
  /\ RowHasId(id)
  /\ row' = Attach(row, PatchedCode, now)
  /\ UNCHANGED nextId

\* Mutant: the license is not refreshed after the PATCH.
PatchAcceptedOnly(id) ==
  ServerPatches(id) /\ Return("OK", Heard)

(* The PATCH was accepted: refresh the signed license.                     *)
PatchAccepted(id) ==
  /\ ServerPatches(id)
  /\ Goto("postComputer", Heard)
  /\ why' = "refresh" /\ patchId' = 0
  /\ call' = [call EXCEPT !.cut = FALSE, !.accepted = TRUE, !.disturbed = FALSE]

(* The PATCH failed, whether or not the server executed it.                *)
PatchFails(id) ==
  /\ (Has("http") /\ ServerPatches(id)) \/ UNCHANGED server
  /\ \E f \in RequestFailures : Return(f.r, f.report)

\* Mutant: after the refresh that follows a 404 the PATCH is not repeated.
PatchMissesForGood ==
  /\ ~RowHasId(license.id)
  /\ Goto("postComputer", Heard)
  /\ why' = "refresh" /\ patchId' = 0
  /\ call' = [call EXCEPT !.cut = FALSE]
  /\ UNCHANGED server

(* 404: refresh_internal creates the row anew, then the PATCH is repeated. *)
PatchMisses ==
  /\ ~RowHasId(license.id)
  /\ Goto("postComputer", Heard)
  /\ why' = "rotated" /\ patchId' = license.id
  /\ call' = [call EXCEPT !.cut = FALSE]
  /\ UNCHANGED server

(* patch_license up to its first answer ...                                *)
PatchLicense ==
  /\ pc = "patch"
  /\ \/ Has("http") /\ PatchAccepted(license.id)
     \/ Has("http") /\ PatchMisses
     \/ PatchFails(license.id)
  /\ UNCHANGED <<held, store, env>>

\* Mutant: a second 404 is answered by a third PATCH, and so on.
RePatchLicenseAgain ==
  /\ pc = "rePatch"
  /\ \/ PatchAccepted(patchId)
     \/ /\ ~RowHasId(patchId)
        /\ Proceed("postComputer", Heard, FALSE)
        /\ UNCHANGED server
     \/ PatchFails(patchId)
  /\ UNCHANGED <<held, store, env>>

(* ... and the second PATCH, with the body of the first.                   *)
RePatchLicense ==
  /\ pc = "rePatch"
  /\ \/ PatchAccepted(patchId)
     \/ PatchFails(patchId)
  /\ UNCHANGED <<held, store, env>>
------------------------------------------------------------------------------
(* hlm_client_import                                                       *)

ImportRefusal(check) ==
  CASE check \in {"E_SIGNATURE", "E_UNSUPPORTED_ALG"} -> "SIGNATURE_INVALID"
    [] check = "E_PRODUCT_MISMATCH"                   -> "WRONG_PRODUCT"
    [] check = "E_COMPUTER_MISMATCH"                  -> "WRONG_COMPUTER"
    [] check \in {"E_FORMAT", "OK"}                   -> "NOT_A_LICENSE"

ImportMessage == [report EXCEPT !.err = "import"]

ImportReturns(r, rep) ==
  /\ ret' = r
  /\ report' = rep
  /\ freed' = (freed /\ r # "INSTALLED")
  /\ UNCHANGED <<cfg, pc, op, why, patchId, call, server, env>>

\* Mutant: the imported license is adopted before it is written.
ImportRefusedTooLate(d) ==
  /\ Has("write") /\ Verifies(d)
  /\ \E t \in LocalTimes : Adopt(d, ClampToFloor(t))
  /\ ImportReturns("WRITE_FAILED", ImportMessage)
  /\ UNCHANGED store

ImportRefused(d) ==
  /\ \/ ~Has("write") /\ ImportReturns("E_ARG", report)
     \/ /\ Has("write") /\ ~Verifies(d)
        /\ ImportReturns(ImportRefusal(d.check), ImportMessage)
     \/ /\ Has("write") /\ Verifies(d)
        /\ ImportReturns("WRITE_FAILED", ImportMessage)
  /\ UNCHANGED <<held, store>>

\* Mutant: the document is written before it is verified.
ImportInstallsUnverified(d) ==
  /\ Has("write") /\ d # NoDoc
  /\ store' = d
  /\ \E t \in LocalTimes : Adopt(d, ClampToFloor(t))
  /\ ImportReturns("INSTALLED", ImportMessage)

ImportInstalls(d) ==
  /\ Has("write") /\ Verifies(d)
  /\ store' = d
  /\ \E t \in LocalTimes : Adopt(d, ClampToFloor(t))
  /\ ImportReturns("INSTALLED", ImportMessage)

Import(d) == pc = "idle" /\ (ImportRefused(d) \/ ImportInstalls(d))
------------------------------------------------------------------------------
(* The world                                                               *)

(* License files the vendor's portal, a mail or a backup can hold: the     *)
(* row signed at any time since it last changed.                           *)
HandFiles ==
  IF row = NoRow THEN {}
  ELSE {Sign(row, t) : t \in Later(row.created, row.updated) .. now}

Tick ==
  /\ now < MaxTime
  /\ now' = now + 1
  /\ UNCHANGED <<cfg, held, pc, frame, ret, report, store, server, mishaps>>

Mishap(kind) ==
  /\ kind \in Mishaps /\ mishaps < MaxMishaps
  /\ mishaps' = mishaps + 1

(* The vendor deletes the row, or attaches or frees a code by hand.        *)
VendorEditsRow ==
  /\ Mishap("vendor")
  /\ row # NoRow
  /\ \/ row' = NoRow
     \/ \E c \in Codes \cup {NoCode} : c # row.code /\ row' = Attach(row, c, now)
  /\ call' = [call EXCEPT !.disturbed = (pc # "idle")]
  /\ freed' = FALSE
  /\ UNCHANGED <<cfg, held, pc, op, why, patchId, ret, report, store, nextId, now>>

(* Between calls the file is damaged, lost or replaced by an older copy.   *)
StoreChanges ==
  /\ Mishap("file")
  /\ pc = "idle"
  /\ store' \in ForeignDocs \cup {NoDoc} \cup HandFiles
  /\ freed' = FALSE
  /\ UNCHANGED <<cfg, held, pc, op, why, patchId, call, ret, report, server, now>>

NoReport == [net |-> "None", err |-> ""]

(* The process dies, in or between calls, and makes a new handle:          *)
(* hlm_client_init.                                                        *)
Restart ==
  /\ Mishap("crash")
  /\ license' = NoDoc /\ status' = "Unknown"
  /\ floor' = 0 /\ evalNow' = 0 /\ seen' = 0
  /\ pc' = "idle" /\ op' = "none" /\ why' = "check" /\ patchId' = 0 /\ call' = NoCall
  /\ ret' = "none" /\ report' = NoReport
  /\ UNCHANGED <<cfg, freed, store, server, now>>
------------------------------------------------------------------------------
Init ==
  /\ cfg \in Configs
  /\ license = NoDoc /\ status = "Unknown"
  /\ floor = 0 /\ evalNow = 0 /\ seen = 0
  /\ pc = "idle" /\ op = "none" /\ why = "check" /\ patchId = 0 /\ call = NoCall
  /\ freed = FALSE
  /\ ret = "none" /\ report = NoReport
  /\ store = NoDoc
  /\ row = NoRow /\ nextId = 1
  /\ now = 0 /\ mishaps = 0

(* The steps of a call, what the application does, and everything else.    *)
Step == \/ TimesyncAnswers \/ TimesyncUnavailable \/ NoTrustedSource \/ FetchTime
        \/ ReadCache \/ PostComputer \/ GetComputer \/ PostLicense
        \/ GetLicense \/ SaveLicense \/ PatchLicense \/ RePatchLicense

Application == \/ \E o \in Calls : Call(o)
               \/ \E d \in ForeignDocs \cup HandFiles : Import(d)

World == Tick \/ VendorEditsRow \/ StoreChanges \/ Restart

Next == Step \/ Application \/ World

Spec     == Init /\ [][Next]_vars
FairSpec == Spec /\ WF_vars(Step)
==============================================================================
