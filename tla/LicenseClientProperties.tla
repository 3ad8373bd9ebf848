----------------------- MODULE LicenseClientProperties -----------------------
(***************************************************************************)
(* What LicenseClient is checked and proved to satisfy.                    *)
(***************************************************************************)
EXTENDS LicenseClient

(* The step on which a network call hands its result to the application.   *)
(* The frame of the call (op, call) is cleared by that very step, so the   *)
(* properties read it unprimed.                                            *)
Returns   == pc # "idle" /\ pc' = "idle" /\ ret' # "none"
ReturnsOK == Returns /\ ret' = "OK"

(* The handle never holds a document that failed verification, however the *)
(* cache file was damaged and whatever the server or a portal answered     *)
(* (adopt_license, hlm_client_import).                                     *)
OnlyVerifiedHeld == license # NoDoc => Verifies(license)

(* The trusted-time floor lies between what the held license proves about  *)
(* the date and the real date: it never forgets a signed stamp, and it     *)
(* never runs ahead and locks a paying user out (time_floor).              *)
FloorIsSound ==
  /\ license # NoDoc => license.created <= floor /\ license.updated <= floor
  /\ floor <= now + Skew

(* Winding the local clock back never resurrects a license: a verdict      *)
(* under which the application runs is reached only for a document that    *)
(* had not lapsed at any trusted time this handle was ever shown.          *)
NoResurrection ==
  [][(license' # NoDoc /\ <<license', status'>> # <<license, status>> /\ Usable(status'))
        => ~Lapsed(license'.expires, seen')]_vars

(* After refresh, activate or deactivate returned HLM_OK, the held license *)
(* was signed during that call, and the cache file holds that very one.    *)
SuccessIsFreshAndSaved ==
  [][(ReturnsOK /\ op \in {"refresh", "activate", "deactivate"})
        => /\ license'.expires >= call.began + ValidDays
           /\ Has("write") => store' = license']_vars

(* activate / deactivate report success only if the server accepted this   *)
(* call's PATCH; the license they leave carries the code (or no code)      *)
(* unless the vendor changed the row in the meantime.                      *)
SuccessMovesTheSeat ==
  [][(ReturnsOK /\ op \in {"activate", "deactivate"})
        => /\ call.accepted
           /\ ~call.disturbed =>
                license'.code = IF op = "activate" THEN ActCode ELSE NoCode]_vars

(* After refresh, activate or deactivate returned HLM_OK the held license  *)
(* is the server's row as it is now, unless the row was changed by the     *)
(* vendor since this call began or its PATCH was accepted: a retry settles *)
(* whatever an earlier call with a lost answer left open.                  *)
SuccessMatchesTheServer ==
  [][(ReturnsOK /\ op \in {"refresh", "activate", "deactivate"} /\ ~call.disturbed)
        => /\ row # NoRow
           /\ license'.id = row.id /\ license'.code = row.code
           /\ license'.updated = row.updated]_vars

(* A seat given back stays given back: once deactivate returned HLM_OK,    *)
(* neither the license in use nor the file a new process starts from       *)
(* carries the code, whatever fails later, until somebody brings it back   *)
(* (activate, a license file by hand, the vendor, an old copy of the file).*)
(* A handle that may not write the file cannot promise that.               *)
FreedSeatStaysFreed ==
  freed /\ Has("write") => \A d \in {license, store} : Verifies(d) => d.code = NoCode

(* check reports a transport failure only when there is no license to      *)
(* report on: offline, a verified license is surfaced, not an error.       *)
OfflineSurfacesTheLicense ==
  [][(Returns /\ op = "check" /\ ret' \in {"E_HTTP", "E_NO_LICENSE"})
        => license' = NoDoc]_vars

(* The network diagnosis is this call's: a cause is recorded only while    *)
(* this call's last request got no answer, and a call that ends in         *)
(* HLM_E_HTTP leaves a cause and the end-user message for it.              *)
NetworkDiagnosisIsCurrent ==
  /\ pc # "idle" /\ report.net # "None" => call.cut
  /\ pc = "idle" /\ ret = "E_HTTP" /\ Has("http")
       => report.net # "None" /\ report.err = "net"

(* The license in use and the one a new process would start from do not    *)
(* drift apart behind the application's back.  get_signed_license adopts   *)
(* and then writes, hlm_client_import writes and then adopts, check adopts *)
(* what it reads: whichever of them fails half way, memory and file are    *)
(* the same license again by the end of the call or the call returned      *)
(* HLM_E_STORAGE.  Only a crash or somebody else's hand on the file can    *)
(* part them otherwise.                                                    *)
OnlyAReportPartsThem ==
  [][(Has("write") /\ (license = store \/ pc = "save") /\ ~StoreChanges /\ ~Restart)
        => license' = store' \/ pc' = "save" \/ ret' = "E_STORAGE"]_vars

(* The client writes nothing but verified documents to the cache.          *)
OnlyVerifiedSaved == [][store' # store /\ ~StoreChanges => Verifies(store')]_vars

(* A license can only get worse with time: whatever rules apply to it, a   *)
(* moment at which it is usable is preceded only by usable ones            *)
(* (hlm_license_status).                                                   *)
VerdictOnlyWorsens ==
  license # NoDoc =>
    \A t \in 0 .. MaxTime + ValidDays : \A s \in 0 .. t :
      Usable(LicenseStatusOf(license, t)) => Usable(LicenseStatusOf(license, s))

(* Every call returns.                                                     *)
CallsReturn == pc # "idle" ~> pc = "idle"

(* The handle keeps the promises of LicenseHolder.                         *)
Holder == INSTANCE LicenseHolder WITH
  held <- license, verdict <- status, at <- evalNow, shown <- seen
HoldsLikeAHolder == Holder!HolderSpec
------------------------------------------------------------------------------
(* What the repository says and the code does not do.  Each is checked by  *)
(* a run that finds it violated.                                           *)

(* "license row rotated server-side: recreate, then retry the patch"       *)
(* (hlm_client.c:680): the PATCH is retried for the recreated row.         *)
RecreatedRowIsPatched == pc = "rePatch" => patchId = license.id

(* "offline with a verified-but-expired cache surfaces Expired instead of  *)
(* failing" (README.md:235) and "every status decision in that call uses   *)
(* [the trusted time]" (hlm_client.c:22): after check returned HLM_OK the  *)
(* status is the one the held license has at that call's time.             *)
CheckedStatusIsCurrent ==
  pc = "idle" /\ ret = "OK" /\ license # NoDoc
    => status = LicenseStatusOf(license, ClampToFloor(evalNow))

(* last_error is "the server's refusal detail, the network-failure message *)
(* (HLM_E_HTTP), or the import outcome message ("" if none)" (hlm.h:538):  *)
(* a call that fails without any of those leaves no message behind.        *)
MessageIsOfThisCall ==
  [][(Returns /\ ret' \in {"E_SIGNATURE", "E_FORMAT", "E_STORAGE", "E_AUTH"})
        => report'.err = ""]_vars
==============================================================================
