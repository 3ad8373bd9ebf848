------------------------------ MODULE FfiHandle ------------------------------
(***************************************************************************)
(* The handle of the flat interface (core/hlm_ffi.c) the wrappers use:     *)
(* what hlm_ffi_create makes of its arguments, what its two imports hand   *)
(* to the client and say of the outcome, and what its accessors show of a  *)
(* license.  A C string is a sequence of characters, NULL is Null.         *)
(***************************************************************************)
EXTENDS KeySet, LicenseFile, MachineId, Wire

CONSTANTS StrRoom   \* FFI_MAX_STR, 512; MachineRoom and NameRoom are Wire's

Null == <<"NULL">>
NoHandle == <<>>
DefaultBase == <<"https", ":", "/", "/", "host", "/">>

\* Mutant: a string that does not fit is cut.
CopyStrCut(src, room) == IF src = Null THEN <<>> ELSE SubSeq(src, 1, Min({Len(src), room - 1}))

CopyStr(src, room) ==
    CASE src = Null                          -> <<>>
      [] src # Null /\ Len(src) >= room      -> NoFit
      [] src # Null /\ Len(src) < room       -> src

\* machine: what the operating system tells of this computer, Unknown where it does not.
IdentityOf(id, machine) ==
    IF id = Null THEN ChooseIdentity(machine.v1, machine.v2)
    ELSE [id |-> CopyStr(id, MachineRoom), legacy |-> Unknown]

NameOf(name, machine) == IF name = Null THEN machine.name ELSE CopyStr(name, NameRoom)

\* The defaults are hlm_client_init's.
Configured(texts, identity, name, asked) ==
    [base    |-> IF texts.base = <<>> THEN DefaultBase ELSE texts.base,
     product |-> texts.product, apiKey |-> texts.apiKey, path |-> texts.path,
     stores  |-> texts.path # <<>>,
     machine |-> identity.id, legacy |-> identity.legacy, name |-> name,
     days    |-> IF asked.days = 0 THEN 90 ELSE asked.days,
     format  |-> IF asked.format \in DOMAIN <<"RS256", "ES256", "EdDSA">> THEN asked.format ELSE 1,
     keys    |-> ParseJwks(asked.jwks).keys]

FfiCreate(asked, machine) ==
    LET texts == [f \in {"base", "product", "apiKey", "path"} |-> CopyStr(asked[f], StrRoom)]
        identity == IdentityOf(asked.id, machine)
        name  == NameOf(asked.name, machine)
        fails == \/ Null \in {asked.product, asked.apiKey}
                 \/ \E f \in DOMAIN texts : texts[f] = NoFit
                 \/ ParseJwks(asked.jwks).err # "OK"
                 \/ identity = Unknown
                 \/ identity.id = NoFit
                 \/ name = NoFit
                 \/ asked.name = Null /\ machine.name = Unknown
    IN IF fails THEN NoHandle ELSE Configured(texts, identity, name, asked)

(***************************************************************************)
(* The imports.  Both end a document at its first NUL, as C strings do.    *)
(***************************************************************************)
BeforeNul(s) == SubSeq(s, 1, Min({i \in DOMAIN s : s[i] = "nul"} \cup {Len(s) + 1}) - 1)
HasNul(s) == \E i \in DOMAIN s : s[i] = "nul"
UpToNul(doc) ==
    IF HasNul(doc.before) THEN [doc EXCEPT !.before = BeforeNul(@), !.jws.parts = 0, !.after = <<>>]
    ELSE [doc EXCEPT !.after = BeforeNul(@)]

\* hlm_import_message: what the message names besides the outcome.
Named(name, unnamed) == IF name = "" THEN unnamed ELSE name
ImportMessage(outcome, lic, location) ==
    CASE outcome = "WrongProduct"  -> <<outcome, Named(lic.strings[<<"Product", "Name">>], "another product")>>
      [] outcome = "WrongComputer" -> <<outcome, Named(lic.strings[<<"Computer", "Name">>], "another computer")>>
      [] outcome = "WriteFailed"   -> <<outcome, location>>
      [] outcome = "E_ARG"         -> <<"unchanged">>
      [] OTHER                     -> <<outcome>>

\* What is handed to hlm_license_import: all of a document, or what a C string shows of it.
Handed(doc, route) == IF route = "document" THEN doc ELSE UpToNul(doc)

\* A file goes through the client's own buffer first.
Unread(doc, route, store) ==
    CASE route # "file" \/ ~ store.writes                           -> "read"
      [] route = "file" /\ store.writes /\ doc.length >= WorkBuf - 1 -> "too large"
      [] route = "file" /\ store.writes /\ doc.length = 0            -> "could not be read"
      [] OTHER                                                      -> "read"

Imports(doc, route, keys, me, store) ==
    IF Unread(doc, route, store) = "read" THEN LicenseImport(Handed(doc, route), keys, me, store)
    ELSE Refused("NotALicenseFile", store)

\* The license a message may have to speak of.
SpokenOf(result, doc) ==
    IF result.outcome \in {"WrongProduct", "WrongComputer"} THEN LicenseParse(doc.jws.content) ELSE Unreadable

\* last_error afterwards: hlm_client_import's message does not name the file, the flat interface's does.
ImportSays(result, doc, route, store, lic) ==
    IF Unread(doc, route, store) = "read"
    THEN ImportMessage(result.outcome, lic, IF route = "document" THEN "" ELSE "license_path")
    ELSE <<Unread(doc, route, store)>>

(***************************************************************************)
(* The accessors: neutral values without a license, and the receipt's only *)
(* if there is one.                                                        *)
(***************************************************************************)
MetadataOf(lic, key) ==
    LET at == {i \in DOMAIN lic.metadata : lic.metadata[i].key = key}
    IN IF at = {} THEN "" ELSE lic.metadata[Min(at)].value

NothingShown == [id |-> "", product |-> "", email |-> "", expires |-> NoTime, trialEnd |-> NoTime,
                 receiptExpires |-> NoTime, live |-> TRUE, value |-> ""]

Shown(lic, key) ==
    IF lic = Unreadable THEN NothingShown
    ELSE [id |-> lic.strings[<<"Id">>], product |-> lic.strings[<<"Product", "Name">>],
          trialEnd |-> lic.times[<<"TrialEndDate">>], expires |-> lic.times[<<"Expires">>], live |-> lic.live,
          value |-> MetadataOf(lic, key),
          email |-> IF lic.receipt THEN lic.strings[<<"Receipt", "BuyerEmail">>] ELSE "",
          receiptExpires |-> IF lic.receipt THEN lic.times[<<"Receipt", "Expires">>] ELSE NoTime]
=============================================================================
