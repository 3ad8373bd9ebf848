----------------------------- MODULE LicenseFile -----------------------------
(***************************************************************************)
(* Reading a signed license and installing one by hand (core/hlm_license.c)*)
(* on top of the tokenizer (Json) and the signature check (Jws).           *)
(* Texts are what string tokens say; NumberOf and InstantOf give what the  *)
(* readable ones stand for, and LowerOf their letters in lower case.       *)
(***************************************************************************)
EXTENDS Json, Jws

CONSTANTS NumberOf, InstantOf, LowerOf,
          TooLong,      \* texts that overflow the field they are read into
          StatusNames,
          PayloadToks,  \* 160 in the code
          MaxMetadata,  \* 8
          WorkBuf       \* HLM_CLIENT_BUF, for the payload and, less one, for a file

ASSUME LicenseFileAssumption == WorkBuf \in Nat

NoTime == "HLM_TIME_NONE"
Unreadable == <<>>

Camel == [Id |-> "id", Status |-> "status", LiveMode |-> "liveMode", TrialEndDate |-> "trialEndDate",
          FirstPaidOn |-> "firstPaidOn", Expires |-> "expires", Created |-> "created", Updated |-> "updated",
          Receipt |-> "receipt", Code |-> "code", BuyerEmail |-> "buyerEmail", Qty |-> "qty",
          Product |-> "product", Name |-> "name", Vendor |-> "vendor", Computer |-> "computer",
          MacAddress |-> "macAddress", Metadata |-> "metadata", Key |-> "key", Value |-> "value"]

Strings == {<<"Id">>, <<"Receipt", "Id">>, <<"Receipt", "Code">>, <<"Receipt", "BuyerEmail">>,
            <<"Product", "Id">>, <<"Product", "Name">>, <<"Product", "Vendor", "Id">>,
            <<"Product", "Vendor", "Name">>, <<"Computer", "Id">>, <<"Computer", "MacAddress">>,
            <<"Computer", "Name">>}
Times == {<<"TrialEndDate">>, <<"FirstPaidOn">>, <<"Expires">>, <<"Created">>, <<"Updated">>,
          <<"Receipt", "Expires">>}

Member2(toks, obj, name) ==
    LET t == JsonMember(toks, obj, name) IN IF t # NoTok THEN t ELSE JsonMember(toks, obj, Camel[name])

\* The token a path of names leads to from obj.
At(toks, obj, path) ==
    LET at[i \in 0..Len(path)] == IF i = 0 THEN obj ELSE Member2(toks, at[i - 1], path[i])
    IN at[Len(path)]

Present(toks, t) == t # NoTok /\ (toks[t].type # "primitive" \/ toks[t].text # "null")

\* A string that is absent, of another type or too long for its field is read as empty.
GetString(toks, obj, path) ==
    LET t == At(toks, obj, path)
    IN IF t = NoTok \/ toks[t].type # "string" \/ toks[t].text \in TooLong THEN "" ELSE toks[t].text

\* A time that is absent or unreadable is no time.
GetTime(toks, path) ==
    LET t == At(toks, 1, path)
    IN IF t = NoTok \/ toks[t].type # "string" \/ toks[t].text \notin DOMAIN InstantOf
       THEN NoTime ELSE InstantOf[toks[t].text]

StatusFromName(name) == IF name \in StatusNames THEN name ELSE "Unknown"

LiveMode(toks) ==
    LET t == At(toks, 1, <<"LiveMode">>)
    IN t = NoTok \/ toks[t].type # "primitive" \/ toks[t].text # "false"

Quantity(toks) ==
    LET t == At(toks, 1, <<"Receipt", "Qty">>)
    IN IF t = NoTok \/ toks[t].type # "primitive" \/ toks[t].text \notin DOMAIN NumberOf
       THEN 0 ELSE NumberOf[toks[t].text]

\* The first MaxMetadata elements; one without a key takes no place.
Metadata(toks) ==
    LET arr  == At(toks, 1, <<"Metadata">>)
        Pair2(i) == LET el == JsonElement(toks, arr, i)
                    IN [key |-> GetString(toks, el, <<"Key">>), value |-> GetString(toks, el, <<"Value">>)]
        read[i \in 0..MaxMetadata] ==
            IF i = 0 THEN <<>>
            ELSE IF JsonElement(toks, arr, i - 1) = NoTok \/ Pair2(i - 1).key = ""
                 THEN read[i - 1] ELSE Append(read[i - 1], Pair2(i - 1))
    IN IF arr = NoTok THEN <<>> ELSE read[MaxMetadata]

\* A license needs its id, a product with an id and a computer.
Readable(parsed) ==
    /\ parsed.err = 0
    /\ parsed.toks[1].type = "{"
    /\ GetString(parsed.toks, 1, <<"Id">>) # "" /\ GetString(parsed.toks, 1, <<"Product", "Id">>) # ""
    /\ Present(parsed.toks, At(parsed.toks, 1, <<"Computer">>))

LicenseOf(toks) == [strings  |-> [f \in Strings |-> GetString(toks, 1, f)],
                    times    |-> [f \in Times |-> GetTime(toks, f)],
                    status   |-> StatusFromName(GetString(toks, 1, <<"Status">>)),
                    live     |-> LiveMode(toks),
                    receipt  |-> Present(toks, At(toks, 1, <<"Receipt">>)),
                    qty      |-> Quantity(toks),
                    metadata |-> Metadata(toks)]

LicenseRead(parsed) == IF Readable(parsed) THEN LicenseOf(parsed.toks) ELSE Unreadable
LicenseParse(payload) == LicenseRead(JsonParse(payload, PayloadToks))

SameText(a, b) == LowerOf[a] = LowerOf[b]

\* me: what the host expects; a legacy identity is the one this machine had before.
IsMachine(id, me) == SameText(id, me.machine) \/ (me.legacy # "" /\ SameText(id, me.legacy))

Matches(lic, me) ==
    CASE lic = Unreadable -> "E_FORMAT"
      [] lic # Unreadable /\ ~ SameText(lic.strings[<<"Product", "Id">>], me.product) -> "E_PRODUCT_MISMATCH"
      [] OTHER -> IF IsMachine(lic.strings[<<"Computer", "MacAddress">>], me) THEN "OK" ELSE "E_COMPUTER_MISMATCH"

CheckVerified(verdict, jws, me) == IF verdict = "OK" THEN Matches(LicenseParse(jws.content), me) ELSE verdict
CheckMachine(jws, keys, me) == CheckVerified(JwsVerify(jws, keys, WorkBuf), jws, me)

\* A byte order mark if it comes first, then white space on both sides; the length is left as it was.
Blank == {"space", "nul"}
Unless(blank, s) == IF \A i \in DOMAIN s : s[i] \in blank THEN <<>> ELSE s

\* Mutant: the byte order mark stays.
TrimmedOfBlanks(doc) == [doc EXCEPT !.before = Unless(Blank, @), !.after = Unless(Blank, @)]

Trimmed(doc) ==
    LET unmarked == IF doc.before # <<>> /\ doc.before[1] = "bom" THEN Tail(doc.before) ELSE doc.before
    IN [doc EXCEPT !.before = Unless(Blank, unmarked), !.after = Unless(Blank, doc.after)]

LooksLikeJws(doc) == /\ doc.before = <<>> /\ doc.after = <<>> /\ ~ doc.foreign
                     /\ doc.jws.parts = 3 /\ doc.jws.empty \notin 1..3

ImportOutcome(check) ==
    CASE check \in {"E_SIGNATURE", "E_UNSUPPORTED_ALG"} -> "SignatureInvalid"
      [] check = "E_PRODUCT_MISMATCH"                   -> "WrongProduct"
      [] check = "E_COMPUTER_MISMATCH"                  -> "WrongComputer"
      [] check \in {"E_ARG", "E_FORMAT", "E_BUFFER"}    -> "NotALicenseFile"

\* What hlm_license_import returns and what is in the store when it does.
Refused(outcome, store) == [outcome |-> outcome, stored |-> store.content]
Checked(check, doc, store) ==
    CASE check # "OK"                      -> Refused(ImportOutcome(check), store)
      [] check = "OK" /\ store.writable    -> [outcome |-> "Installed", stored |-> doc]
      [] check = "OK" /\ ~ store.writable  -> Refused("WriteFailed", store)

Imported(doc, keys, me, store) ==
    CASE ~ LooksLikeJws(doc)                       -> Refused("NotALicenseFile", store)
      [] LooksLikeJws(doc) /\ keys = <<>>          -> Refused("NoPublicKey", store)
      [] LooksLikeJws(doc) /\ keys # <<>>          -> Checked(CheckMachine(doc.jws, keys, me), doc, store)

\* Without a storage port to write to there is nothing to install into.
LicenseImport(given, keys, me, store) ==
    IF store.writes THEN Imported(Trimmed(given), keys, me, store) ELSE Refused("E_ARG", store)

\* The offline launch: a file that fills the buffer is too large, and only white space is tolerated around it.
OfflineLaunch(stored, keys, me) ==
    LET bare == Unless({"space"}, stored.before) = <<>> /\ Unless({"space"}, stored.after) = <<>>
    IN CASE stored.length >= WorkBuf - 1               -> "E_BUFFER"
         [] stored.length < WorkBuf - 1 /\ ~ bare      -> "E_FORMAT"
         [] stored.length < WorkBuf - 1 /\ bare        -> CheckMachine(stored.jws, keys, me)
=============================================================================
