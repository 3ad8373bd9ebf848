------------------------------ MODULE Algorithms ------------------------------
(***************************************************************************)
(* The library's pure code at work: one job is picked, the code does it,   *)
(* and AlgorithmProperties compares the answer with a definition that does *)
(* not use the code's.  A job is a pair of its kind and its input; hashing *)
(* takes several steps, because a caller feeds a context piece by piece.   *)
(***************************************************************************)
EXTENDS Bignum, P256, Ed25519, ShaBuffer, Base64Url, CivilTime, JsonText, JsonScan, TrustedTime, FfiHandle

CONSTANTS ArithmeticJobs, RsaJobs, EcdsaJobs, EddsaJobs, HashJobs, Base64Jobs, DateJobs, StringJobs,
          NumberJobs, TextJobs, KeySetJobs, PayloadJobs, ImportJobs, TimeJobs, IdentityJobs, RequestJobs, RefusalJobs,
          OpenJobs, ScanJobs, SystemIdJobs

\* Numbers that have room, and a modulus to divide by.
ASSUME ArithmeticJobsAssumption ==
    \A j \in ArithmeticJobs :
        /\ \A bytes \in {j.a, j.b, j.m} : /\ bytes \in Seq(0..(TwoTo(ByteBits) - 1))
                                       /\ Len(bytes) * ByteBits <= MaxLimbs * LimbBits
        /\ BnValue(BnFromBytes(j.m)) > 0

\* The hosts asked for the time are honest, or silent, from the middle of the first era (1968) to that of the second.
ASSUME TimeJobsAssumption ==
    \A j \in TimeJobs :
        /\ j.true \in Int /\ j.ask.local \in Int
        /\ j.true + UnixOffset \in (EraSeconds \div 2)..(EraSeconds + EraSeconds \div 2 - 1)
        /\ {j.ask.pool, j.ask.vendor} \subseteq {Lost, (j.true + UnixOffset) % EraSeconds}
        /\ {j.ask.windows, j.ask.kept} \subseteq BOOLEAN

\* Any document, with byte order marks, blanks and NULs around it, for any host and keys it can use.
ASSUME ImportJobsAssumption ==
    \A j \in ImportJobs :
        /\ j.route \in {"document", "text", "file"}
        /\ j.document \in
              [before : Seq({"bom", "space", "nul"}), after : Seq({"bom", "space", "nul"}),
               jws : [parts : Nat, empty : 0..j.document.jws.parts, header : STRING, sigDecodes : BOOLEAN,
                      signedBy : STRING, payload : Nat, payloadDecodes : BOOLEAN, content : {j.document.jws.content}],
               foreign : BOOLEAN, length : Nat]
        /\ j.keys \in Seq([alg : Algs, id : STRING, health : Health])
        /\ {j.store.writes, j.store.writable} \subseteq BOOLEAN

ASSUME HashJobsAssumption == \A j \in HashJobs : j.hash \in Hashes /\ j.message \in Seq(Nat)

ASSUME Base64JobsAssumption ==
    \A j \in Base64Jobs : j.text \in Seq(Values \cup {Equals, Foreign}) /\ j.room \in Nat

ASSUME DateJobsAssumption ==
    \A j \in DateJobs : j \in [year : Nat, mon : Nat, day : Nat, hour : Nat, min : Nat, sec : Nat,
                               zone : [hours : Int, minutes : Int], rest : BOOLEAN]

\* Characters as they stand are ASCII here; the bytes of others are copied and not looked at.
ASSUME StringJobsAssumption ==
    \A j \in StringJobs :
        /\ j.units \in Seq([kind : {"plain", "escape", "u"}, value : Nat])
        /\ \A i \in DOMAIN j.units : j.units[i].value < (IF j.units[i].kind = "u" THEN 65536 ELSE 128)
        /\ j.room \in Nat

ASSUME NumberJobsAssumption == \A j \in NumberJobs : j.negative \in BOOLEAN /\ j.digits \in Seq(0..9)

ASSUME TextJobsAssumption ==
    \A j \in TextJobs : j.text \in Seq([kind : ItemKinds, text : STRING]) /\ j.room \in Nat

\* The same from the characters on: any text of named characters.
ASSUME ScanJobsAssumption == \A j \in ScanJobs : j.text \in Seq(STRING) /\ j.room \in Nat

\* One JWK, or any number of them in an array.
ASSUME KeySetJobsAssumption ==
    \A j \in KeySetJobs : /\ j.shape \in {"object", "array"} /\ j.set \in Seq(Jwks)
                          /\ j.shape = "object" => Len(j.set) = 1

VARIABLES job, phase, answer
vars == <<job, phase, answer>>

Kind == job[1]
Input == job[2]

Init ==
    /\ \/ \E j \in ArithmeticJobs : job = <<"arithmetic", j>>
       \/ \E j \in RsaJobs : job = <<"rsa", j>>
       \/ \E j \in EcdsaJobs : job = <<"ecdsa", j>>
       \/ \E j \in EddsaJobs : job = <<"eddsa", j>>
       \/ \E j \in HashJobs : job = <<"hash", j>>
       \/ \E j \in Base64Jobs : job = <<"base64", j>>
       \/ \E j \in DateJobs : job = <<"date", j>>
       \/ \E j \in StringJobs : job = <<"string", j>>
       \/ \E j \in NumberJobs : job = <<"number", j>>
       \/ \E j \in TextJobs : job = <<"json", j>>
       \/ \E j \in KeySetJobs : job = <<"keys", j>>
       \/ \E j \in PayloadJobs : job = <<"payload", j>>
       \/ \E j \in ImportJobs : job = <<"import", j>>
       \/ \E j \in TimeJobs : job = <<"time", j>>
       \/ \E j \in IdentityJobs : job = <<"identity", j>>
       \/ \E j \in RequestJobs : job = <<"request", j>>
       \/ \E j \in RefusalJobs : job = <<"refusal", j>>
       \/ \E j \in OpenJobs : job = <<"open", j>>
       \/ \E j \in ScanJobs : job = <<"scan", j>>
       \/ \E j \in SystemIdJobs : job = <<"systemid", j>>
    /\ phase = "new"
    /\ answer = <<>>

Answers(kind, value) ==
    /\ Kind = kind /\ phase = "new"
    /\ answer' = value
    /\ phase' = "done"
    /\ UNCHANGED job

\* Operands of the modular operations are reduced, as their callers' are.
Calculate ==
    LET a == BnFromBytes(Input.a)
        b == BnFromBytes(Input.b)
        m == BnFromBytes(Input.m)
        x == BnMod(a, m)
        y == BnMod(b, m)
    IN Answers("arithmetic",
           [cmp |-> BnCmp(a, b), sum |-> BnAdd(a, b),
            difference |-> IF BnCmp(a, b) >= 0 THEN BnSub(a, b) ELSE BnSub(b, a),
            remainder |-> x, modadd |-> BnModAdd(x, y, m), modsub |-> BnModSub(x, y, m),
            product |-> BnModMul(x, y, m), power |-> BnModExp(x, b, m),
            bytes |-> BnToBytes(a, Len(Input.b))])

CheckRsa == Answers("rsa", RsaVerify(Input.key, Input.sig, Input.hash))
CheckEcdsa == Answers("ecdsa", EcdsaVerify(Input.q, Input.hash, Input.sig))
CheckEddsa == Answers("eddsa", EdVerify(Input.pub, Input.sig))

StartHash ==
    /\ Kind = "hash" /\ phase = "new"
    /\ answer' = [fed |-> 0, ctx |-> ShaInit(Input.hash)]
    /\ phase' = "feeding"
    /\ UNCHANGED job

Feed ==
    /\ phase = "feeding"
    /\ \E n \in (answer.fed + 1)..Len(Input.message) :
           answer' = [fed |-> n, ctx |-> ShaUpdate(answer.ctx, SubSeq(Input.message, answer.fed + 1, n))]
    /\ UNCHANGED <<job, phase>>

FinishHash ==
    /\ phase = "feeding" /\ answer.fed = Len(Input.message)
    /\ answer' = ShaFinal(answer.ctx)
    /\ phase' = "done"
    /\ UNCHANGED job

DecodeBase64 ==
    LET decoded == B64Decode(Input.text, Input.room)
    IN Answers("base64", [decoded |-> decoded, again |-> B64Encode(decoded.bytes)])

ReadDate == Answers("date", ParseIso(Input))
ReadString == Answers("string", JsonString(Input.units, Input.room))
ReadNumber == Answers("number", JsonInt(Input.negative, Input.digits))
Tokenize == Answers("json", JsonParse(Input.text, Input.room))

Scan ==
    /\ Kind = "scan"
    /\ \E items \in {JsonItems(Input.text)} :
        Answers("scan", [items |-> items, parsed |-> JsonParse(items, Input.room)])

ReadKeys == Answers("keys", ParseJwks(Input))
ReadPayload ==
    /\ Kind = "payload"
    /\ \E lic \in {LicenseParse(Input.text)} : Answers("payload", [license |-> lic, shown |-> Shown(lic, "key")])

ImportFile ==
    /\ Kind = "import"
    /\ \E result \in {Imports(Input.document, Input.route, Input.keys, Input.me, Input.store)} :
       \E lic \in {SpokenOf(result, Input.document)} :
        Answers("import", [outcome |-> result.outcome, stored |-> result.stored,
                           says |-> ImportSays(result, Input.document, Input.route, Input.store, lic)])

AskTime == Answers("time", TrustedNow(Input.ask))

\* The hash between the text and its Base32 form is left out.
Identify ==
    LET serial == BaseboardSerial(Reported(Input.table, Input.length))
        text   == IF serial = Unknown THEN Unknown ELSE Joined(<<serial, Input.cpu>>)
    IN Answers("identity", [serial |-> serial, text |-> text, base32 |-> Crockford(text),
                            chosen |-> ChooseIdentity(text, Input.guid)])

AskSystem == Answers("systemid", [linux |-> LinuxMachineId(Input.files), windows |-> MachineGuid(Input.value)])

Compose ==
    LET base == Input.base.scheme \o Input.base.host \o Input.base.rest
    IN Answers("request",
           [computer |-> ComputerRequests(base, Input.me), license |-> LicenseBody(Input.product, Input.id),
            get |-> Url(base, LicensePath(Input.product, Input.id, "90", Input.alg)),
            patch |-> PatchBody(Input.id, Input.code), host |-> BaseUrlHost(base)])

Explain == Answers("refusal", [detail |-> CaptureErrorDetail(Input.text),
                               err |-> MapApiError(Input.status, Input.markers)])

OpenHandle ==
    /\ Kind = "open"
    /\ \E handle \in {FfiCreate(Input.asked, Input.machine)} :
        Answers("open",
            [handle |-> handle,
             sent   |-> IF handle = NoHandle THEN <<>> ELSE ComputerRequests(handle.base, handle)])

Next == \/ Calculate \/ CheckRsa \/ CheckEcdsa \/ CheckEddsa
        \/ StartHash \/ Feed \/ FinishHash
        \/ DecodeBase64 \/ ReadDate \/ ReadString \/ ReadNumber \/ Tokenize \/ Scan
        \/ ReadKeys \/ ReadPayload \/ ImportFile \/ AskTime \/ Identify \/ AskSystem
        \/ Compose \/ Explain \/ OpenHandle

Spec == Init /\ [][Next]_vars
=============================================================================
