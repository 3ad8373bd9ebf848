----------------------------- MODULE MCAlgorithms -----------------------------
(***************************************************************************)
(* The jobs TLC checks: operands at the edges of limbs, blocks, symbols    *)
(* and eras, and every short input where there are few enough.             *)
(***************************************************************************)
EXTENDS AlgorithmProperties, SequencesExt

BigEndian(n, base, len) == [i \in 1..len |-> (n \div base ^ (len - i)) % base]

\* Two-bit limbs, four of them, and one-bit bytes.
MCOperands == {0, 1, 3, 4, 7, 15, 16, 31, 47, 62, 63, 64, 200, 255}
MCModuli == {1, 2, 4, 13, 15, 16, 17, 48, 63, 129, 255}
MCArithmeticJobs ==
    {[a |-> BigEndian(a, 2, 8), b |-> BigEndian(b, 2, w), m |-> BigEndian(m, 2, 8)] :
         a \in MCOperands, b \in MCOperands \cap 0..63, w \in {6}, m \in MCModuli}

\* n = 53 * 61: six bytes of two bits.
MCDigestInfo == <<2>>
RsaKey(n, e) == [n |-> n, e |-> e]
MCModulus == BigEndian(3233, 4, 6)
MCExponent == <<1, 0, 1>>
MCRsaJobs ==
    {[key |-> RsaKey(MCModulus, MCExponent), sig |-> BigEndian(s, 4, 6), hash |-> <<h>>] :
         s \in 0..4095, h \in {1}}
    \cup {[key |-> RsaKey(<<0>> \o MCModulus, MCExponent),
           sig |-> BigEndian(ModPow(Number(Encoding(<<h>>, 6)), RsaPrivate, 3233) + over, 4, len),
           hash |-> <<g>>] : h \in 0..3, g \in 0..3, over \in {0, 3233}, len \in {6, 7}}
    \cup {[key |-> RsaKey(n, e), sig |-> BigEndian(s, 4, 6), hash |-> <<1>>] :
         n \in {MCModulus, SubSeq(MCModulus, 1, 5)}, e \in {<<1>>, <<1, 0>>, <<>>, BigEndian(17, 4, 8)},
         s \in {1, 452, 900}}

\* y^2 = x^3 - 3x + 15 over 23 elements, 17 points.
MCGenerator == [x |-> 1, y |-> 6]
MCEcdsaJobs ==
    {[q |-> AffineMultiple(d, MCGenerator), hash |-> e, sig |-> [r |-> r, s |-> s]] :
         d \in {1, 2, 5, 16}, e \in {0, 3, 16, 17, 31}, r \in 0..18, s \in {0, 1, 2, 8, 15, 16, 17, 18}}
    \cup {[q |-> [x |-> x, y |-> y], hash |-> 3, sig |-> [r |-> 4, s |-> 5]] :
         x \in 0..24, y \in {0, 1, 6, 17, 22, 23, 24, 29}}

\* Signatures made with the private keys, and changed ones.
MCEdL == (0 :> 5) @@ (1 :> 2) @@ (2 :> 0) @@ (3 :> 4)
Radix8(n, len) == [i \in 0..(len - 1) |-> (n \div 8 ^ i) % 8]
Encoded(a) == [y |-> FeOf(a.y), sign |-> a.x % 2]
Signature(r, s, h) == [r |-> r, s |-> Radix8(s, 4), hash |-> Radix8(h, 8)]
EdJob(d, nonce, h, more) ==
    [pub |-> Encoded(EdTimes(d, EdG)),
     sig |-> Signature(Encoded(EdTimes(nonce, EdG)), ((nonce + (h % 2069) * d) % 2069) + more, h)]
Points == {[y |-> FeOf(y), sign |-> sign] : y \in {0, 1, 2, 3, 16380, 16381, 16382, 16383}, sign \in {0, 1}}
MCEddsaJobs ==
    {EdJob(d, nonce, h, 0) : d \in {1, 2, 1000, 2068}, nonce \in {1, 7, 2068}, h \in {0, 1, 2068, 2069, 16777215}}
    \cup {EdJob(d, 7, h, more) : d \in {2, 1000}, h \in {1, 4711}, more \in {1, 2069}}
    \cup {[pub |-> pub, sig |-> Signature(Encoded(EdOne), 0, h)] : pub \in Points, h \in {0, 8, 2069}}
    \cup {[pub |-> Encoded(EdTimes(5, EdG)), sig |-> Signature(r, 3, 9)] : r \in Points}

\* Blocks of 6 and 10 bytes; the counter of SHA-512 carries after 8 bytes, that of SHA-256 never.
PerHash(a, b) == [h \in Hashes |-> IF h = "sha256" THEN a ELSE b]
MCBlockSize == PerHash(6, 10)
MCLengthBytes == PerHash(2, 4)
MCWordBits == PerHash(8, 6)
MCHashJobs == {[hash |-> h, message |-> [i \in 1..n |-> i]] : h \in Hashes, n \in 0..25}

MCBase64Jobs ==
    {[text |-> t, room |-> room] : t \in BoundedSeq({0, 1, 4, 7, Equals, Foreign}, 4), room \in {0, 2, 3}}
    \cup {[text |-> t, room |-> 4] : t \in BoundedSeq({0, 1, 7}, 6)}

Date(y, m, d) == [year |-> y, mon |-> m, day |-> d, hour |-> 0, min |-> 0, sec |-> 0,
                  zone |-> [hours |-> 0, minutes |-> 0], rest |-> FALSE]
MCDateJobs ==
    {Date(y, m, d) : y \in {1, 4, 399, 400, 1600, 1899, 1900, 1969, 1970, 1999, 2000, 2023, 2024, 2026, 2100, 2400},
                     m \in 0..13, d \in {1, 15, 28, 29, 30, 31, 32}}
    \cup {[Date(2024, 2, 29) EXCEPT !.hour = hour, !.min = min, !.sec = sec, !.zone = zone, !.rest = rest] :
             hour \in {0, 23, 24}, min \in {0, 59, 60}, sec \in {0, 60, 61}, rest \in BOOLEAN,
             zone \in {[hours |-> 0, minutes |-> 0], [hours |-> 5, minutes |-> 30], [hours |-> -11, minutes |-> -45]}}

Unit(kind, value) == [kind |-> kind, value |-> value]
MCStringJobs ==
    {[units |-> u, room |-> room] : room \in {1, 4, 5, 13},
         u \in BoundedSeq({Unit("plain", 97), Unit("escape", 10), Unit("u", 127), Unit("u", 128), Unit("u", 2047),
                       Unit("u", 2048), Unit("u", 55296), Unit("u", 56319), Unit("u", 56320), Unit("u", 57343),
                       Unit("u", 65535)}, 3)}
MCNumberJobs == {[negative |-> n, digits |-> d] : n \in BOOLEAN, d \in BoundedSeq({0, 1, 2, 7, 8, 9}, 4)}

MCTextJobs ==
    {[text |-> t, room |-> 3] :
         t \in BoundedSeq({Item(k, "a") : k \in Open \cup Close \cup {",", "string", "primitive"}}, 5)}
    \cup {[text |-> t, room |-> 4] :
         t \in BoundedSeq({Item(k, "a") : k \in {"{", "}", "[", "string", ":", "unended", "illformed"}}, 4)}

\* Characters: every short text, and escapes that go on, end early or have other than hex digits.
MCScanJobs ==
    {[text |-> t, room |-> 3] :
         t \in BoundedSeq({"quote", "backslash", "u", "b", "{", "}", "newline"}, 4)}
    \cup {[text |-> t, room |-> 3] : t \in BoundedSeq({"[", ":", "space", "quote", "hex", "ctrl", "high"}, 4)}
    \cup {[text |-> <<"quote", "n", "backslash", "u">> \o t, room |-> 2] : t \in BoundedSeq({"hex", "n", "quote"}, 6)}
    \cup {[text |-> <<"quote">> \o t, room |-> 1] : t \in BoundedSeq({"backslash", "quote", "n"}, 6)}

Jwk(kty, toks, len) == [kty |-> kty, toks |-> toks, len |-> len]
Rsa(n, e) == Jwk("RSA", 9, [n |-> n, e |-> e])
Coordinates(x, y) == Jwk("EC", 9, [x |-> x, y |-> y])
MCJwks == {Rsa(256, 3), Rsa(512, 3), Coordinates(32, 32), Jwk("OKP", 7, [x |-> 32]), Rsa(1000, 4)}
MCBadJwks == {Rsa(256, Missing), Coordinates(32, 33), Coordinates(33, 32), Jwk("OKP", 7, [x |-> 31]),
              Jwk("absent", 5, [x |-> 32]), Jwk("oct", 5, [x |-> 32]), Jwk("RSA", 33, [n |-> 256, e |-> 3])}
Set(shape, keys) == [shape |-> shape, set |-> keys]
MCKeySetJobs ==
    {Set("array", k) : k \in BoundedSeq(MCJwks, 5)}
    \cup {Set("array", k) : k \in BoundedSeq(MCBadJwks \cup {Coordinates(32, 32)}, 3)}
    \cup {Set("array", [i \in 1..n |-> Coordinates(32, 32)]) : n \in 13..16}
    \cup {Set("object", <<k>>) : k \in MCJwks \cup MCBadJwks}

\* A license is rendered member by member, with commas between, in either naming.
Text(t) == <<Item("string", t)>>
Word(w) == <<Item("primitive", w)>>
Commas(parts) == FlattenSeq([i \in DOMAIN parts |-> IF i = 1 THEN parts[i] ELSE <<Item(",", "")>> \o parts[i]])
Object(members) == <<Item("{", "")>> \o Commas(members) \o <<Item("}", "")>>
Array(elements) == <<Item("[", "")>> \o Commas(elements) \o <<Item("]", "")>>

MCInstantOf == [noon |-> 43200, night |-> 86400]
MCNumberOf == [three |-> 3]
MCTooLong == {"toolong"}
MCStatusNames == {"Expired", "Valid", "ValidTrial", "InvalidTrial", "ReceiptExpired", "ReceiptUnregistered"}
MCLowerOf == [PRD |-> "prd", prd |-> "prd", PRX |-> "prx", MAC |-> "mac", mac |-> "mac", OLD |-> "old", old |-> "old", xxx |-> "xxx", XXX |-> "xxx"] @@ ("" :> "")

MCValue(i) == IF i = 1 THEN "first" ELSE "later"

\* with.naming renders a name; with.order turns the members round; with.extra puts members in nobody knows.
Rendered(lic, with) ==
    LET M(name, value) == <<Item("string", IF with.camel THEN Camel[name] ELSE name), Item(":", "")>> \o value
        Ordered(ms) == IF with.reversed THEN Reverse(ms) ELSE ms
        Extra == IF with.extra THEN << <<Item("string", "Notes")>> \o Object(<<M("Id", Text("note")), M("Product", Object(<<M("Id", Text("PRX"))>>))>>) >> ELSE <<>>
        Receipt == Object(Ordered(<<M("Id", Text("rct")), M("Code", Text("code")), M("Qty", Word("three")), M("BuyerEmail", Text("mail")),
                                    M("Expires", Text("night"))>>))
        Vendor  == Object(<<M("Id", Text("vnd"))>>)
        Product == Object(Ordered(<<M("Id", Text(lic.product)), M("Name", Text("prod")), M("Vendor", Vendor)>>))
        Pairs   == [i \in 1..lic.pairs |-> Object(<<M("Key", Text(IF i = 2 THEN "" ELSE "key")), M("Value", Text(MCValue(i)))>>)]
    IN Object(Ordered(
           Extra
           \o (IF lic.receipt THEN <<M("Receipt", Receipt)>> ELSE <<M("Receipt", Word("null"))>>)
           \o <<M("Product", Product)>>
           \o (IF lic.computer = "" THEN <<>> ELSE <<M("Computer", Object(<<M("Id", Text("cmp")), M("MacAddress", Text(lic.computer))>>))>>)
           \o <<M("Id", Text(lic.id)), M("Status", Text(lic.status)), M("LiveMode", Word("false")),
                M("Expires", Text(lic.expires)), M("Metadata", Array(Pairs))>>))

Read(lic) ==
    IF lic.id \in MCTooLong \cup {""} \/ lic.product = "" \/ lic.computer = "" THEN Unreadable
    ELSE [strings  |-> [f \in Strings |->
              CASE f = <<"Id">> -> lic.id
                [] f = <<"Product", "Id">> -> lic.product [] f = <<"Product", "Name">> -> "prod"
                [] f = <<"Product", "Vendor", "Id">> -> "vnd"
                [] f = <<"Computer", "Id">> -> "cmp" [] f = <<"Computer", "MacAddress">> -> lic.computer
                [] f = <<"Receipt", "Id">> -> IF lic.receipt THEN "rct" ELSE ""
                [] f = <<"Receipt", "Code">> -> IF lic.receipt THEN "code" ELSE ""
                [] f = <<"Receipt", "BuyerEmail">> -> IF lic.receipt THEN "mail" ELSE ""
                [] OTHER -> ""],
          times    |-> [f \in Times |->
              CASE f = <<"Expires">> /\ lic.expires \in DOMAIN MCInstantOf -> MCInstantOf[lic.expires]
                [] f = <<"Receipt", "Expires">> /\ lic.receipt -> 86400
                [] OTHER -> NoTime],
          status   |-> IF lic.status \in MCStatusNames THEN lic.status ELSE "Unknown",
          live     |-> FALSE,
          receipt  |-> lic.receipt,
          qty      |-> IF lic.receipt THEN 3 ELSE 0,
          metadata |-> [i \in 1..(IF lic.pairs > 3 THEN 2 ELSE IF lic.pairs > 1 THEN lic.pairs - 1 ELSE lic.pairs) |->
                            [key |-> "key", value |-> MCValue(IF i = 1 THEN 1 ELSE 3)]]]

License(id, product, computer) == [id |-> id, product |-> product, computer |-> computer, status |-> "Valid",
                                   expires |-> "noon", receipt |-> TRUE, pairs |-> 1]
Plain == [camel |-> FALSE, reversed |-> FALSE, extra |-> FALSE]
Renderings == [camel : BOOLEAN, reversed : BOOLEAN, extra : BOOLEAN]
MCLicenses ==
    {[License(id, "prd", "mac") EXCEPT !.receipt = r, !.pairs = n, !.expires = e] :
         id \in {"lic", "", "toolong"}, r \in BOOLEAN, n \in 0..4, e \in {"noon", "soon"}}
    \cup {[License("lic", p, c) EXCEPT !.status = st] : p \in {"prd", ""}, c \in {"mac", ""}, st \in {"Expired", "Lost"}}
MCPayloadJobs ==
    {[text |-> Rendered(lic, with), license |-> Read(lic)] : lic \in MCLicenses, with \in Renderings}
    \cup {[text |-> Rendered([License("lic", "prd", "mac") EXCEPT !.pairs = 6], Plain), license |-> Unreadable]}
    \cup {[text |-> SubSeq(Rendered(License("lic", "prd", "mac"), Plain), 1, n), license |-> Unreadable] :
              n \in 0..(Len(Rendered(License("lic", "prd", "mac"), Plain)) - 1)}

\* Documents that differ from a good one in one or two respects.
MCKeyRing == {[alg |-> "RS256", id |-> "vendor", health |-> "good"], [alg |-> "RS256", id |-> "other", health |-> "good"],
              [alg |-> "RS256", id |-> "broken", health |-> "unusable"], [alg |-> "ES256", id |-> "curve", health |-> "good"],
              [alg |-> "ES256", id |-> "curve", health |-> "noprovider"]}
MCContents == {Rendered(License("lic", p, c), Plain) : p \in {"PRD", "PRX"}, c \in {"MAC", "OLD", "XXX", ""}}
Good == Rendered(License("lic", "PRD", "MAC"), Plain)
Signed(header, by, content) == [parts |-> 3, empty |-> 0, header |-> header, sigDecodes |-> TRUE, signedBy |-> by,
                                payload |-> 300, payloadDecodes |-> TRUE, content |-> content]
MCJwss ==
    {Signed(h, by, Good) : h \in {"RS256", "ES256", "EdDSA", "HS256", "noalg", "undecodable"},
                           by \in {"vendor", "other", "curve", NoneSigned}}
    \cup {Signed("RS256", "vendor", c) : c \in MCContents \cup {<<>>}}
    \cup {[Signed("RS256", "vendor", Good) EXCEPT !.parts = p[1], !.empty = p[2]] :
             p \in {q \in {2, 3, 4} \X {0, 2, 3, 4} : q[2] <= q[1]}}
    \cup {[Signed("RS256", "vendor", Good) EXCEPT !.payload = n, !.sigDecodes = s, !.payloadDecodes = d] :
             n \in {300, 16384, 16385}, s \in BOOLEAN, d \in BOOLEAN}
Document(before, jws, foreign, length) ==
    [before |-> before, after |-> before, jws |-> jws, foreign |-> foreign, length |-> length]
MCBareDocuments == {Document(<<>>, jws, FALSE, 700) : jws \in MCJwss}
MCWrappedDocuments ==
    {Document(<<>>, Signed("RS256", "vendor", Good), FALSE, 0)}
    \cup {[Document(b, [Signed("RS256", "vendor", Good) EXCEPT !.payload = 11990], f, n) EXCEPT !.after = a] :
             b \in BoundedSeq({"bom", "space", "nul"}, 2), a \in {<<>>, <<"nul">>, <<"space", "nul">>, <<"bom">>},
             f \in BOOLEAN, n \in {16382, 16383}}
Host(machine, legacy) == [product |-> "prd", machine |-> machine, legacy |-> legacy]
OldFile == Document(<<>>, Signed("RS256", "vendor", Good), FALSE, 650)
MCStore == [content |-> OldFile, writes |-> TRUE, writable |-> TRUE]
MCKeys == <<[alg |-> "RS256", id |-> "vendor", health |-> "good"]>>
MCImportJobs ==
    {[route |-> "document", document |-> d, keys |-> keys, me |-> Host("mac", ""), store |-> MCStore] :
         d \in MCBareDocuments, keys \in BoundedSeq(MCKeyRing, 2)}
    \cup {[route |-> route, document |-> d, keys |-> MCKeys, me |-> Host("mac", ""), store |-> MCStore] :
         d \in MCWrappedDocuments, route \in {"document", "text", "file"}}
    \cup {[route |-> route, document |-> Document(<<>>, Signed("RS256", "vendor", c), FALSE, 700), keys |-> MCKeys,
           me |-> me, store |-> [content |-> OldFile, writes |-> w >= 1, writable |-> w = 2]] :
         route \in {"document", "text", "file"}, c \in MCContents, w \in 0..2, me \in {Host("mac", ""), Host("xxx", "old"), Host("mac", "old"), Host("", ""), Host("", "old")}}

\* Eras of 64 seconds, the first 33 of which were before 1970.
MCTimeJobs ==
    {[true |-> t,
      ask |-> [windows |-> win, kept |-> kept, local |-> t + off,
               pool |-> IF pool THEN (t + UnixOffset) % EraSeconds ELSE Lost,
               vendor |-> IF vendor THEN (t + UnixOffset) % EraSeconds ELSE Lost]] :
        t \in -1..62, off \in {-60, -4, -3, -2, 0, 2, 3, 4, 60}, win \in BOOLEAN, kept \in BOOLEAN,
        pool \in BOOLEAN, vendor \in BOOLEAN}

\* SMBIOS structures: type, the index of the serial in an area of `area` bytes, and their strings.
Strings3 == {<<>>, << <<7>> >>, << <<7>>, <<8, 9>> >>, << <<7, 7, 7, 7>>, <<9>> >>}
Structures == [type : {1, 2}, area : {4, 7, 8, 9}, index : {0, 1, 2, 3}, strings : Strings3]
Bytes1(x) == <<x.type, x.area, 1, 0>> \o [i \in 1..(x.area - 4) |-> IF i = 4 THEN x.index ELSE 5] \o
             (IF x.strings = <<>> THEN <<0, 0>> ELSE FlattenSeq([i \in DOMAIN x.strings |-> x.strings[i] \o <<0>>]) \o <<0>>)
Table(xs) == FlattenSeq([i \in DOMAIN xs |-> Bytes1(xs[i])])
Board(xs) == LET boards == {i \in DOMAIN xs : xs[i].type = 2 /\ xs[i].area > 7}
                 x == xs[CHOOSE i \in boards : \A j \in boards : i <= j]
             IN IF boards = {} \/ x.index \notin DOMAIN x.strings \/ Len(x.strings[x.index]) >= SerialRoom
                THEN Unknown ELSE x.strings[x.index]
MCTables == {<<x>> : x \in Structures} \cup {<<x, y>> : x \in {s \in Structures : s.index \in {2, 3}}, y \in {s \in Structures : s.area = 8 /\ s.index = 1}}
MCIdentityJobs ==
    {[table |-> Table(xs), length |-> Len(Table(xs)) + more, serial |-> Board(xs), cpu |-> <<255, 1>>, guid |-> guid] :
         xs \in MCTables, more \in {0, 9}, guid \in {Unknown, <<6>>}}
    \cup {[table |-> Table(xs), length |-> length, serial |-> Board(xs), cpu |-> <<255, 1>>, guid |-> Unknown] :
         xs \in {<<x>> : x \in Structures}, length \in 0..17}

\* The two files hold the identity with what may follow it, something shorter, or nothing.
MCSystemId == <<6, 6>>
MCIdFiles == {Unknown, <<10>>, <<6>>, <<6, 10, 10, 10>>, MCSystemId, MCSystemId \o <<10>>}
MCSystemIdJobs ==
    {[id |-> MCSystemId, files |-> <<f, g>>, value |-> [type |-> type, bytes |-> MCSystemId \o more]] :
         f \in MCIdFiles, g \in MCIdFiles, type \in {"REG_SZ", "REG_DWORD"}, more \in {<<>>, <<0>>, <<0, 9>>}}

\* Characters with their codes; words of the requests are characters too.
MCCodeOf == [a |-> <<"6", "1">>, u |-> <<"7", "5">>, quote |-> <<"2", "2">>, backslash |-> <<"5", "C">>,
             tab |-> <<"0", "9">>, wide |-> <<"E", "9">>]
            @@ ("0" :> <<"3", "0">>) @@ ("&" :> <<"2", "6">>) @@ ("=" :> <<"3", "D">>) @@ ("%" :> <<"2", "5">>)
Base(host, rest) == [scheme |-> <<"https", ":", "/", "/">>, host |-> host, rest |-> rest]
MCBase == Base(<<"host">>, <<"/", "api", "/">>)
Computer(machine, name, legacy) == [machine |-> machine, name |-> name, legacy |-> legacy]
MCComputer == Computer(<<"a">>, <<"u">>, NoText)
RequestJob(base, me, code) ==
    [base |-> base, me |-> me, product |-> <<"prd">>, id |-> <<"id">>, alg |-> "ES256", code |-> code]
MCRequestJobs ==
    {RequestJob(MCBase, Computer(<<"a">>, name, legacy), <<>>) :
         name \in BoundedSeq(DOMAIN MCCodeOf, 2), legacy \in {NoText, <<"0", "a">>}}
    \cup {RequestJob(MCBase, Computer(<<"a">>, name, legacy), <<name>>) :
         name \in BoundedSeq({"quote", "backslash", "tab", "wide"}, 4), legacy \in {NoText, <<"0", "a", "u">>}}
    \cup {RequestJob(MCBase, Computer(machine, <<"u">>, legacy), <<>>) :
         machine \in BoundedSeq({"a", "quote", "backslash", "&"}, 3) \ {<<>>},
         legacy \in BoundedSeq({"0", "quote", "tab"}, 2)}
    \cup {RequestJob([Base(host, rest) EXCEPT !.scheme = IF bare THEN <<>> ELSE @], MCComputer, <<>>) :
         host \in BoundedSeq({"host", "."}, 6) \ {<<>>}, bare \in BOOLEAN,
         rest \in {<<>>, <<"/">>, <<":", "80", "/">>}}
    \cup {[RequestJob(MCBase, MCComputer, <<>>) EXCEPT !.product = [i \in 1..n |-> "prd"]] : n \in 1..20}

Reason(name, kind, value) == [name |-> name, kind |-> kind, value |-> value]
MCAnswers == {Reason(name, "string", "first") : name \in {"detail", "message", "title", "error"}}
             \cup {Reason("detail", "string", "toolong"), Reason("message", "string", "second"),
                   Reason("detail", "primitive", "null"), Reason("title", "object", "inner")}
RenderedAnswer(ms) ==
    Object([i \in DOMAIN ms |-> <<Item("string", ms[i].name), Item(":", "")>> \o
        (CASE ms[i].kind = "string"    -> Text(ms[i].value)
           [] ms[i].kind = "primitive" -> Word(ms[i].value)
           [] ms[i].kind = "object"    -> Object(<<Text("error") \o <<Item(":", "")>> \o Text(ms[i].value)>>))])
MCRefusalJobs ==
    {[text |-> RenderedAnswer(ms), members |-> ms, status |-> 402, markers |-> {ms[i].value : i \in DOMAIN ms}] :
         ms \in BoundedSeq(MCAnswers, 3)}
    \cup {[text |-> SubSeq(RenderedAnswer(ms), 1, n), members |-> <<>>, status |-> status, markers |-> markers] :
         ms \in {<<Reason("detail", "string", "first")>>}, n \in 0..4,
         status \in {401, 403, 404, 422},
         markers \in SUBSET {"trial_quota", "embedded-format-requires-receipt", "sandbox_limit", "ALU limit"}}
    \cup {[text |-> Array(<<RenderedAnswer(<<Reason("detail", "string", "first")>>)>>), members |-> <<>>,
           status |-> 400, markers |-> {}]}

\* Arguments of hlm_ffi_create: NULL, empty, within the room and beyond it, one or two at a time.
Letters == {Null} \cup {[i \in 1..n |-> "a"] : n \in 0..5}
MCJwksDocs == {Set("array", <<Coordinates(32, 32)>>), Set("object", <<Coordinates(32, 33)>>), Set("array", <<>>)}
MCAsked == [base |-> Null, product |-> <<"a">>, apiKey |-> <<"a">>, path |-> <<"u">>, id |-> Null, name |-> Null,
            days |-> 30, format |-> 2, jwks |-> Set("array", <<Coordinates(32, 32)>>)]
MCMachines == [v1 : {Unknown, <<"0">>}, v2 : {Unknown, <<"u", "u">>}, name : {Unknown, <<"wide">>}]
MCMachine == [v1 |-> <<"0">>, v2 |-> <<"u", "u">>, name |-> <<"wide">>]
MCOpenJobs ==
    {[asked |-> [MCAsked EXCEPT ![f] = x, ![g] = y], machine |-> MCMachine] :
         x \in Letters, y \in Letters, f \in {"base", "product", "apiKey"}, g \in {"path", "id", "name"}}
    \cup {[asked |-> [MCAsked EXCEPT !.id = id, !.name = name], machine |-> machine] :
         id \in {Null, <<"a">>}, name \in {Null, <<"a">>, <<"quote", "&">>}, machine \in MCMachines}
    \cup {[asked |-> [MCAsked EXCEPT !.days = days, !.format = format, !.jwks = jwks], machine |-> MCMachine] :
         days \in {0, 1}, format \in -1..4, jwks \in MCJwksDocs}
=============================================================================
