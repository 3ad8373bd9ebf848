------------------------- MODULE AlgorithmProperties -------------------------
(***************************************************************************)
(* What the answers of Algorithms must be, said without the code's own     *)
(* definitions: arithmetic on numbers instead of limbs, affine instead of  *)
(* Jacobian points, a pushdown instead of parent links, counted days.      *)
(***************************************************************************)
EXTENDS Algorithms

CONSTANTS RsaPrivate,   \* the private exponent of the RSA jobs' key
          RsaPublic

Done(kind) == Kind = kind /\ phase = "done"

(***************************************************************************)
(* hlm_bignum.c computes with numbers: comparison, sum (refused when it    *)
(* needs more limbs than there are), difference, remainder, the modular    *)
(* operations and the byte string of a number are those of arithmetic, for *)
(* operands and moduli at the edges of a limb and of the array.  Only      *)
(* hlm_bn_modadd relies on its caller for the room of its sum.             *)
(***************************************************************************)
BytesValue(bytes) == SumTo([i \in DOMAIN bytes |-> bytes[i] * TwoTo(ByteBits * (Len(bytes) - i))], Len(bytes))

IsNumber(w, n) ==
    IF n >= Raised(LimbBase, MaxLimbs) THEN w = NoRoom
    ELSE /\ w # NoRoom /\ BnValue(w) = n
         /\ \A i \in DOMAIN w : w[i] \in 0..(LimbBase - 1)

Power(x, e, m) ==
    LET p[k \in 0..e] == IF k = 0 THEN 1 % m ELSE (p[k - 1] * x) % m IN p[e]

BignumIsArithmetic ==
    Done("arithmetic") =>
        LET a == BytesValue(Input.a)
            b == BytesValue(Input.b)
            m == BytesValue(Input.m)
        IN /\ answer.cmp = (IF a > b THEN 1 ELSE IF a = b THEN 0 ELSE -1)
           /\ IsNumber(answer.sum, a + b)
           /\ IsNumber(answer.difference, IF a > b THEN a - b ELSE b - a)
           /\ IsNumber(answer.remainder, a % m)
           /\ (a % m) + (b % m) < Raised(LimbBase, MaxLimbs) => IsNumber(answer.modadd, (a + b) % m)
           /\ IsNumber(answer.modsub, (a - b) % m)
           /\ IsNumber(answer.product, ((a % m) * (b % m)) % m)
           /\ (m > 1 \/ b > 0) => IsNumber(answer.power, Power(a % m, b, m))
           /\ IF a >= TwoTo(ByteBits * Len(Input.b)) THEN answer.bytes = NoRoom
              ELSE Len(answer.bytes) = Len(Input.b) /\ BytesValue(answer.bytes) = a

(***************************************************************************)
(* hlm_rsa_pkcs1_sha256_verify accepts exactly the signature the owner of  *)
(* the private key makes of the hash: not the same number plus the         *)
(* modulus, not another padding, and nothing under a key with an even or   *)
(* too small exponent.                                                     *)
(***************************************************************************)
RsaAcceptsOnlySignatures ==
    Done("rsa") =>
        LET n == Number(Input.key.n)
            k == Len(Stripped(Input.key.n))
        IN IF Number(Input.key.e) = RsaPublic
           THEN (answer = Accepted) <=>
                    /\ Len(Input.sig) = k
                    /\ Number(Input.sig) = ModPow(Number(Encoding(Input.hash, k)), RsaPrivate, n)
           ELSE answer # Accepted

(***************************************************************************)
(* hlm_p256_ecdsa_sha256_verify decides the ECDSA equation: with a key on  *)
(* the curve it accepts r, s exactly if the affine point e/s G + r/s Q     *)
(* exists and its x is r modulo the group order, also where the sum meets  *)
(* a doubling, an inverse or the point at infinity; any other key is       *)
(* refused.                                                                *)
(***************************************************************************)
AtInfinity == [x |-> -1, y |-> -1]
InverseMod(a, m) == CHOOSE b \in 1..(m - 1) : (a * b) % m = 1

AffineSum(a, b) ==
    LET slope == IF a = b THEN (3 * a.x * a.x - 3) * InverseMod((2 * a.y) % CurveP, CurveP)
                 ELSE (b.y - a.y) * InverseMod((b.x - a.x) % CurveP, CurveP)
        x == (slope * slope - a.x - b.x) % CurveP
    IN IF a = AtInfinity THEN b
       ELSE IF b = AtInfinity THEN a
       ELSE IF a.x = b.x /\ (a.y + b.y) % CurveP = 0 THEN AtInfinity
       ELSE [x |-> x, y |-> (slope * (a.x - x) - a.y) % CurveP]

AffineMultiple(k, a) ==
    LET sum[i \in 0..k] == IF i = 0 THEN AtInfinity ELSE AffineSum(sum[i - 1], a) IN sum[k]

EcdsaIsTheEquation ==
    Done("ecdsa") =>
        LET q == Input.q
            r == Input.sig.r
            s == Input.sig.s
            inverse == InverseMod(s, CurveN)
            point == AffineSum(AffineMultiple((Input.hash * inverse) % CurveN, Generator),
                               AffineMultiple((r * inverse) % CurveN, q))
            onCurve == /\ q.x \in 0..(CurveP - 1) /\ q.y \in 0..(CurveP - 1)
                       /\ (q.y ^ 2 - q.x ^ 3 + 3 * q.x - CurveB) % CurveP = 0
        IN IF onCurve
           THEN (answer = Accepted) <=>
                    /\ r \in 1..(CurveN - 1) /\ s \in 1..(CurveN - 1)
                    /\ point # AtInfinity /\ point.x % CurveN = r
           ELSE answer = KeyUnusable

(***************************************************************************)
(* hlm_ed25519_verify decides the EdDSA equation: it accepts exactly if S  *)
(* is below the group order, the key decodes to a point A of the curve and *)
(* R is the encoding of S B - h A, with h the digest modulo the order;     *)
(* whatever the signed limbs, the ladder and the folding of h make of it.  *)
(***************************************************************************)
EdP == FeBase ^ FeLimbs \div 2 - FeC
EdOne == [x |-> 0, y |-> 1]
EdG == [x |-> EdX, y |-> EdY]
OneOver(a) == IF a % EdP = 0 THEN 0 ELSE ModPow(a, EdP - 2, EdP)

EdSum(a, b) ==
    LET xx == (a.x * b.x) % EdP
        yy == (a.y * b.y) % EdP
        t  == (EdD * ((xx * yy) % EdP)) % EdP
        x  == (a.x * b.y + b.x * a.y) % EdP
    IN [x |-> (x * OneOver(1 + t)) % EdP, y |-> (((yy + xx) % EdP) * OneOver((1 - t) % EdP)) % EdP]

EdTimes(k, a) ==
    LET times[i \in 0..k] ==
            IF i = 0 THEN EdOne
            ELSE LET half   == times[i \div 2]
                     double == EdSum(half, half)
                 IN IF i % 2 = 1 THEN EdSum(double, a) ELSE double
    IN times[k]

Digits(f) == MapThenSumSet(LAMBDA i : f[i] * ScBase ^ i, DOMAIN f)
EdOrder == Digits(EdL)
LimbsValue(f) == MapThenSumSet(LAMBDA i : f[i] * FeBase ^ (i - 1), FeIndex)

\* x with (d y^2 + 1) x^2 = y^2 - 1 and the parity of the sign; for x = 0 the sign does not matter.
DecodedX(y, sign) ==
    {x \in 0..(EdP - 1) : /\ (((EdD * ((y * y) % EdP) + 1) % EdP) * ((x * x) % EdP) - y * y + 1) % EdP = 0
                          /\ x % 2 = sign \/ x = 0}

EddsaIsTheEquation ==
    Done("eddsa") =>
        LET y  == LimbsValue(Input.pub.y) % EdP
            xs == DecodedX(y, Input.pub.sign)
            h  == Digits(Input.sig.hash) % EdOrder
            s  == Digits(Input.sig.s)
            R(x) == EdSum(EdTimes(s, EdG), EdTimes(h, [x |-> (-x) % EdP, y |-> y]))
        IN answer <=> /\ s < EdOrder
                      /\ \E x \in xs : Input.sig.r = [y |-> FeOf(R(x).y), sign |-> R(x).x % 2]

(***************************************************************************)
(* hlm_sha256_update and _final, hlm_sha512_update and _final: in whatever *)
(* pieces a message is fed, the compression function sees the blocks of    *)
(* the message, one end mark, as few zeros as fill a block, and the bit    *)
(* length, carried over from one counter word to the next.                 *)
(***************************************************************************)
PaddedMessage(h, message) ==
    LET size  == BlockSize[h]
        used  == Len(message) + 1 + LengthBytes[h]
        zeros == (size - (used % size)) % size
        bits  == 8 * Len(message)
        width == ByteWidth(h)
    IN message \o <<PadByte>> \o [i \in 1..zeros |-> 0]
           \o [i \in 1..LengthBytes[h] |-> (bits \div TwoTo(width * (LengthBytes[h] - i))) % TwoTo(width)]

BlocksArePaddedMessage ==
    Done("hash") =>
        LET padded == PaddedMessage(Input.hash, Input.message)
            size   == BlockSize[Input.hash]
        IN answer = [i \in 1..(Len(padded) \div size) |-> SubSeq(padded, (i - 1) * size + 1, i * size)]

(***************************************************************************)
(* hlm_b64url_decode and hlm_b64url_encode: a text decodes exactly if its  *)
(* symbols carry whole bytes that fit and leftover bits of zero, to those  *)
(* bytes; and encoding them gives the text back, so that no two unpadded   *)
(* texts are the same bytes.                                               *)
(***************************************************************************)
BitOf(seq, width, k) == (seq[(k \div width) + 1] \div TwoTo(width - 1 - (k % width))) % 2

Base64IsCanonical ==
    Done("base64") =>
        LET kept  == Len(Input.text) - Cardinality({i \in DOMAIN Input.text :
                                          \A j \in i..Len(Input.text) : Input.text[j] = Equals})
            text  == SubSeq(Input.text, 1, kept)
            bits  == SymbolBits * kept
            bytes == bits \div OctetBits
            got   == answer.decoded
        IN /\ got.ok <=> /\ \A i \in DOMAIN text : text[i] \in Values
                         /\ bits - OctetBits * bytes < SymbolBits
                         /\ bytes <= Input.room
                         /\ \A k \in (OctetBits * bytes)..(bits - 1) : BitOf(text, SymbolBits, k) = 0
           /\ got.ok => /\ Len(got.bytes) = bytes
                        /\ \A k \in 0..(OctetBits * bytes - 1) :
                               BitOf(got.bytes, OctetBits, k) = BitOf(text, SymbolBits, k)
                        /\ answer.again = text

(***************************************************************************)
(* hlm_parse_iso8601, hlm_json_string and hlm_json_int64 read what is      *)
(* written: a date of the calendar is the number of days counted year by   *)
(* year and month by month, a string's code points come back from its      *)
(* UTF-8, a lone surrogate or a string that does not fit is refused, and a *)
(* number is read exactly or, past the largest, refused.                   *)
(***************************************************************************)
IsLeap(y) == y % 4 = 0 /\ (y % 100 # 0 \/ y % 400 = 0)
MonthDays(y, m) == CASE m \in {4, 6, 9, 11} -> 30 [] m = 2 -> IF IsLeap(y) THEN 29 ELSE 28 [] OTHER -> 31
LeapDays(from, to) == Cardinality({y \in from..(to - 1) : IsLeap(y)})

CountedDays(y, m, d) ==
    365 * (y - 1970) + LeapDays(1970, y) - LeapDays(y, 1970)
        + SumTo([k \in 1..12 |-> MonthDays(y, k)], m - 1) + d - 1

DateIsRead ==
    LET inRange == /\ Input.mon \in 1..12 /\ Input.day >= 1
                   /\ Input.hour < 24 /\ Input.min < 60 /\ Input.sec <= 60
    IN IF inRange /\ ~ Input.rest /\ Input.day <= MonthDays(Input.year, Input.mon)
       THEN answer = <<CountedDays(Input.year, Input.mon, Input.day),
                       60 * (60 * (Input.hour - Input.zone.hours) + Input.min - Input.zone.minutes) + Input.sec>>
       ELSE answer = NoInstant \/ (inRange /\ ~ Input.rest)

\* The n-th smallest element.
Nth(S, n) == CHOOSE x \in S : Cardinality({y \in S : y <= x}) = n

\* What a reader of UTF-8 makes of the bytes from the i-th on.
CodePointAt(bytes, i) ==
    LET More(k) == bytes[i + k] % 64
    IN CASE bytes[i] < 128        -> bytes[i]
         [] bytes[i] \in 192..223 -> (bytes[i] % 32) * 64 + More(1)
         [] bytes[i] \in 224..239 -> ((bytes[i] % 16) * 64 + More(1)) * 64 + More(2)
         [] bytes[i] >= 240       -> (((bytes[i] % 8) * 64 + More(1)) * 64 + More(2)) * 64 + More(3)
Leads(bytes) == {i \in DOMAIN bytes : bytes[i] < 128 \/ bytes[i] >= 192}
CodePoints(bytes) == [k \in 1..Cardinality(Leads(bytes)) |-> CodePointAt(bytes, Nth(Leads(bytes), k))]

\* Code points of UTF-16: a high half takes the low half behind it with it.
PointAt(units, i) ==
    IF High(units[i]) THEN (units[i].value - 55232) * 1024 + units[i + 1].value - 56320 ELSE units[i].value
Starts(units) == {i \in DOMAIN units : ~ (i > 1 /\ High(units[i - 1]))}
Utf16(units) == [k \in 1..Cardinality(Starts(units)) |-> PointAt(units, Nth(Starts(units), k))]
Paired(units) ==
    /\ \A i \in DOMAIN units : High(units[i]) => i < Len(units) /\ Low(units[i + 1])
    /\ \A i \in DOMAIN units : Low(units[i]) => i > 1 /\ High(units[i - 1])

Utf8Length(cp) == IF cp < 128 THEN 1 ELSE IF cp < 2048 THEN 2 ELSE IF cp < 65536 THEN 3 ELSE 4

StringIsRead ==
    LET points == Utf16(Input.units)
        length == SumTo([k \in DOMAIN points |-> Utf8Length(points[k])], Len(points))
    IN IF Paired(Input.units) /\ length < Input.room
       THEN answer.ok /\ CodePoints(answer.out) = points /\ Len(answer.out) = length
       ELSE ~ answer.ok

NumberIsRead ==
    LET ds == Input.digits
        v  == SumTo([i \in DOMAIN ds |-> ds[i] * Raised(10, Len(ds) - i)], Len(ds))
    IN IF ds # <<>> /\ v <= IntMax THEN answer = [ok |-> TRUE, out |-> IF Input.negative THEN -v ELSE v]
       ELSE answer = Bad

ValuesAreReadAsWritten ==
    /\ Done("date") => DateIsRead
    /\ Done("string") => StringIsRead
    /\ Done("number") => NumberIsRead

(***************************************************************************)
(* hlm_json_parse makes a tree: when it accepts a text, the brackets nest, *)
(* there is a token for each container, string and primitive, in order and *)
(* no more than there is room for, and each token hangs below the          *)
(* innermost container open around it, directly or under a key of it.  The *)
(* strings it finds are those JSON has, each from its quote to the one no  *)
(* backslash belongs to, the primitives reach up to a separator, only      *)
(* blanks are passed over, and a text is called truncated exactly if more  *)
(* of it could still end the string.                                       *)
(***************************************************************************)
IsToken(item) == item.kind \notin Close \cup {",", ":"}
Count(text, i) == Cardinality({k \in 1..i : IsToken(text[k])})

\* Where the containers begin that are open after i items; Broken when a bracket closes what it must not.
Broken == <<-1>>
StillOpen(text, open, i) ==
    LET top    == open[Len(open)]
        Closes == text[i].kind = (IF text[top].kind = "{" THEN "}" ELSE "]")
    IN IF open = Broken THEN Broken
       ELSE IF text[i].kind \in Open THEN Append(open, i)
       ELSE IF text[i].kind \notin Close THEN open
       ELSE IF open = <<>> \/ ~ Closes THEN Broken
       ELSE SubSeq(open, 1, Len(open) - 1)
Opened(text) ==
    LET stack[i \in 0..Len(text)] == IF i = 0 THEN <<>> ELSE StillOpen(text, stack[i - 1], i) IN stack

Container(toks, t) == IF t = NoTok \/ toks[t].type \in Open THEN t ELSE toks[t].parent
TopToken(text, open) == IF open = <<>> THEN NoTok ELSE Count(text, open[Len(open)])

TreeOf(text, parsed, room) ==
        LET toks  == parsed.toks
            stack == Opened(text)
        IN parsed.err = 0 =>
               /\ stack[Len(text)] = <<>>
               /\ Len(toks) = Count(text, Len(text)) /\ Len(toks) \in 1..room
               /\ \A t \in DOMAIN toks : toks[t].closed /\ toks[t].parent < t
               /\ \A i \in DOMAIN text :
                      IsToken(text[i]) =>
                          LET tok == toks[Count(text, i)]
                          IN tok.type = text[i].kind /\ Container(toks, tok.parent) = TopToken(text, stack[i - 1])

\* The text of a string is a row of these.
IsStringUnit(u) ==
    \/ Len(u) = 1 /\ u[1] \notin {"quote", "backslash"} \cup ControlCharacters
    \/ Len(u) = 2 /\ u[1] = "backslash" /\ u[2] \in Escapable
    \/ Len(u) = 6 /\ u[1] = "backslash" /\ u[2] = "u" /\ \A k \in 3..6 : u[k] \in HexDigits

IsStringText(t) ==
    LET begun[n \in 0..Len(t)] ==
            n = 0 \/ \E k \in 0..(n - 1) : n - k \in {1, 2, 6} /\ begun[k] /\ IsStringUnit(SubSeq(t, k + 1, n))
    IN begun[Len(t)]

\* What an escape that has begun may still lack.
Hex(n) == [i \in 1..n |-> "hex"]
CouldEnd(t) == \E more \in {<<>>, <<"n">>, <<"u">> \o Hex(4)} \cup {Hex(n) : n \in 1..4} : IsStringText(t \o more)

\* Quotes included.
Covered(item) == IF item.kind = "string" THEN (item.text[1] - 1)..(item.text[2] + 1) ELSE item.text[1]..item.text[2]

IsItem(s, item) ==
    LET from == Min(Covered(item))
        upto == Max(Covered(item))
        rest == SubSeq(s, from + 1, Len(s))
        Closed(k) == rest[k] = "quote" /\ IsStringText(SubSeq(rest, 1, k - 1))
    IN CASE item.kind = "string"    -> s[from] = "quote" /\ Closed(upto - from)
         [] item.kind = "primitive" ->
              /\ \A i \in from..upto : s[i] \notin EndsPrimitive \cup {"ctrl", "high"}
              /\ s[from] \notin Open \cup {"quote"}
              /\ upto = Len(s) \/ s[upto + 1] \in EndsPrimitive
         [] item.kind = "unended"   ->
              s[from] = "quote" /\ CouldEnd(rest) /\ \A k \in DOMAIN rest : ~ Closed(k)
         [] item.kind = "illformed" ->
              IF s[from] = "quote" THEN ~ CouldEnd(rest) /\ \A k \in DOMAIN rest : ~ Closed(k)
              ELSE \E i \in from..upto : s[i] \in {"ctrl", "high"} /\ \A k \in from..i : s[k] \notin EndsPrimitive
         [] OTHER -> s[from] = item.kind

ItemsAreTheText(s, items) ==
    /\ \A i \in DOMAIN items : IsItem(s, items[i])
    /\ \A i, j \in DOMAIN items : i < j => Max(Covered(items[i])) < Min(Covered(items[j]))
    /\ \A p \in DOMAIN s : s[p] \in Blanks \/ \E i \in DOMAIN items : p \in Covered(items[i])
    /\ \A i \in DOMAIN items : items[i].kind \in {"unended", "illformed"} => i = Len(items)

TextsAreTrees == Done("json") => TreeOf(Input.text, answer, Input.room)

TokensFormATree ==
    /\ TextsAreTrees
    /\ Done("scan") =>
           /\ ItemsAreTheText(Input.text, answer.items)
           /\ TreeOf(answer.items, answer.parsed, Input.room)

(***************************************************************************)
(* parse_jwks and hlm_jwk_parse keep the keys apart: what they return are  *)
(* the first keys of the set, in order and each with its own members; no   *)
(* byte of the key buffer belongs to two of them and none lies outside;    *)
(* and a set is refused exactly if one of those keys is no usable key or   *)
(* they do not fit together.                                               *)
(***************************************************************************)
UsableKey(jwk) ==
    /\ jwk.kty \in {"RSA", "EC", "OKP"} /\ jwk.toks <= KeyToks
    /\ \A m \in DOMAIN jwk.len : jwk.len[m] # Missing /\ (jwk.kty = "RSA" \/ jwk.len[m] = CoordLen)
KeySize(jwk) == CASE jwk.kty = "RSA" -> jwk.len["n"] + jwk.len["e"]
                  [] jwk.kty = "EC"  -> jwk.len["x"] + jwk.len["y"]
                  [] jwk.kty = "OKP" -> jwk.len["x"]
SizeUpTo(set) ==
    LET size[i \in 0..Len(set)] == IF i = 0 THEN 0 ELSE size[i - 1] + KeySize(set[i]) IN size

Bytes(span) == span.at..(span.at + span.len - 1)
SpansOf(keys) == {p \in (DOMAIN keys) \X {1, 2} : p[2] \in DOMAIN keys[p[1]].spans}

KeysAreKeptApart ==
    Done("keys") =>
        LET taken == SubSeq(Input.set, 1, Min({MaxKeys, Len(Input.set)}))
            Where(p) == answer.keys[p[1]].spans[p[2]]
        IN /\ answer.err = "OK" <=>
                  /\ Input.set # <<>>
                  /\ Input.shape = "array" => TokensOf(Input.set) <= SetToks
                  /\ \A i \in DOMAIN taken : UsableKey(taken[i])
                  /\ SizeUpTo(taken)[Len(taken)] <= KeyBuf
           /\ answer.err = "OK" =>
                  /\ Len(answer.keys) = Len(taken)
                  /\ \A i \in DOMAIN taken :
                         /\ answer.keys[i].alg = AlgOf(taken[i].kty)
                         /\ [j \in DOMAIN answer.keys[i].spans |-> answer.keys[i].spans[j].len]
                                = [j \in DOMAIN Members(taken[i].kty) |-> taken[i].len[Members(taken[i].kty)[j]]]
                  /\ \A p, q \in SpansOf(answer.keys) : p # q => Bytes(Where(p)) \cap Bytes(Where(q)) = {}
                  /\ \A p \in SpansOf(answer.keys) : Bytes(Where(p)) \subseteq 0..(KeyBuf - 1)
           /\ answer.err # "OK" => answer.keys = <<>>

(***************************************************************************)
(* hlm_license_parse reads the license that was signed: the job holds the  *)
(* license its text was rendered from, in either naming and any order of   *)
(* members, with members the library does not know; an id of a nested      *)
(* object is never taken for the license's, and a text that cannot be read *)
(* whole is not read at all.  The accessors of hlm_ffi.c then show it: the *)
(* first value of a metadata key, and nothing of a receipt there is not.   *)
(***************************************************************************)
FirstValue(pairs, key) ==
    IF \E i \in DOMAIN pairs : pairs[i].key = key
    THEN (CHOOSE p \in {pairs[i] : i \in {k \in DOMAIN pairs : \A j \in 1..k : (pairs[j].key = key) <=> j = k}} : TRUE).value
    ELSE ""

LicenseIsReadAsSigned ==
    Done("payload") =>
        LET lic == Input.license
        IN /\ answer.license = lic
           /\ lic = Unreadable => answer.shown.id = "" /\ answer.shown.expires = NoTime /\ answer.shown.value = ""
           /\ lic # Unreadable =>
                  /\ answer.shown.id = lic.strings[<<"Id">>] /\ answer.shown.expires = lic.times[<<"Expires">>]
                  /\ answer.shown.value = FirstValue(lic.metadata, "key")
                  /\ ~ lic.receipt => answer.shown.email = "" /\ answer.shown.receiptExpires = NoTime

(***************************************************************************)
(* hlm_license_import installs what is genuine and nothing else: it        *)
(* replaces the file exactly if the document, without a byte order mark    *)
(* and the blanks around it, is a license a key of the host signed for its *)
(* product and this machine and the file can be written; in every other    *)
(* case the old file is still there.  The next offline launch accepts what *)
(* was installed if it is shorter than the launch's buffer, and refuses it *)
(* for its length otherwise.  An import from a file takes only files the   *)
(* launch can read back, and one from a C string what is before the first  *)
(* NUL; a refusal for another product or computer is told only of a        *)
(* license the vendor signed.                                              *)
(*    The identity of the host may be empty (hlm_client_init and           *)
(* hlm_ffi_create refuse none): it is that of a license that names no      *)
(* computer.  An empty legacy identity is none at all.                     *)
(***************************************************************************)
IsNamed(name, me) == \/ LowerOf[name] = LowerOf[me.machine]
                     \/ me.legacy # "" /\ LowerOf[name] = LowerOf[me.legacy]

Genuine(doc, keys, me) ==
    /\ \E i \in DOMAIN keys :
           /\ keys[i].alg = doc.jws.header /\ keys[i].id = doc.jws.signedBy /\ keys[i].health = "good"
           /\ \A j \in 1..(i - 1) : keys[j].alg = doc.jws.header => keys[j].health # "noprovider"
    /\ doc.jws.parts = 3 /\ doc.jws.empty = 0 /\ ~ doc.foreign
    /\ doc.jws.sigDecodes /\ doc.jws.payloadDecodes /\ doc.jws.payload <= WorkBuf
    /\ \E lic \in {LicenseParse(doc.jws.content)} :
           /\ lic # Unreadable
           /\ LowerOf[lic.strings[<<"Product", "Id">>]] = LowerOf[me.product]
           /\ IsNamed(lic.strings[<<"Computer", "MacAddress">>], me)

OnlyBlanksAround(doc) ==
    /\ \A i \in DOMAIN doc.before : doc.before[i] \in Blank \/ (i = 1 /\ doc.before[i] = "bom")
    /\ \A i \in DOMAIN doc.after : doc.after[i] \in Blank

\* In a C string a NUL hides what follows.
Unhidden(doc) ==
    /\ \A i \in DOMAIN doc.before : doc.before[i] \in {"space"} \/ (i = 1 /\ doc.before[i] = "bom")
    /\ \A i \in DOMAIN doc.after : doc.after[i] \in Blank \/ \E k \in 1..(i - 1) : doc.after[k] = "nul"

HandedOver(doc, route) ==
    CASE route = "document" -> OnlyBlanksAround(doc)
      [] route = "text"     -> Unhidden(doc)
      [] route = "file"     -> Unhidden(doc) /\ doc.length \in 1..(WorkBuf - 2)

\* The user is told which product the license in the file is for, if it names it.
IsExplained(doc) ==
    /\ answer.outcome \in {"WrongProduct", "WrongComputer"} =>
           \E lic \in {LicenseParse(doc.jws.content)} :
              /\ lic # Unreadable
              /\ doc.jws.signedBy \in {Input.keys[i].id : i \in DOMAIN Input.keys}
              /\ answer.outcome = "WrongProduct" /\ lic.strings[<<"Product", "Name">>] # "" =>
                     answer.says[2] = lic.strings[<<"Product", "Name">>]
    /\ answer.outcome = "E_ARG" <=> answer.says = <<"unchanged">>

OnlyGenuineIsInstalled ==
    Done("import") =>
        LET doc == Input.document
        IN /\ answer.outcome = "Installed" <=>
                  /\ Genuine(doc, Input.keys, Input.me) /\ HandedOver(doc, Input.route)
                  /\ Input.store.writes /\ Input.store.writable
           /\ answer.outcome = "Installed" =>
                  /\ answer.stored.jws = doc.jws
                  /\ OfflineLaunch(answer.stored, Input.keys, Input.me)
                        = IF doc.length < WorkBuf - 1 THEN "OK" ELSE "E_BUFFER"
           /\ answer.outcome # "Installed" => answer.stored = Input.store.content
           /\ IsExplained(doc)

(***************************************************************************)
(* timesync_posix_now and timesync_win_now tell the time: with an honest   *)
(* host that is reachable they answer, in either era and at any distance   *)
(* of the local clock, with a time less than MaxDrift from the true one;   *)
(* without a host they say so instead of passing the local clock on.       *)
(***************************************************************************)
TrustedTimeIsNear ==
    Done("time") =>
        LET ask   == Input.ask
            heard == {ask.pool} \cup (IF ask.windows /\ ask.kept THEN {ask.vendor} ELSE {})
        IN IF heard \subseteq {Lost, 0} THEN answer = NoAnswer
           ELSE /\ answer # NoAnswer
                /\ answer.now - Input.true \in (1 - MaxDrift)..(MaxDrift - 1)

(***************************************************************************)
(* The identity names the machine: the serial number is the string the     *)
(* baseboard's structure points to, or none where the table is cut off or  *)
(* has no such string, never a piece of another; the hashed text gives the *)
(* components back, and the Base32 form every bit of what it encodes.  The *)
(* operating system's own identity is the same whatever line end or blanks *)
(* follow it, in whichever of the files it is, and with or without a NUL.  *)
(***************************************************************************)
SerialNamesTheMachine ==
    Done("identity") =>
        LET text == answer.text
            cut  == Len(text) - Len(Input.cpu)
            bits == 8 * Len(text)
        IN /\ Input.length >= Len(Input.table) => answer.serial = Input.serial
           /\ answer.serial \in {Unknown, Input.serial}
           /\ answer.serial # Unknown =>
                  /\ SubSeq(text, 1, cut - 1) = answer.serial
                  /\ SubSeq(text, cut + 1, Len(text)) = Input.cpu
           /\ \A k \in 0..(5 * Len(answer.base32) - 1) :
                  BitOf(answer.base32, 5, k) = (IF k < bits THEN BitOf(text, 8, k) ELSE 0)
           /\ 5 * Len(answer.base32) - bits \in 0..4
           /\ answer.chosen = Unknown <=> answer.serial = Unknown /\ Input.guid = Unknown

Longer(bytes, more) == IF bytes = Unknown THEN Unknown ELSE bytes \o more

SystemIdIsStable ==
    Done("systemid") =>
        /\ answer.linux # Unknown => Len(answer.linux) >= SaneLength
        /\ \A more \in {<<10>>, <<13, 10>>, <<32, 10>>} :
               LinuxMachineId([i \in 1..2 |-> Longer(Input.files[i], more)]) = answer.linux
        /\ answer.linux = IF \E i \in 1..2 : Input.files[i] \in {Input.id, Input.id \o <<10>>} THEN Input.id ELSE Unknown
        /\ answer.windows = IF Input.value.type = "REG_SZ" /\ Len(Input.value.bytes) < SerialRoom THEN Input.id ELSE Unknown

MachineIdNamesTheMachine == SerialNamesTheMachine /\ SystemIdIsStable

(***************************************************************************)
(* What a reader of JSON and of queries makes of a request is what was     *)
(* meant: the identities, the name and the code go into the bodies without *)
(* one running into the next, whatever quotes, backslashes and control     *)
(* characters they hold, and the name likewise into the query.  Plain      *)
(* texts within their rooms fit, and of a computer, a code or a URL that   *)
(* does not fit nothing is sent.  The body that asks for a license is sent *)
(* cut instead (post_license does not look at what snprintf returns), and  *)
(* then it is no request at all: it breaks off before it is closed, so no  *)
(* reader finds another product or another computer in it.                 *)
(*    The host named to the user is the one of the URL.  A refusal's       *)
(* detail is a member of the answer itself, the first in rank that can be  *)
(* shown; the error is HLM_E_AUTH exactly for 401 and 403, and otherwise   *)
(* one whose marker is in the answer, HLM_E_API only when there is none.   *)
(***************************************************************************)
CharacterOf(digits) == CHOOSE c \in DOMAIN CodeOf : CodeOf[c] = digits

Unescaped(s) ==
    LET rest[i \in 1..(Len(s) + 6)] ==
            IF i > Len(s) THEN <<>>
            ELSE IF s[i] # "backslash" THEN <<s[i]>> \o rest[i + 1]
            ELSE IF s[i + 1] = "u" THEN <<CharacterOf(SubSeq(s, i + 4, i + 5))>> \o rest[i + 6]
            ELSE <<s[i + 1]>> \o rest[i + 2]
    IN rest[1]

Unpercent(s) ==
    LET rest[i \in 1..(Len(s) + 3)] ==
            IF i > Len(s) THEN <<>>
            ELSE IF s[i] = "%" THEN <<CharacterOf(SubSeq(s, i + 1, i + 2))>> \o rest[i + 3]
            ELSE <<s[i]>> \o rest[i + 1]
    IN rest[1]

\* The strings of a body, between quotes that no odd run of backslashes precedes, and what is around them.
Delimits(body, i) ==
    /\ body[i] = "quote"
    /\ \E n \in 0..(i - 2) :
           /\ n % 2 = 0
           /\ \A k \in 1..n : body[i - k] = "backslash"
           /\ body[i - n - 1] # "backslash"
Delimiters(body) == {i \in 2..Len(body) : Delimits(body, i)}

StringsIn(body, marks) ==
    [n \in 1..(Cardinality(marks) \div 2) |->
        Unescaped(SubSeq(body, Nth(marks, 2 * n - 1) + 1, Nth(marks, 2 * n) - 1))]
AroundStrings(body, marks) ==
    LET outside == {i \in DOMAIN body : Cardinality({m \in marks : m <= i}) % 2 = 0 /\ i \notin marks}
    IN [n \in 1..Cardinality(outside) |-> body[Nth(outside, n)]]

Says(body, strings, frame) ==
    StringsIn(body, Delimiters(body)) = strings /\ AroundStrings(body, Delimiters(body)) = frame

\* The parameters of a URL, in order.
Parameters(url) ==
    LET cuts == {i \in DOMAIN url : url[i] \in {"?", "&"}} \cup {Len(url) + 1}
        Piece(n) == SubSeq(url, Nth(cuts, n) + 1, Nth(cuts, n + 1) - 1)
    IN [n \in 1..(Cardinality(cuts) - 1) |->
            <<Piece(n)[1], Piece(n)[2], Unpercent(SubSeq(Piece(n), 3, Len(Piece(n))))>>]

IsPlain(text) == \A i \in DOMAIN text : text[i] \in Unreserved
NoControl(text) == \A i \in DOMAIN text : text[i] \notin Control
TwoMembers == <<"{", ":", ",", ":", "}">>
ThreeMembers == <<"{", ":", ",", ":", ",", ":", "}">>

ComputerIsNamed(me, sent) ==
    LET two == << <<"MacAddress">>, me.machine, <<"Name">>, me.name>>
        mac == <<"macAddress", "=", me.machine>>
        ids == {me.machine, me.legacy}
        inRoom == Len(me.machine) < MachineRoom /\ Len(me.legacy) < MachineRoom /\ Len(me.name) < NameRoom
    IN /\ sent # <<>> =>
              IF me.legacy = NoText THEN Says(sent[1], two, TwoMembers)
              ELSE Says(sent[1], two \o << <<"LegacyMacAddress">>, me.legacy>>, ThreeMembers)
       /\ Len(sent) = 2 /\ Len(me.name) < NameRoom /\ (\A id \in ids : IsPlain(id)) =>
              Parameters(sent[2]) =
                  IF me.legacy = NoText THEN <<mac>>
                  ELSE <<mac, <<"legacyMacAddress", "=", me.legacy>>, <<"name", "=", me.name>>>>
       /\ inRoom /\ (\A text \in ids \cup {me.name} : NoControl(text)) => sent # <<>>
       /\ inRoom /\ (\A text \in ids \cup {me.name} : IsPlain(text)) => Len(sent) = 2

\* product and computer between the 15 characters that stand in every such body.
LicenseIsAskedFor(product, computer, sent) ==
    LET meant == <<"{", "quote", "Product", "quote", ":", "quote">> \o product
                 \o <<"quote", ",", "quote", "Computer", "quote", ":", "quote">> \o computer \o <<"quote", "}">>
    IN IF Len(meant) < BodyRoom
       THEN Says(sent, << <<"Product">>, product, <<"Computer">>, computer>>, TwoMembers)
       ELSE /\ Len(sent) = BodyRoom - 1 /\ IsPrefix(sent, meant)
            /\ AroundStrings(sent, Delimiters(sent)) # TwoMembers

LicenseIsFetched(base, path, sent) ==
    IF Len(base) + Len(path) >= UrlRoom THEN sent = NoFit
    ELSE /\ Parameters(sent)[1] = <<"computer", "=", Input.id>>
         /\ Parameters(sent)[2] = <<"product", "=", Input.product>>

RequestsSayWhatIsMeant ==
    /\ ComputerIsNamed(Input.me, answer.computer)
    /\ LicenseIsAskedFor(Input.product, Input.id, answer.license)
    /\ LicenseIsFetched(Input.base.scheme \o Input.base.host \o Input.base.rest,
                        LicensePath(Input.product, Input.id, "90", Input.alg), answer.get)
    /\ IF Input.code = <<>>
       THEN Says(answer.patch, << <<"License">>, Input.id, <<"Code">>>>, <<"{", ":", ",", ":", "null", "}">>)
       ELSE /\ answer.patch # NoFit =>
                   Says(answer.patch, << <<"License">>, Input.id, <<"Code">>, Input.code[1]>>, TwoMembers)
            /\ NoControl(Input.code[1]) /\ Len(Input.code[1]) < CodeRoom => answer.patch # NoFit
    /\ answer.host = SubSeq(Input.base.host, 1, Min({Len(Input.base.host), HostRoom - 1}))

RefusalIsExplained ==
    LET members == Input.members
        First(name) == {i \in DOMAIN members :
                            members[i].name = name /\ \A k \in 1..(i - 1) : members[k].name # name}
        shown == {r \in 1..4 : \E i \in First(<<"detail", "message", "title", "error">>[r]) :
                                   members[i].kind = "string" /\ members[i].value \notin DetailTooLong}
        best == CHOOSE r \in shown : \A q \in shown : r <= q
    IN IF shown = {} THEN answer.detail = ""
       ELSE \E i \in First(<<"detail", "message", "title", "error">>[best]) : answer.detail = members[i].value

MarkersOf == [E_TRIAL_QUOTA          |-> {"trial_quota"},
              E_PAID_FORMAT_REQUIRED |-> {"embedded-format-requires-receipt"},
              E_PLAN_LIMIT           |-> {"sandbox_limit", "ALU limit"}]

RefusalIsNamed ==
    LET known == {err \in DOMAIN MarkersOf : MarkersOf[err] \cap Input.markers # {}}
    IN IF Input.status \in {401, 403} THEN answer.err = "E_AUTH"
       ELSE answer.err \in known \/ (known = {} /\ answer.err = "E_API")

WireIsFaithful ==
    /\ Done("request") => RequestsSayWhatIsMeant
    /\ Done("refusal") => RefusalIsExplained /\ RefusalIsNamed

(***************************************************************************)
(* hlm_ffi_create makes the handle it was asked for or none: no handle     *)
(* with a string that was cut, without keys it could read or without an    *)
(* identity; a given identity is used alone, otherwise the older one is    *)
(* sent as legacy exactly beside the newer; and what the handle then sends *)
(* to register the computer names that identity and that name.             *)
(***************************************************************************)
HandleIsAsAsked ==
    Done("open") =>
        LET asked   == Input.asked
            machine == Input.machine
            handle  == answer.handle
            Room(f) == CASE f = "id" -> MachineRoom [] f = "name" -> NameRoom [] OTHER -> StrRoom
            Fits(f) == asked[f] = Null \/ Len(asked[f]) < Room(f)
            wanted  == IF asked.id # Null THEN asked.id ELSE IF machine.v2 # Unknown THEN machine.v2 ELSE machine.v1
        IN /\ handle # NoHandle <=>
                  /\ asked.product # Null /\ asked.apiKey # Null
                  /\ \A f \in {"base", "product", "apiKey", "path", "id", "name"} : Fits(f)
                  /\ \E i \in DOMAIN asked.jwks.set : i = 1 /\ asked.jwks.set[i].len = [x |-> CoordLen, y |-> CoordLen]
                  /\ asked.id # Null \/ machine.v1 # Unknown \/ machine.v2 # Unknown
                  /\ asked.name # Null \/ machine.name # Unknown
           /\ handle # NoHandle =>
                  /\ handle.product = asked.product /\ handle.apiKey = asked.apiKey
                  /\ handle.base = IF asked.base \in {Null, <<>>} THEN DefaultBase ELSE asked.base
                  /\ handle.stores <=> asked.path \notin {Null, <<>>}
                  /\ handle.stores => handle.path = asked.path
                  /\ handle.machine = wanted
                  /\ handle.legacy = IF asked.id = Null /\ machine.v2 # Unknown THEN machine.v1 ELSE NoText
                  /\ handle.name = IF asked.name = Null THEN machine.name ELSE asked.name
                  /\ handle.keys # <<>> /\ handle.days > 0 /\ handle.format \in 1..3
                  /\ ComputerIsNamed([machine |-> wanted, name |-> handle.name, legacy |-> handle.legacy], answer.sent)
=============================================================================
