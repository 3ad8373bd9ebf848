------------------------------- MODULE Ed25519 -------------------------------
(***************************************************************************)
(* EdDSA verification (crypto/hlm_ed25519.c) in small: the field has       *)
(* 2^(FeBits * FeLimbs - 1) - FeC elements in FeLimbs limbs of FeBits bits *)
(* (16 of 16 and 19 in the code), scalars have ScLen digits of ScBits      *)
(* bits (32 of 8) and the group order is ScTop in its last digit and       *)
(* something small in the first ones, as 2^252 + delta is.  Limbs are      *)
(* signed and not reduced until packed, and reduction is the code's.       *)
(***************************************************************************)
EXTENDS Integers, Sequences, FiniteSetsExt

CONSTANTS FeBits, FeLimbs, FeC,
          EdD, EdI, EdX, EdY,   \* d, sqrt(-1) and the base point, as numbers
          InvSkip, RootSkip,    \* zero bits of p - 2 and (p - 5) / 8
          ScBits, ScLen, EdL,   \* EdL: digits of the group order, the first at 0
          ScSpan,               \* digits a folded digit is spread over, 20
          ScTopBits             \* bits of EdL's last digit below its one, 4

ASSUME Ed25519Assumption ==
    /\ {FeBits, FeLimbs, FeC, ScBits, ScLen, ScSpan, ScTopBits} \subseteq Nat \ {0}
    /\ EdL \in [0..(ScLen - 1) -> 0..(2 ^ ScBits - 1)]

FeBase == 2 ^ FeBits
FeIndex == 1..FeLimbs
Fold == 2 * FeC
PrimeLimb(i) == CASE i = 1 -> FeBase - FeC [] i = FeLimbs -> FeBase \div 2 - 1 [] OTHER -> FeBase - 1

Fe == [FeIndex -> Int]
FeOf(n) == [i \in FeIndex |-> (n \div FeBase ^ (i - 1)) % FeBase]
Fe0 == FeOf(0)
Fe1 == FeOf(1)
FeD == FeOf(EdD)
FeD2 == FeOf((2 * EdD) % (FeBase ^ FeLimbs \div 2 - FeC))

\* Each limb is lifted by the base and its carry lowered by one, so that carries are never negative.
CarryLimb(limbs, v) == [carry |-> v \div FeBase, limbs |-> Append(limbs, v % FeBase)]
FoldLast(run) == [run.limbs EXCEPT ![1] = @ + Fold * (run.carry - 1)]

FeCarry(o) ==
    LET run[i \in 0..FeLimbs] ==
            IF i = 0 THEN [carry |-> 1, limbs |-> <<>>]
            ELSE CarryLimb(run[i - 1].limbs, o[i] + FeBase + run[i - 1].carry - 1)
    IN FoldLast(run[FeLimbs])

FeLessPrime(t) ==
    LET borrow[i \in 0..FeLimbs] ==
            IF i = 0 THEN 0 ELSE ((t[i] - PrimeLimb(i) - borrow[i - 1]) \div FeBase) % 2
    IN IF borrow[FeLimbs] = 1 THEN t
       ELSE [i \in FeIndex |-> (t[i] - PrimeLimb(i) - borrow[i - 1]) % FeBase]

\* The canonical form: carried three times, the prime subtracted at most twice.
FePack(n) == FeLessPrime(FeLessPrime(FeCarry(FeCarry(FeCarry(n)))))

FeNeq(a, b) == FePack(a) # FePack(b)
FeParity(a) == FePack(a)[1] % 2

FeAdd(a, b) == [i \in FeIndex |-> a[i] + b[i]]
FeSub(a, b) == [i \in FeIndex |-> a[i] - b[i]]
FeDouble(a) == FeAdd(a, a)

\* A function of both factors, so that TLC computes them before it begins the product.
FeProduct[a \in Fe, b \in Fe] ==
    LET t(k) == LET sum[i \in 0..FeLimbs] ==
                        IF i = 0 THEN 0
                        ELSE (IF k + 1 - i \in FeIndex THEN a[i] * b[k + 1 - i] ELSE 0) + sum[i - 1]
                IN sum[FeLimbs]
    IN FeCarry(FeCarry([k \in FeIndex |-> t(k) + Fold * t(k + FeLimbs)]))
FeMul(a, b) == FeProduct[a, b]

\* Square and multiply over an exponent of ones, but for the bits in skip.
FeChain(a, top, skip) ==
    LET c[bits \in 0..(top + 1), f \in Fe] ==
            IF bits = 0 THEN f
            ELSE LET sq == FeMul(f, f) IN c[bits - 1, IF bits - 1 \in skip THEN sq ELSE FeMul(sq, a)]
    IN c[top + 1, a]

FeInv(a) == FeChain(a, FeBits * FeLimbs - 3, InvSkip)
FePow2523(a) == FeChain(a, FeBits * FeLimbs - 6, RootSkip)

EdPoints == [x : Fe, y : Fe, z : Fe, t : Fe]
Neutral == [x |-> Fe0, y |-> Fe1, z |-> Fe1, t |-> Fe0]

\* The last four products of the addition, and the sums and differences they are of.
Products(e, f, g, h) == [x |-> FeMul(e, f), y |-> FeMul(h, g), z |-> FeMul(g, f), t |-> FeMul(e, h)]
Combined(a, b, c, d) == Products(FeSub(b, a), FeSub(d, c), FeAdd(d, c), FeAdd(b, a))

EdAdd(p, q) ==
    Combined(FeMul(FeSub(p.y, p.x), FeSub(q.y, q.x)),
             FeMul(FeAdd(p.x, p.y), FeAdd(q.x, q.y)),
             FeMul(FeMul(p.t, q.t), FeD2),
             FeDouble(FeMul(p.z, q.z)))

\* An encoded point is the canonical y and the sign of x, which the code keeps in y's top bit.
PackedWith(p, zi) == [y |-> FePack(FeMul(p.y, zi)), sign |-> FeParity(FeMul(p.x, zi))]
EdPack(p) == PackedWith(p, FeInv(p.z))

ScalarBit(s, i) == (s[i \div ScBits] \div 2 ^ (i % ScBits)) % 2

\* The ladder: both points are swapped, added and swapped back at each bit.
EdScalarMul(q, s) ==
    LET run[bits \in 0..(ScBits * ScLen), p0 \in EdPoints, p1 \in EdPoints] ==
            IF bits = 0 THEN p0
            ELSE IF ScalarBit(s, bits - 1) = 0 THEN run[bits - 1, EdAdd(p0, p0), EdAdd(p1, p0)]
            ELSE run[bits - 1, EdAdd(p0, p1), EdAdd(p1, p1)]
    IN run[ScBits * ScLen, Neutral, q]

EdBase == [x |-> FeOf(EdX), y |-> FeOf(EdY), z |-> Fe1, t |-> FeMul(FeOf(EdX), FeOf(EdY))]

OffCurve == [x |-> <<>>]

\* Decompression: x is num * den^3 * (num * den^7)^((p - 5) / 8), or that times sqrt(-1).
FeSquare(a) == FeMul(a, a)
RootCandidate(num, den) ==
    LET den6 == FeMul(FeSquare(FeSquare(den)), FeSquare(den))
        pow  == FePow2523(FeMul(FeMul(den6, num), den))
    IN FeMul(FeMul(FeMul(FeMul(pow, num), den), den), den)

IsRoot(x, num, den) == ~ FeNeq(FeMul(FeSquare(x), den), num)
Adjusted(x, num, den) == IF IsRoot(x, num, den) THEN x ELSE FeMul(x, FeOf(EdI))

\* Straight to the negative of the point: x of the other sign.
NegativePoint(x, y) == [x |-> x, y |-> y, z |-> Fe1, t |-> FeMul(x, y)]
Decompressed(enc, x, num, den) ==
    IF ~ IsRoot(x, num, den) THEN OffCurve
    ELSE NegativePoint(IF FeParity(x) = enc.sign THEN FeSub(Fe0, x) ELSE x, enc.y)

Unpacked(enc, num, den) == Decompressed(enc, Adjusted(RootCandidate(num, den), num, den), num, den)
EdUnpackNeg(enc) == Unpacked(enc, FeSub(FeSquare(enc.y), Fe1), FeAdd(Fe1, FeMul(FeSquare(enc.y), FeD)))

ScBase == 2 ^ ScBits
ScFold == 2 ^ (ScBits - ScTopBits)

\* Digit i, above the scalar's length, is spread over the digits ScLen places below it.
FoldInto(x, carry, j, v) ==
    LET over == (v + ScBase \div 2) \div ScBase
    IN [x |-> [x EXCEPT ![j] = v - over * ScBase], carry |-> over]

FoldDigit(x, i) ==
    LET low  == i - ScLen
        high == low + ScSpan
        run[j \in low..high] ==
            IF j = low THEN [x |-> x, carry |-> 0]
            ELSE FoldInto(run[j - 1].x, run[j - 1].carry, j - 1,
                          run[j - 1].x[j - 1] + run[j - 1].carry - ScFold * x[i] * EdL[j - 1 - low])
    IN [run[high].x EXCEPT ![high] = @ + run[high].carry, ![i] = 0]

\* The digits of a sum of signed ones, and what is carried out of the last.
Carried(Digit(_)) ==
    LET run[j \in 0..ScLen] ==
            IF j = 0 THEN [digits |-> <<>>, carry |-> 0]
            ELSE LET prev == run[j - 1]
                     v    == Digit(j - 1) + prev.carry
                 IN [digits |-> Append(prev.digits, v % ScBase), carry |-> v \div ScBase]
    IN run[ScLen]

ReduceModL(h) ==
    LET folded[i \in ScLen..(2 * ScLen)] ==
            IF i = 2 * ScLen THEN h ELSE LET x == folded[i + 1] IN FoldDigit(x, i)
        x     == folded[ScLen]
        once  == Carried(LAMBDA j : x[j] - (x[ScLen - 1] \div 2 ^ ScTopBits) * EdL[j])
        twice == Carried(LAMBDA j : once.digits[j + 1] - once.carry * EdL[j])
    IN [j \in 0..(ScLen - 1) |-> twice.digits[j + 1]]

\* Mutant: any S is taken, the group order more as well.
ScalarAny(s) == TRUE

\* Below the group order, compared from the last digit.
ScalarCanonical(s) == \E i \in DOMAIN EdL : s[i] < EdL[i] /\ \A j \in DOMAIN EdL : j > i => s[j] = EdL[j]

\* sig.hash stands for SHA-512 of R, the key and the message.
SignatureHolds(minusA, sig) ==
    /\ minusA # OffCurve
    /\ EdPack(EdAdd(EdScalarMul(minusA, ReduceModL(sig.hash)), EdScalarMul(EdBase, sig.s))) = sig.r

EdVerify(pub, sig) == ScalarCanonical(sig.s) /\ SignatureHolds(EdUnpackNeg(pub), sig)
=============================================================================
