------------------------------- MODULE Bignum -------------------------------
(***************************************************************************)
(* The fixed-capacity arithmetic under signature verification              *)
(* (core/hlm_bignum.c).  A number is the sequence of its limbs, least      *)
(* significant first; the array behind it has MaxLimbs places and only the *)
(* limbs in use are ever read.  A limb has LimbBits bits instead of 32 and *)
(* an intermediate twice as many, so that every carry and borrow of the    *)
(* code is there and small numbers exercise it.                            *)
(***************************************************************************)
EXTENDS Integers, Sequences, FiniteSetsExt, Bits

CONSTANTS LimbBits, ByteBits, MaxLimbs

ASSUME BignumAssumption == /\ {LimbBits, ByteBits, MaxLimbs} \subseteq Nat \ {0}
                           /\ LimbBits % ByteBits = 0

LimbBase == TwoTo(LimbBits)
Wide(t) == t % (LimbBase * LimbBase)

NoRoom == <<>>     \* what hlm_bn_add and hlm_bn_from_bytes_be refuse with -1
Bn0 == <<0>>
Bn1 == <<1>>

LimbAt(a, i) == IF i \in DOMAIN a THEN a[i] ELSE 0
Indices(a, b) == 1..Max({Len(a), Len(b)})
LowLimbs(w, n) == SubSeq(w, 1, n)

BnNormalize(a) == SubSeq(a, 1, Max({1} \cup {i \in DOMAIN a : a[i] # 0}))

BnCmp(a, b) ==
    LET differ == {i \in Indices(a, b) : LimbAt(a, i) # LimbAt(b, i)}
        top    == Max(differ)
    IN CASE differ = {}                      -> 0
         [] differ # {} /\ LimbAt(a, top) > LimbAt(b, top) -> 1
         [] OTHER                            -> -1

BnBit(a, i) == (LimbAt(a, i \div LimbBits + 1) \div TwoTo(i % LimbBits)) % 2
BnBitLen(a) == Max({0} \cup {i + 1 : i \in {j \in 0..(LimbBits * Len(a) - 1) : BnBit(a, j) = 1}})

\* Bytes are big-endian; byte i of the string lands at the bits its distance from the end names.
BnFromBytes(bytes) ==
    LET limbs == Max({1, (Len(bytes) * ByteBits + LimbBits - 1) \div LimbBits})
        per   == LimbBits \div ByteBits
        ByteAt(k) == IF k < Len(bytes) THEN bytes[Len(bytes) - k] ELSE 0
    IN IF Len(bytes) * ByteBits > MaxLimbs * LimbBits
       THEN NoRoom
       ELSE BnNormalize([i \in 1..limbs |->
                Positional([k \in 1..per |-> ByteAt((i - 1) * per + k - 1)], TwoTo(ByteBits), per)])

BnToBytes(a, len) ==
    LET need == (BnBitLen(a) + ByteBits - 1) \div ByteBits
        ByteOf(k) == (LimbAt(a, (k * ByteBits) \div LimbBits + 1)
                          \div TwoTo((k * ByteBits) % LimbBits)) % TwoTo(ByteBits)
    IN IF need > len THEN NoRoom
       ELSE [i \in 1..len |-> IF len - i < need THEN ByteOf(len - i) ELSE 0]

\* The sum limb by limb; a carry out of the last place needs one more of the array.
BnAdd(a, b) ==
    LET carry[i \in {0} \cup Indices(a, b)] ==
            IF i = 0 THEN 0 ELSE Wide(LimbAt(a, i) + LimbAt(b, i) + carry[i - 1]) \div LimbBase
        sum == [i \in Indices(a, b) |-> (LimbAt(a, i) + LimbAt(b, i) + carry[i - 1]) % LimbBase]
        out == carry[Len(sum)]
    IN CASE out = 0                          -> BnNormalize(sum)
         [] out # 0 /\ Len(sum) >= MaxLimbs  -> NoRoom
         [] OTHER                            -> BnNormalize(Append(sum, out))

\* The difference over the limbs of a; a wide unsigned difference below zero borrows.
Minus(a, b) ==
    LET borrow[i \in {0} \cup DOMAIN a] ==
            IF i = 0 THEN 0 ELSE (Wide(a[i] - LimbAt(b, i) - borrow[i - 1]) \div LimbBase) % 2
    IN [i \in DOMAIN a |-> (a[i] - LimbAt(b, i) - borrow[i - 1]) % LimbBase]

BnSub(a, b) == BnNormalize(Minus(a, b))

\* One row of the schoolbook product: out + a[i] * b, shifted to place i.
MulRow(out, a, b, i) ==
    LET carry[j \in 0..Len(b)] ==
            IF j = 0 THEN 0 ELSE Wide(a[i] * b[j] + out[i + j - 1] + carry[j - 1]) \div LimbBase
    IN [k \in DOMAIN out |->
            CASE k \in i..(i + Len(b) - 1) -> Wide(a[i] * b[k - i + 1] + out[k] + carry[k - i]) % LimbBase
              [] k = i + Len(b)            -> carry[Len(b)]
              [] OTHER                     -> out[k]]

RawMul(a, b) ==
    LET rows[i \in 0..Len(a)] == IF i = 0 THEN [k \in 1..(Len(a) + Len(b)) |-> 0]
                                 ELSE MulRow(rows[i - 1], a, b, i)
    IN rows[Len(a)]

\* Binary long division in a work buffer one limb wider than the modulus.
ShiftIn(w, bit) ==
    [j \in DOMAIN w |-> (2 * w[j] + (IF j = 1 THEN bit ELSE w[j - 1] \div (LimbBase \div 2))) % LimbBase]

ReduceOnce(w, m) == IF BnCmp(w, m) >= 0 THEN Minus(w, m) ELSE w

\* Mutant: the work buffer has no limb for the bit that is shifted out of the modulus's.
RawModNarrow(num, m) ==
    LET bits == BnBitLen(num)
        work[k \in 0..bits] == IF k = 0 THEN [j \in DOMAIN m |-> 0]
                               ELSE ReduceOnce(ShiftIn(work[k - 1], BnBit(num, bits - k)), m)
    IN work[bits]

RawMod(num, m) ==
    LET bits == BnBitLen(num)
        work[k \in 0..bits] == IF k = 0 THEN [j \in 1..(Len(m) + 1) |-> 0]
                               ELSE ReduceOnce(ShiftIn(work[k - 1], BnBit(num, bits - k)), m)
    IN LowLimbs(work[bits], Len(m))

BnMod(a, m) == BnNormalize(RawMod(a, m))
BnModMul(a, b, m) == BnNormalize(RawMod(RawMul(a, b), m))

BnModAdd(a, b, m) ==
    LET t == BnAdd(a, b) IN IF BnCmp(t, m) >= 0 THEN BnSub(t, m) ELSE t

BnModSub(a, b, m) ==
    IF BnCmp(a, b) >= 0 THEN BnSub(a, b) ELSE BnModAdd(a, BnSub(m, b), m)

BnModExp(base, exp, m) ==
    LET bits == BnBitLen(exp)
        b    == BnMod(base, m)
        acc[k \in 0..bits] ==
            IF k = 0 THEN Bn1
            ELSE LET sofar  == acc[k - 1]
                     square == BnModMul(sofar, sofar, m)
                 IN IF BnBit(exp, bits - k) = 1 THEN BnModMul(square, b, m) ELSE square
    IN acc[bits]

\* The number a sequence of limbs stands for; the arithmetic the code is compared with.
BnValue(a) == Positional(a, LimbBase, Len(a))
=============================================================================
