-------------------------------- MODULE P256 --------------------------------
(***************************************************************************)
(* ES256 (crypto/hlm_p256.c) on a small curve y^2 = x^3 - 3x + CurveB over *)
(* the field of CurveP elements, with a generator of prime order CurveN.   *)
(* Points are Jacobian, as in the code; the bignum functions are the       *)
(* arithmetic that Bignum is shown to be, and ModPow is hlm_bn_modexp.     *)
(***************************************************************************)
EXTENDS Rsa

CONSTANTS CurveP, CurveN, CurveB, Generator

ASSUME P256Assumption == {CurveP, CurveN, CurveB} \subseteq Nat /\ CurveP > 3 /\ CurveN > 2

FermatInverse(a, m) == ModPow(a, m - 2, m)

Infinity == [x |-> 1, y |-> 1, z |-> 0]
FromAffine(q) == [x |-> q.x, y |-> q.y, z |-> 1]

\* dbl-2001-b for a = -3
PointDouble(a) ==
    LET delta == (a.z * a.z) % CurveP
        gamma == (a.y * a.y) % CurveP
        beta  == (a.x * gamma) % CurveP
        alpha == (3 * (a.x - delta) * (a.x + delta)) % CurveP
        x3    == (alpha * alpha - 8 * beta) % CurveP
        z3    == ((a.y + a.z) * (a.y + a.z) - gamma - delta) % CurveP
        y3    == (alpha * (4 * beta - x3) - 8 * gamma * gamma) % CurveP
    IN IF a.z = 0 \/ a.y = 0 THEN Infinity ELSE [x |-> x3, y |-> y3, z |-> z3]

\* add-1998-cmo-2, which cannot add a point to itself or to its opposite
ChordSum(a, b, u1, u2, s1, s2) ==
    LET h   == (u2 - u1) % CurveP
        r   == (s2 - s1) % CurveP
        hh  == (h * h) % CurveP
        hhh == (h * hh) % CurveP
        v   == (u1 * hh) % CurveP
        x3  == (r * r - hhh - 2 * v) % CurveP
    IN [x |-> x3, y |-> (r * (v - x3) - s1 * hhh) % CurveP, z |-> (((a.z * b.z) % CurveP) * h) % CurveP]

\* Mutant: points of one x are taken to be opposite.
OppositeOfSameX(a, s1, s2) == Infinity

\* The sum of points of one x: they are opposite or equal.
SumOfSameX(a, s1, s2) == IF s1 # s2 THEN Infinity ELSE PointDouble(a)

PointAdd(a, b) ==
    LET z1z1 == (a.z * a.z) % CurveP
        z2z2 == (b.z * b.z) % CurveP
        u1 == (a.x * z2z2) % CurveP
        u2 == (b.x * z1z1) % CurveP
        s1 == (a.y * ((b.z * z2z2) % CurveP)) % CurveP
        s2 == (b.y * ((a.z * z1z1) % CurveP)) % CurveP
    IN CASE a.z = 0                                -> b
         [] a.z # 0 /\ b.z = 0                     -> a
         [] a.z # 0 /\ b.z # 0 /\ u1 = u2         -> SumOfSameX(a, s1, s2)
         [] OTHER                                  -> ChordSum(a, b, u1, u2, s1, s2)

\* Double and add, most significant bit first.
ScalarMul(k, a) ==
    LET times[i \in 0..k] ==
            IF i = 0 THEN Infinity
            ELSE LET t == PointDouble(times[i \div 2]) IN IF i % 2 = 1 THEN PointAdd(t, a) ELSE t
    IN times[k]

AffineX(a) == LET zinv == FermatInverse(a.z, CurveP) IN (a.x * ((zinv * zinv) % CurveP)) % CurveP

OnCurve(q) == (q.y * q.y) % CurveP = (q.x * q.x * q.x - 3 * q.x + CurveB) % CurveP

PublicKeySane(q) == /\ q.x < CurveP /\ q.y < CurveP
                    /\ q.x # 0 \/ q.y # 0
                    /\ OnCurve(q)

InRange(sig) == sig.r \in 1..(CurveN - 1) /\ sig.s \in 1..(CurveN - 1)

EcdsaVerify(q, hash, sig) ==
    LET w   == FermatInverse(sig.s, CurveN)
        sum == PointAdd(ScalarMul(((hash % CurveN) * w) % CurveN, FromAffine(Generator)),
                        ScalarMul((sig.r * w) % CurveN, FromAffine(q)))
    IN CASE ~ PublicKeySane(q)                  -> KeyUnusable
         [] PublicKeySane(q) /\ ~ InRange(sig)  -> Rejected
         [] OTHER -> IF sum.z # 0 /\ AffineX(sum) % CurveN = sig.r THEN Accepted ELSE Rejected
=============================================================================
