--------------------------------- MODULE Rsa ---------------------------------
(***************************************************************************)
(* RS256 (crypto/hlm_rsa.c) with small numbers: a byte has RsaBase values, *)
(* the DigestInfo and the hash a byte or so each.  The bignum functions    *)
(* are the arithmetic that Bignum is shown to be.                          *)
(***************************************************************************)
EXTENDS Integers, Sequences

CONSTANTS RsaBase,      \* values of a byte, 256 in the code
          MinModulus,   \* bytes of the weakest key taken, 256
          MaxModulus,   \* bytes of the largest, 512
          MinPadding,   \* fewest 0xff bytes, 8
          DigestInfo,   \* the 19 bytes of SHA256_DIGEST_INFO
          HashLen       \* 32

ASSUME RsaAssumption == /\ {RsaBase, MinModulus, MaxModulus, MinPadding, HashLen} \subseteq Nat
                        /\ RsaBase > 1 /\ MinModulus > 1

KeyUnusable == -1
Rejected == 0
Accepted == 1

\* hlm_bn_modexp as it multiplies, most significant bit first.
ModPow(b, e, m) ==
    LET pow[k \in 0..e] ==
            IF k = 0 THEN 1
            ELSE LET half == pow[k \div 2] IN (((half * half) % m) * (IF k % 2 = 1 THEN b % m ELSE 1)) % m
    IN pow[e]

Number(bytes) ==
    LET value[i \in 0..Len(bytes)] == IF i = 0 THEN 0 ELSE RsaBase * value[i - 1] + bytes[i]
    IN value[Len(bytes)]

ByteString(n, len) == [i \in 1..len |-> (n \div RsaBase ^ (len - i)) % RsaBase]

Stripped(bytes) ==
    LET zeros == {z \in 0..Len(bytes) : \A i \in 1..z : bytes[i] = 0}
    IN SubSeq(bytes, 1 + CHOOSE z \in zeros : \A y \in zeros : y <= z, Len(bytes))

\* 00 01 ff..ff 00 DigestInfo hash, of the length of the modulus
Encoding(hash, k) ==
    <<0, 1>> \o [i \in 1..(k - 3 - Len(DigestInfo) - HashLen) |-> RsaBase - 1] \o <<0>>
        \o DigestInfo \o hash

EncodingFits(k) == k >= 3 + MinPadding + Len(DigestInfo) + HashLen

ExponentUsable(e) == e % 2 = 1 /\ e >= 3

\* Mutant: a signature above the modulus is reduced by the exponentiation.
BelowModulusOrNot(s, n) == TRUE
BelowModulus(s, n) == s < n

RsaVerify(key, sig, hash) ==
    LET modulus == Stripped(key.n)
        k == Len(modulus)
        n == Number(modulus)
        s == Number(sig)
    IN CASE k \notin MinModulus..MaxModulus  -> KeyUnusable
         [] k \in MinModulus..MaxModulus /\ Len(sig) # k -> Rejected
         [] OTHER ->
              IF Len(key.e) > MaxModulus \/ ~ ExponentUsable(Number(key.e)) THEN KeyUnusable
              ELSE IF /\ BelowModulus(s, n)
                      /\ EncodingFits(k)
                      /\ ByteString(ModPow(s, Number(key.e), n), k) = Encoding(hash, k)
                   THEN Accepted ELSE Rejected
=============================================================================
