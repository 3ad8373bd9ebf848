---------------------------- MODULE BignumProofs ----------------------------
(***************************************************************************)
(* Proofs about the fixed-capacity arithmetic of Bignum: for limbs and     *)
(* bytes of any width, an array of any length and operands of any size,    *)
(* every operation computes what arithmetic does with the numbers.         *)
(***************************************************************************)
EXTENDS JsonProofs

(***************************************************************************)
(* Powers of two and division.                                             *)
(***************************************************************************)
LEMMA PowerStep ==
  /\ TwoTo(0) = 1
  /\ \A n \in Nat : TwoTo(n + 1) = 2 * TwoTo(n)
  BY RaisedStep DEF TwoTo

LEMMA PowerPositive == \A n \in Nat : TwoTo(n) \in Nat \ {0}
<1> DEFINE S == {n \in Nat : TwoTo(n) \in Nat \ {0}}
<1>1. 0 \in S
  BY PowerStep
<1>2. \A n \in Nat : n \in S => n + 1 \in S
  BY PowerStep
<1>. HIDE DEF S
<1>3. Nat \subseteq S
  BY <1>1, <1>2, Induction
<1>. QED
  BY <1>3 DEF S

LEMMA PowerAdds ==
  ASSUME NEW m \in Nat
  PROVE  \A n \in Nat : TwoTo(m + n) = TwoTo(m) * TwoTo(n)
<1> DEFINE S == {n \in Nat : TwoTo(m + n) = TwoTo(m) * TwoTo(n)}
<1>0. TwoTo(m) \in Nat
  BY PowerPositive
<1>1. 0 \in S
  BY <1>0, PowerStep
<1>2. \A n \in Nat : n \in S => n + 1 \in S
  <2>. SUFFICES ASSUME NEW n \in Nat, TwoTo(m + n) = TwoTo(m) * TwoTo(n)
                PROVE  TwoTo(m + (n + 1)) = TwoTo(m) * TwoTo(n + 1)
    OBVIOUS
  <2>1. TwoTo((m + n) + 1) = 2 * TwoTo(m + n) /\ TwoTo(n + 1) = 2 * TwoTo(n)
    BY PowerStep
  <2>2. m + (n + 1) = (m + n) + 1 /\ TwoTo(n) \in Nat
    BY PowerPositive
  <2>. QED
    BY <1>0, <2>1, <2>2
<1>. HIDE DEF S
<1>3. Nat \subseteq S
  BY <1>1, <1>2, Induction
<1>. QED
  BY <1>3 DEF S

LEMMA DivisionIs ==
  ASSUME NEW a \in Nat \ {0}, NEW q \in Int, NEW r \in Int, 0 <= r, r < a
  PROVE  (q * a + r) \div a = q /\ (q * a + r) % a = r
<1> DEFINE n == q * a + r
           p == n \div a
           s == n % a
<1>1. n \in Int /\ p \in Int /\ s \in Int /\ n = p * a + s /\ 0 <= s /\ s < a
  OBVIOUS
<1>. HIDE DEF p, s
<1>2. (p - q) * a = r - s
  BY <1>1
<1>3. ~ (p - q >= 1)
  <2>1. p - q >= 1 => (p - q) * a >= a
    BY <1>1
  <2>. QED
    BY <1>1, <1>2, <2>1
<1>4. ~ (q - p >= 1)
  <2>1. q - p >= 1 => (q - p) * a >= a
    BY <1>1
  <2>2. (q - p) * a = s - r
    BY <1>1
  <2>. QED
    BY <1>1, <2>1, <2>2
<1>5. p = q
  BY <1>1, <1>3, <1>4
<1>. QED
  BY <1>1, <1>5 DEF p, s

LEMMA DividesTwice ==
  ASSUME NEW n \in Nat, NEW a \in Nat \ {0}, NEW b \in Nat \ {0}
  PROVE  (n \div a) \div b = n \div (a * b)
<1> DEFINE u == n \div a
           r == n % a
           v == u \div b
           s == u % b
<1>1. u \in Nat /\ r \in Int /\ 0 <= r /\ r < a /\ n = u * a + r
  OBVIOUS
<1>. HIDE DEF u, r
<1>2. v \in Int /\ s \in Int /\ 0 <= s /\ s < b /\ u = v * b + s
  BY <1>1
<1>. HIDE DEF v, s
<1>3. n = v * (a * b) + (s * a + r)
  BY <1>1, <1>2
<1>4. 0 <= s * a + r /\ s * a + r < a * b /\ s * a + r \in Int
  <2>1. s * a >= 0 /\ s * a \in Int
    BY <1>1, <1>2
  <2>2. (b - 1 - s) * a >= 0
    BY <1>1, <1>2
  <2>3. (b - 1 - s) * a = a * b - a - s * a
    BY <1>2
  <2>4. a * b \in Int
    OBVIOUS
  <2>. QED
    BY <1>1, <2>1, <2>2, <2>3, <2>4
<1>5. a * b \in Nat \ {0}
  OBVIOUS
<1>6. (v * (a * b) + (s * a + r)) \div (a * b) = v
  BY <1>2, <1>4, <1>5, DivisionIs
<1>. QED
  BY <1>3, <1>6 DEF v, u


LEMMA Division ==
  ASSUME NEW n \in Nat, NEW a \in Nat \ {0}
  PROVE  /\ n = (n \div a) * a + (n % a)
         /\ n \div a \in Nat /\ n % a \in Nat /\ n % a < a
<1> DEFINE u == n \div a
           r == n % a
<1>1. u \in Nat /\ r \in Int /\ 0 <= r /\ r < a /\ n = u * a + r
  OBVIOUS
<1>. HIDE DEF u, r
<1>2. n = u * a + r /\ u \in Nat /\ r \in Nat /\ r < a
  BY <1>1
<1>. QED
  BY <1>2 DEF u, r

(***************************************************************************)
(* Powers of any base.                                                     *)
(***************************************************************************)

LEMMA RaisedAdds ==
  ASSUME NEW b \in Nat \ {0}, NEW m \in Nat
  PROVE  \A n \in Nat : Raised(b, m + n) = Raised(b, m) * Raised(b, n)
<1> DEFINE S == {n \in Nat : Raised(b, m + n) = Raised(b, m) * Raised(b, n)}
<1>0. Raised(b, m) \in Nat
  BY RaisedPositive
<1>1. 0 \in S
  BY <1>0, RaisedStep
<1>2. \A n \in Nat : n \in S => n + 1 \in S
  <2>. SUFFICES ASSUME NEW n \in Nat, Raised(b, m + n) = Raised(b, m) * Raised(b, n)
                PROVE  Raised(b, m + (n + 1)) = Raised(b, m) * Raised(b, n + 1)
    OBVIOUS
  <2> DEFINE p == Raised(b, m)
             q == Raised(b, n)
  <2>1. Raised(b, (m + n) + 1) = b * (p * q) /\ Raised(b, n + 1) = b * q
    BY RaisedStep
  <2>2. m + (n + 1) = (m + n) + 1 /\ p \in Nat /\ q \in Nat
    BY <1>0, RaisedPositive
  <2>. HIDE DEF p, q
  <2>3. b * (p * q) = p * (b * q)
    BY <2>2
  <2>. QED
    BY <2>1, <2>2, <2>3 DEF p
<1>. HIDE DEF S
<1>3. Nat \subseteq S
  BY <1>1, <1>2, Induction
<1>. QED
  BY <1>3 DEF S

LEMMA RaisedTwice ==
  ASSUME NEW b \in Nat \ {0}, NEW p \in Nat
  PROVE  \A n \in Nat : Raised(Raised(b, p), n) = Raised(b, p * n)
<1> DEFINE c == Raised(b, p)
           S == {n \in Nat : Raised(c, n) = Raised(b, p * n)}
<1>0. c \in Nat \ {0}
  BY RaisedPositive
<1>1. 0 \in S
  <2>1. p * 0 = 0
    OBVIOUS
  <2>. QED
    BY <2>1, RaisedStep
<1>2. \A n \in Nat : n \in S => n + 1 \in S
  <2>. SUFFICES ASSUME NEW n \in Nat, Raised(c, n) = Raised(b, p * n) PROVE Raised(c, n + 1) = Raised(b, p * (n + 1))
    OBVIOUS
  <2>1. Raised(c, n + 1) = c * Raised(c, n)
    BY RaisedStep
  <2>2. p * (n + 1) = p + p * n /\ p * n \in Nat
    OBVIOUS
  <2>3. Raised(b, p + p * n) = c * Raised(b, p * n)
    BY <2>2, RaisedAdds
  <2>. QED
    BY <2>1, <2>2, <2>3
<1>. HIDE DEF S, c
<1>3. Nat \subseteq S
  BY <1>1, <1>2, Induction
<1>. QED
  BY <1>3 DEF S, c

LEMMA RaisedGrows ==
  ASSUME NEW b \in Nat \ {0}, NEW m \in Nat, NEW n \in Nat, m <= n
  PROVE  Raised(b, m) <= Raised(b, n)
<1>1. n - m \in Nat /\ m + (n - m) = n
  OBVIOUS
<1>2. Raised(b, n) = Raised(b, m) * Raised(b, n - m)
  BY <1>1, RaisedAdds
<1> DEFINE p == Raised(b, m)
           q == Raised(b, n - m)
<1>3. p \in Nat \ {0} /\ q \in Nat \ {0} /\ Raised(b, n) = p * q
  BY <1>1, <1>2, RaisedPositive
<1>. HIDE DEF p, q
<1>4. p * (q - 1) >= 0 /\ p * (q - 1) = p * q - p
  BY <1>3
<1>5. p <= p * q
  BY <1>3, <1>4
<1>. QED
  BY <1>3, <1>5 DEF p

(***************************************************************************)
(* Numbers written in a positional system.                                 *)
(***************************************************************************)
IsDigits(f, base, n) == \A i \in 1..n : f[i] \in 0..(base - 1)

(* A positional number grows by its next digit.                            *)
LEMMA PosStep ==
  ASSUME NEW f, NEW b
  PROVE  /\ Positional(f, b, 0) = 0
         /\ \A n \in Nat : Positional(f, b, n + 1) = Positional(f, b, n) + f[n + 1] * Raised(b, n)
<1> DEFINE terms(n) == [i \in 1..n |-> f[i] * Raised(b, i - 1)]
<1>1. Positional(f, b, 0) = 0
  BY SumStep DEF Positional
<1>2. ASSUME NEW n \in Nat PROVE Positional(f, b, n + 1) = Positional(f, b, n) + f[n + 1] * Raised(b, n)
  <2>1. Positional(f, b, n + 1) = SumTo(terms(n + 1), n) + terms(n + 1)[n + 1]
    BY SumStep DEF Positional
  <2>2. terms(n + 1)[n + 1] = f[n + 1] * Raised(b, n)
    <3>1. n + 1 \in 1..(n + 1) /\ (n + 1) - 1 = n
      OBVIOUS
    <3>. QED
      BY <3>1
  <2>3. SameTerms(terms(n + 1), terms(n), n)
    <3>1. \A i \in 1..n : i \in 1..(n + 1)
      OBVIOUS
    <3>. QED
      BY <3>1 DEF SameTerms
  <2>4. SumTo(terms(n + 1), n) = SumTo(terms(n), n)
    <3>. HIDE DEF terms
    <3>. QED
      BY <2>3, SameSum
  <2>. QED
    BY <2>1, <2>2, <2>4 DEF Positional
<1>. QED
  BY <1>1, <1>2

LEMMA PosSame ==
  ASSUME NEW f, NEW g, NEW b, NEW n \in Nat, SameTerms(f, g, n)
  PROVE  Positional(f, b, n) = Positional(g, b, n)
<1> DEFINE tf == [i \in 1..n |-> f[i] * Raised(b, i - 1)]
           tg == [i \in 1..n |-> g[i] * Raised(b, i - 1)]
<1>1. SameTerms(tf, tg, n)
  BY DEF SameTerms
<1>. HIDE DEF tf, tg
<1>2. SumTo(tf, n) = SumTo(tg, n)
  BY <1>1, SameSum
<1>. QED
  BY <1>2 DEF Positional, tf, tg

LEMMA DigitFits ==
  ASSUME NEW b \in Nat \ {0}, NEW r \in Nat, NEW p \in Nat, p < r, NEW d \in 0..(b - 1)
  PROVE  p + d * r \in Nat /\ p + d * r < b * r
<1>0. d \in Nat /\ b \in Nat /\ r \in Nat
  OBVIOUS
<1>1. d * r \in Nat /\ b * r \in Nat
  BY <1>0
<1>2. (b - 1 - d) * r \in Nat /\ (b - 1 - d) * r = b * r - r - d * r
  <2>1. b - 1 - d \in Nat
    OBVIOUS
  <2>2. (b - 1 - d) * r = b * r - r - d * r
    BY <1>0
  <2>3. (b - 1 - d) * r \in Nat
    <3> DEFINE x == b - 1 - d
    <3>1. x \in Nat
      BY <2>1
    <3>. HIDE DEF x
    <3>2. x * r \in Nat
      BY <3>1
    <3>. QED
      BY <3>2 DEF x
  <2>. QED
    BY <2>2, <2>3
<1>. QED
  BY <1>1, <1>2

(* n digits make a number below base^n.                                    *)
LEMMA PosBound ==
  ASSUME NEW b \in Nat \ {0}, NEW n \in Nat, NEW f, IsDigits(f, b, n)
  PROVE  \A m \in 0..n : Positional(f, b, m) \in Nat /\ Positional(f, b, m) < Raised(b, m)
<1> DEFINE S == {m \in 0..n : Positional(f, b, m) \in Nat /\ Positional(f, b, m) < Raised(b, m)}
<1>1. 0 \in S
  BY PosStep, RaisedStep
<1>2. \A i \in 0..(n - 1) : i \in S => i + 1 \in S
  <2>. SUFFICES ASSUME NEW i \in 0..(n - 1), i \in S PROVE i + 1 \in S
    OBVIOUS
  <2> DEFINE p == Positional(f, b, i)
             r == Raised(b, i)
             d == f[i + 1]
  <2>1. p \in Nat /\ r \in Nat /\ p < r /\ d \in 0..(b - 1) /\ i + 1 \in 0..n
    <3>1. i \in Nat /\ i + 1 \in 1..n
      OBVIOUS
    <3>. QED
      BY <3>1, RaisedPositive DEF IsDigits
  <2>2. Positional(f, b, i + 1) = p + d * r /\ Raised(b, i + 1) = b * r
    <3>1. i \in Nat
      OBVIOUS
    <3>2. Positional(f, b, i + 1) = Positional(f, b, i) + f[i + 1] * Raised(b, i)
      BY <3>1, PosStep
    <3>3. Raised(b, i + 1) = b * Raised(b, i)
      BY <3>1, RaisedStep
    <3>. QED
      BY <3>2, <3>3
  <2>. HIDE DEF p, r, d
  <2>3. p + d * r \in Nat /\ p + d * r < b * r
    BY <2>1, DigitFits
  <2>. QED
    BY <2>1, <2>2, <2>3
<1>. HIDE DEF S
<1>3. 0..n \subseteq S
  BY <1>1, <1>2, InductionUpTo
<1>. QED
  BY <1>3 DEF S

LEMMA PosZeros ==
  ASSUME NEW b \in Nat \ {0}, NEW n \in Nat, NEW k \in 0..n, NEW f, IsDigits(f, b, k), \A i \in (k + 1)..n : f[i] = 0
  PROVE  Positional(f, b, n) = Positional(f, b, k)
<1> DEFINE S == {m \in 0..(n - k) : Positional(f, b, k + m) = Positional(f, b, k)}
<1>0. Positional(f, b, k) \in Nat
  BY PosBound
<1>1. 0 \in S
  BY <1>0
<1>2. \A i \in 0..(n - k - 1) : i \in S => i + 1 \in S
  <2>. SUFFICES ASSUME NEW i \in 0..(n - k - 1), i \in S PROVE i + 1 \in S
    OBVIOUS
  <2>1. k + i \in Nat /\ k + (i + 1) = (k + i) + 1 /\ i + 1 \in 0..(n - k) /\ (k + i) + 1 \in (k + 1)..n
    OBVIOUS
  <2>2. Positional(f, b, (k + i) + 1) = Positional(f, b, k + i) + 0 * Raised(b, k + i)
    <3>1. Positional(f, b, (k + i) + 1) = Positional(f, b, k + i) + f[(k + i) + 1] * Raised(b, k + i)
      <4>1. k + i \in Nat
        BY <2>1
      <4>. QED
        BY <4>1, PosStep
    <3>2. f[(k + i) + 1] = 0
      BY <2>1
    <3>. QED
      BY <3>1, <3>2
  <2>3. 0 * Raised(b, k + i) = 0
    BY <2>1, RaisedPositive
  <2>. QED
    BY <1>0, <2>1, <2>2, <2>3
<1>. HIDE DEF S
<1>3. 0..(n - k) \subseteq S
  BY <1>1, <1>2, InductionUpTo
<1>4. n - k \in 0..(n - k) /\ k + (n - k) = n
  OBVIOUS
<1>. QED
  BY <1>3, <1>4 DEF S

(* What stands above the first k digits is a multiple of base^k.           *)
LEMMA PosFront ==
  ASSUME NEW b \in Nat \ {0}, NEW n \in Nat, NEW k \in 0..n, NEW f, IsDigits(f, b, n)
  PROVE  \E u \in Nat : Positional(f, b, n) = Positional(f, b, k) + u * Raised(b, k)
<1> DEFINE S == {m \in 0..(n - k) : \E u \in Nat : Positional(f, b, k + m) = Positional(f, b, k) + u * Raised(b, k)}
<1>0. Positional(f, b, k) \in Nat /\ Raised(b, k) \in Nat
  BY PosBound, RaisedPositive
<1>1. 0 \in S
  <2>1. Positional(f, b, k + 0) = Positional(f, b, k) + 0 * Raised(b, k)
    BY <1>0
  <2>. QED
    BY <2>1
<1>2. \A i \in 0..(n - k - 1) : i \in S => i + 1 \in S
  <2>. SUFFICES ASSUME NEW i \in 0..(n - k - 1), i \in S PROVE i + 1 \in S
    OBVIOUS
  <2>0. PICK u \in Nat : Positional(f, b, k + i) = Positional(f, b, k) + u * Raised(b, k)
    OBVIOUS
  <2>1. k + i \in Nat /\ k + (i + 1) = (k + i) + 1 /\ i + 1 \in 0..(n - k) /\ (k + i) + 1 \in 1..n
    OBVIOUS
  <2> DEFINE d == f[(k + i) + 1]
             r == Raised(b, k)
             q == Raised(b, i)
             v == Positional(f, b, k)
  <2>2. Positional(f, b, (k + i) + 1) = (v + u * r) + d * (r * q)
    <3>1. k \in Nat /\ i \in Nat /\ k + i \in Nat
      BY <2>1
    <3>2. Positional(f, b, (k + i) + 1) = Positional(f, b, k + i) + d * Raised(b, k + i)
      BY <3>1, PosStep
    <3>3. Raised(b, k + i) = r * q
      BY <3>1, RaisedAdds
    <3>. QED
      BY <2>0, <3>2, <3>3
  <2>3. d \in Nat /\ r \in Nat /\ q \in Nat /\ v \in Nat
    BY <1>0, <2>1, RaisedPositive DEF IsDigits
  <2>. HIDE DEF d, r, q, v
  <2>4. (v + u * r) + d * (r * q) = v + (u + d * q) * r /\ u + d * q \in Nat
    BY <2>3
  <2>. QED
    BY <2>1, <2>2, <2>4 DEF v, r
<1>. HIDE DEF S
<1>3. 0..(n - k) \subseteq S
  BY <1>1, <1>2, InductionUpTo
<1>4. n - k \in 0..(n - k) /\ k + (n - k) = n
  OBVIOUS
<1>. QED
  BY <1>3, <1>4 DEF S

(* A digit is a quotient and a remainder of the number.                    *)
LEMMA PosDigit ==
  ASSUME NEW b \in Nat \ {0}, NEW n \in Nat, NEW k \in 0..(n - 1), NEW f, IsDigits(f, b, n)
  PROVE  \E u \in Nat : /\ Positional(f, b, n) \div Raised(b, k) = u * b + f[k + 1]
                         /\ (Positional(f, b, n) \div Raised(b, k)) % b = f[k + 1]
<1> DEFINE r == Raised(b, k)
           v == Positional(f, b, k)
           d == f[k + 1]
<1>1. k \in Nat /\ k + 1 \in 0..n /\ k \in 0..n /\ k + 1 \in 1..n
  OBVIOUS
<1>2. PICK u \in Nat : Positional(f, b, n) = Positional(f, b, k + 1) + u * Raised(b, k + 1)
  BY <1>1, PosFront
<1>3. Positional(f, b, k + 1) = v + d * r /\ Raised(b, k + 1) = b * r
  <2>1. k \in Nat
    BY <1>1
  <2>. QED
    BY <2>1, PosStep, RaisedStep
<1>4. v \in Nat /\ v < r /\ r \in Nat \ {0} /\ d \in 0..(b - 1)
  BY <1>1, PosBound, RaisedPositive DEF IsDigits
<1>5. Positional(f, b, n) = (v + d * r) + u * (b * r)
  BY <1>2, <1>3
<1>. HIDE DEF v, d, r
<1>6. (v + d * r) + u * (b * r) = (u * b + d) * r + v /\ u * b + d \in Int
  BY <1>4
<1>7. ((u * b + d) * r + v) \div r = u * b + d
  <2> DEFINE x == u * b + d
  <2>1. x \in Int /\ r \in Nat \ {0} /\ v \in Int /\ 0 <= v /\ v < r
    BY <1>4, <1>6
  <2>. HIDE DEF x
  <2>2. (x * r + v) \div r = x
    BY <2>1, DivisionIs
  <2>. QED
    BY <2>2 DEF x
<1>8. (u * b + d) % b = d
  BY <1>4, DivisionIs
<1>. QED
  BY <1>5, <1>6, <1>7, <1>8 DEF r, d

IsShift(g, f, p, q) == \A i \in 1..q : g[i] = f[p + i]

(* The digits above the p-th are a number of their own, base^p times.      *)
LEMMA PosSplit ==
  ASSUME NEW b \in Nat \ {0}, NEW p \in Nat, NEW q \in Nat, NEW f, NEW g,
         IsDigits(f, b, p + q), IsShift(g, f, p, q)
  PROVE  Positional(f, b, p + q) = Positional(f, b, p) + Raised(b, p) * Positional(g, b, q)
<1> DEFINE S == {m \in 0..q : Positional(f, b, p + m) = Positional(f, b, p) + Raised(b, p) * Positional(g, b, m)}
<1>0. Positional(f, b, p) \in Nat /\ Raised(b, p) \in Nat /\ IsDigits(g, b, q)
  <2>1. p \in 0..(p + q) /\ p + q \in Nat /\ \A i \in 1..q : p + i \in 1..(p + q)
    OBVIOUS
  <2>2. Positional(f, b, p) \in Nat
    BY <2>1, PosBound
  <2>3. IsDigits(g, b, q)
    BY <2>1 DEF IsDigits, IsShift
  <2>. QED
    BY <2>2, <2>3, RaisedPositive
<1>1. 0 \in S
  BY <1>0, PosStep
<1>2. \A i \in 0..(q - 1) : i \in S => i + 1 \in S
  <2>. SUFFICES ASSUME NEW i \in 0..(q - 1), i \in S PROVE i + 1 \in S
    OBVIOUS
  <2>1. p + i \in Nat /\ p + (i + 1) = (p + i) + 1 /\ i + 1 \in 0..q /\ i + 1 \in 1..q /\ i \in 0..q /\ i \in Nat
    OBVIOUS
  <2> DEFINE d == g[i + 1]
             r == Raised(b, p)
             s == Raised(b, i)
             v == Positional(f, b, p)
             w == Positional(g, b, i)
  <2>2. f[(p + i) + 1] = d
    BY <2>1 DEF IsShift
  <2>3. Positional(f, b, (p + i) + 1) = (v + r * w) + d * (r * s)
    <3>1. Positional(f, b, (p + i) + 1) = Positional(f, b, p + i) + f[(p + i) + 1] * Raised(b, p + i)
      BY <2>1, PosStep
    <3>2. Raised(b, p + i) = r * s
      BY <2>1, RaisedAdds
    <3>3. Positional(f, b, p + i) = v + r * w
      OBVIOUS
    <3>. QED
      BY <2>2, <3>1, <3>2, <3>3
  <2>4. Positional(g, b, i + 1) = w + d * s
    BY <2>1, PosStep
  <2>5. d \in Nat /\ r \in Nat /\ s \in Nat /\ v \in Nat /\ w \in Nat
    <3>1. w \in Nat
      BY <1>0, <2>1, PosBound
    <3>2. d \in 0..(b - 1)
      BY <1>0, <2>1 DEF IsDigits
    <3>3. r \in Nat /\ s \in Nat
      BY <2>1, RaisedPositive
    <3>. QED
      BY <1>0, <3>1, <3>2, <3>3
  <2>. HIDE DEF d, r, s, v, w
  <2>6. (v + r * w) + d * (r * s) = v + r * (w + d * s)
    BY <2>5
  <2>. QED
    BY <2>1, <2>3, <2>4, <2>6 DEF v, r
<1>. HIDE DEF S
<1>3. 0..q \subseteq S
  BY <1>1, <1>2, InductionUpTo
<1>. QED
  BY <1>3 DEF S

(* Groups of p digits are the digits of a number to the base b^p.          *)
IsGrouped(g, h, f, b, p, n) ==
  \A i \in 1..n : IsShift(h[i], f, (i - 1) * p, p) /\ g[i] = Positional(h[i], b, p)

LEMMA PosGroups ==
  ASSUME NEW b \in Nat \ {0}, NEW p \in Nat, NEW n \in Nat, NEW f, NEW g, NEW h, IsDigits(f, b, n * p),
         IsGrouped(g, h, f, b, p, n)
  PROVE  Positional(g, Raised(b, p), n) = Positional(f, b, n * p)
<1> DEFINE c == Raised(b, p)
           S == {m \in 0..n : Positional(g, c, m) = Positional(f, b, m * p)}
<1>1. 0 \in S
  <2>1. 0 * p = 0
    OBVIOUS
  <2>. QED
    BY <2>1, PosStep
<1>2. \A i \in 0..(n - 1) : i \in S => i + 1 \in S
  <2>. SUFFICES ASSUME NEW i \in 0..(n - 1), i \in S PROVE i + 1 \in S
    OBVIOUS
  <2> DEFINE q == i * p
             m == n * p
  <2>1. i \in Nat /\ i + 1 \in 1..n /\ (i + 1) - 1 = i /\ i + 1 \in 0..n
    OBVIOUS
  <2>2. q \in Nat /\ m \in Nat /\ q + p <= m /\ (i + 1) * p = q + p /\ p * i = q
    <3>1. (n - i - 1) * p \in Nat
      <4> DEFINE x == n - i - 1
      <4>1. x \in Nat
        OBVIOUS
      <4>. HIDE DEF x
      <4>2. x * p \in Nat
        BY <4>1
      <4>. QED
        BY <4>2 DEF x
    <3>2. (n - i - 1) * p = n * p - i * p - p
      OBVIOUS
    <3>3. i * p \in Nat /\ n * p \in Nat
      OBVIOUS
    <3>. QED
      BY <3>1, <3>2, <3>3
  <2>3. IsShift(h[i + 1], f, q, p)
    BY <2>1 DEF IsGrouped
  <2>4. IsDigits(f, b, m)
    OBVIOUS
  <2>5. g[i + 1] = Positional(h[i + 1], b, p)
    BY <2>1 DEF IsGrouped
  <2>6. Raised(c, i) = Raised(b, q)
    BY <2>1, <2>2, RaisedTwice
  <2>7. Positional(g, c, i + 1) = Positional(g, c, i) + g[i + 1] * Raised(c, i)
    BY <2>1, PosStep
  <2>8. Positional(g, c, i) = Positional(f, b, q)
    OBVIOUS
  <2>. HIDE DEF q, m, S
  <2>9. IsDigits(f, b, q + p)
    <3>1. \A x \in 1..(q + p) : x \in 1..m
      BY <2>2
    <3>. QED
      BY <2>4, <3>1 DEF IsDigits
  <2>10. Positional(f, b, q + p) = Positional(f, b, q) + Raised(b, q) * Positional(h[i + 1], b, p)
    BY <2>2, <2>3, <2>9, PosSplit
  <2>11. Raised(b, q) \in Nat /\ Positional(h[i + 1], b, p) \in Nat
    <3>1. IsDigits(h[i + 1], b, p)
      <4>1. \A k \in 1..p : q + k \in 1..(q + p)
        BY <2>2
      <4>. QED
        BY <2>3, <2>9, <4>1 DEF IsDigits, IsShift
    <3>2. p \in 0..p
      OBVIOUS
    <3>. QED
      BY <2>2, <3>1, <3>2, PosBound, RaisedPositive
  <2> DEFINE s == Raised(b, q)
             t == Positional(h[i + 1], b, p)
  <2>12. t * s = s * t
    <3>1. s \in Nat /\ t \in Nat
      BY <2>11
    <3>. HIDE DEF s, t
    <3>. QED
      BY <3>1
  <2>13. Positional(g, c, i + 1) = Positional(f, b, q + p)
    BY <2>5, <2>6, <2>7, <2>8, <2>10, <2>12
  <2>. QED
    BY <2>1, <2>2, <2>13 DEF S
<1>. HIDE DEF S
<1>3. 0..n \subseteq S
  BY <1>1, <1>2, InductionUpTo
<1>. QED
  BY <1>3 DEF S, c

LEMMA PosSameAbove ==
  ASSUME NEW b \in Nat \ {0}, NEW n \in Nat, NEW p \in 0..n, NEW f, NEW g, IsDigits(f, b, n), IsDigits(g, b, n),
         \A i \in (p + 1)..n : f[i] = g[i]
  PROVE  Positional(f, b, n) - Positional(f, b, p) = Positional(g, b, n) - Positional(g, b, p)
<1> DEFINE D(m) == Positional(f, b, p + m) - Positional(f, b, p) = Positional(g, b, p + m) - Positional(g, b, p)
           S == {m \in 0..(n - p) : D(m)}
<1>0. \A m \in 0..n : Positional(f, b, m) \in Nat /\ Positional(g, b, m) \in Nat
  BY PosBound
<1>1. 0 \in S
  BY <1>0
<1>2. \A i \in 0..(n - p - 1) : i \in S => i + 1 \in S
  <2>. SUFFICES ASSUME NEW i \in 0..(n - p - 1), i \in S PROVE i + 1 \in S
    OBVIOUS
  <2>1. p + i \in Nat /\ p + (i + 1) = (p + i) + 1 /\ i + 1 \in 0..(n - p) /\ (p + i) + 1 \in (p + 1)..n
        /\ (p + i) + 1 \in 1..n /\ p + i \in 0..n /\ p \in 0..n
    OBVIOUS
  <2> DEFINE d == f[(p + i) + 1] * Raised(b, p + i)
             x == Positional(f, b, p + i)
             y == Positional(g, b, p + i)
  <2>2. Positional(f, b, (p + i) + 1) = x + d
    BY <2>1, PosStep
  <2>3. Positional(g, b, (p + i) + 1) = y + d
    <3>1. f[(p + i) + 1] = g[(p + i) + 1]
      BY <2>1
    <3>2. Positional(g, b, (p + i) + 1) = y + g[(p + i) + 1] * Raised(b, p + i)
      BY <2>1, PosStep
    <3>. QED
      BY <3>1, <3>2
  <2>4. d \in Int
    <3>1. f[(p + i) + 1] \in Int
      BY <2>1 DEF IsDigits
    <3>2. Raised(b, p + i) \in Int
      BY <2>1, RaisedPositive
    <3>. QED
      BY <3>1, <3>2
  <2>5. x \in Nat /\ y \in Nat /\ Positional(f, b, p) \in Nat /\ Positional(g, b, p) \in Nat
    BY <1>0, <2>1
  <2>6. x - Positional(f, b, p) = y - Positional(g, b, p)
    OBVIOUS
  <2>. HIDE DEF d, x, y
  <2>. QED
    BY <2>1, <2>2, <2>3, <2>4, <2>5, <2>6
<1>. HIDE DEF S
<1>3. 0..(n - p) \subseteq S
  BY <1>1, <1>2, InductionUpTo
<1>4. n - p \in 0..(n - p) /\ p + (n - p) = n
  OBVIOUS
<1>5. D(n - p)
  BY <1>3, <1>4 DEF S
<1>. QED
  BY <1>4, <1>5

(* The topmost digit that differs decides.                                 *)
LEMMA PosGreater ==
  ASSUME NEW b \in Nat \ {0}, NEW n \in Nat, NEW p \in 1..n, NEW f, NEW g, IsDigits(f, b, n), IsDigits(g, b, n),
         \A i \in (p + 1)..n : f[i] = g[i], f[p] > g[p]
  PROVE  Positional(f, b, n) > Positional(g, b, n)
<1> DEFINE r == Raised(b, p - 1)
           x == Positional(f, b, p - 1)
           y == Positional(g, b, p - 1)
           c == f[p]
           d == g[p]
<1>1. p - 1 \in Nat /\ (p - 1) + 1 = p /\ p - 1 \in 0..n /\ p \in 0..n
  OBVIOUS
<1>2. Positional(f, b, p) = x + c * r /\ Positional(g, b, p) = y + d * r
  BY <1>1, PosStep
<1>3. x \in Nat /\ y \in Nat /\ y < r /\ r \in Nat /\ c \in Nat /\ d \in Nat /\ c > d
  <2>1. x \in Nat /\ y \in Nat /\ y < r
    BY <1>1, PosBound
  <2>2. r \in Nat
    BY <1>1, RaisedPositive
  <2>3. c \in Nat /\ d \in Nat
    BY DEF IsDigits
  <2>. QED
    BY <2>1, <2>2, <2>3
<1>4. Positional(f, b, n) - Positional(f, b, p) = Positional(g, b, n) - Positional(g, b, p)
  BY <1>1, PosSameAbove
<1>5. Positional(f, b, n) \in Nat /\ Positional(g, b, n) \in Nat
  BY PosBound
<1>. HIDE DEF r, x, y, c, d
<1>6. x + c * r > y + d * r /\ x + c * r \in Nat /\ y + d * r \in Nat
  <2>1. (c - d - 1) * r \in Nat
    <3> DEFINE e == c - d - 1
    <3>1. e \in Nat
      BY <1>3
    <3>. HIDE DEF e
    <3>2. e * r \in Nat
      BY <1>3, <3>1
    <3>. QED
      BY <3>2 DEF e
  <2>2. (c - d - 1) * r = c * r - d * r - r
    BY <1>3
  <2>3. c * r \in Nat /\ d * r \in Nat
    BY <1>3
  <2>. QED
    BY <1>3, <2>1, <2>2, <2>3
<1>. QED
  BY <1>2, <1>4, <1>5, <1>6

(***************************************************************************)
(* Digits by division, reversed digits, and what recursive functions are   *)
(* for which the provers must first be shown that they exist.              *)
(***************************************************************************)

LEMMA RemainderSplits ==
  ASSUME NEW v \in Nat, NEW r \in Nat \ {0}, NEW b \in Nat \ {0}
  PROVE  v % (b * r) = (v % r) + ((v \div r) % b) * r
<1> DEFINE q == v \div r
           s == v % r
           u == q \div b
           t == q % b
<1>1. v = q * r + s /\ q \in Nat /\ s \in Nat /\ s < r
  BY Division
<1>2. q = u * b + t /\ u \in Nat /\ t \in Nat /\ t < b
  BY <1>1, Division
<1>. HIDE DEF q, s, u, t
<1>3. v = u * (b * r) + (s + t * r)
  BY <1>1, <1>2
<1>4. s + t * r \in Nat /\ s + t * r < b * r
  BY <1>1, <1>2, DigitFits
<1>5. b * r \in Nat \ {0}
  OBVIOUS
<1> DEFINE m == b * r
           z == s + t * r
<1>6. m \in Nat \ {0} /\ z \in Nat /\ z < m /\ v = u * m + z
  BY <1>3, <1>4, <1>5
<1>. HIDE DEF m, z
<1>7. v % m = z
  BY <1>2, <1>6, DivisionIs
<1>. QED
  BY <1>7 DEF m, z, s, t, q

(* The digits of v, read back, are v modulo base^n.                        *)
LEMMA PosOfDigits ==
  ASSUME NEW b \in Nat \ {0}, NEW v \in Nat, NEW n \in Nat, NEW f,
         \A i \in 1..n : f[i] = (v \div Raised(b, i - 1)) % b
  PROVE  Positional(f, b, n) = v % Raised(b, n)
<1> DEFINE S == {m \in 0..n : Positional(f, b, m) = v % Raised(b, m)}
<1>1. 0 \in S
  <2>1. v % 1 = 0
    OBVIOUS
  <2>. QED
    BY <2>1, PosStep, RaisedStep
<1>2. \A i \in 0..(n - 1) : i \in S => i + 1 \in S
  <2>. SUFFICES ASSUME NEW i \in 0..(n - 1), i \in S PROVE i + 1 \in S
    OBVIOUS
  <2> DEFINE r == Raised(b, i)
             p == Positional(f, b, i)
             d == f[i + 1]
  <2>1. i \in Nat /\ i + 1 \in 1..n /\ (i + 1) - 1 = i /\ i + 1 \in 0..n
    OBVIOUS
  <2>2. r \in Nat \ {0}
    BY <2>1, RaisedPositive
  <2>3. d = (v \div r) % b
    BY <2>1
  <2>4. p = v % r
    OBVIOUS
  <2>5. Positional(f, b, i + 1) = p + d * r
    BY <2>1, PosStep
  <2>6. Raised(b, i + 1) = b * r
    BY <2>1, RaisedStep
  <2>. HIDE DEF r, p, d
  <2>7. v % (b * r) = p + d * r
    BY <2>2, <2>3, <2>4, RemainderSplits
  <2>. QED
    BY <2>1, <2>5, <2>6, <2>7
<1>. HIDE DEF S
<1>3. 0..n \subseteq S
  BY <1>1, <1>2, InductionUpTo
<1>. QED
  BY <1>3 DEF S

IsReversed(e, h, n) == \A i \in 1..n : e[i] = h[n + 1 - i]

LEMMA SumReversed ==
  ASSUME NEW n \in Nat, NEW h, NEW e, \A i \in 1..n : h[i] \in Nat, IsReversed(e, h, n)
  PROVE  SumTo(e, n) = SumTo(h, n)
<1> DEFINE S == {m \in 0..n : SumTo(e, m) + SumTo(h, n - m) = SumTo(h, n)}
<1>0. \A m \in 0..n : SumTo(h, m) \in Nat /\ SumTo(e, m) \in Nat
  <2>1. \A m \in 0..n : SumTo(h, m) \in Nat
    BY SumIsNat
  <2>2. \A i \in 1..n : e[i] \in Nat
    <3>1. \A i \in 1..n : n + 1 - i \in 1..n
      OBVIOUS
    <3>. QED
      BY <3>1 DEF IsReversed
  <2>. QED
    BY <2>1, <2>2, SumIsNat
<1>1. 0 \in S
  <2>1. n - 0 = n /\ n \in 0..n
    OBVIOUS
  <2>. QED
    BY <1>0, <2>1, SumStep
<1>2. \A i \in 0..(n - 1) : i \in S => i + 1 \in S
  <2>. SUFFICES ASSUME NEW i \in 0..(n - 1), i \in S PROVE i + 1 \in S
    OBVIOUS
  <2> DEFINE k == n - (i + 1)
  <2>1. k \in Nat /\ k + 1 = n - i /\ n + 1 - (i + 1) = k + 1 /\ i + 1 \in 1..n /\ i \in Nat /\ k \in 0..n
        /\ i \in 0..n /\ i + 1 \in 0..n /\ k + 1 \in 1..n
    OBVIOUS
  <2>2. SumTo(h, k + 1) = SumTo(h, k) + h[k + 1]
    BY <2>1, SumStep
  <2>3. SumTo(e, i + 1) = SumTo(e, i) + e[i + 1]
    BY <2>1, SumStep
  <2>4. e[i + 1] = h[k + 1]
    BY <2>1 DEF IsReversed
  <2>5. SumTo(e, i) + SumTo(h, k + 1) = SumTo(h, n)
    BY <2>1
  <2>6. h[k + 1] \in Nat /\ SumTo(h, k) \in Nat /\ SumTo(e, i) \in Nat
    BY <1>0, <2>1
  <2>. HIDE DEF k
  <2>7. SumTo(e, i + 1) + SumTo(h, k) = SumTo(h, n)
    BY <2>2, <2>3, <2>4, <2>5, <2>6
  <2>. QED
    BY <2>1, <2>7 DEF k
<1>. HIDE DEF S
<1>3. 0..n \subseteq S
  BY <1>1, <1>2, InductionUpTo
<1>4. SumTo(e, n) + SumTo(h, n - n) = SumTo(h, n) /\ n - n = 0
  BY <1>3 DEF S
<1>. QED
  BY <1>0, <1>4, SumStep

LEMMA MaxIs ==
  ASSUME NEW n \in Nat, NEW S \in SUBSET (0..n), S # {}
  PROVE  Max(S) \in S /\ \A y \in S : Max(S) >= y
<1> DEFINE T == {n - x : x \in S}
<1>1. T \in SUBSET Nat /\ T # {}
  <2>1. \A x \in S : n - x \in Nat
    OBVIOUS
  <2>. QED
    BY <2>1
<1>2. PICK m \in T : \A y \in T : m <= y
  BY <1>1, LeastNumber
<1>3. PICK x \in S : m = n - x
  BY <1>2
<1>4. \A y \in S : x >= y
  <2>. SUFFICES ASSUME NEW y \in S PROVE x >= y
    OBVIOUS
  <2>1. n - y \in T /\ y \in 0..n /\ x \in 0..n
    OBVIOUS
  <2>. QED
    BY <1>2, <1>3, <2>1
<1>. QED
  BY <1>4 DEF Max

(* A recursive function that makes each value from the last and its place. *)
Iterates(g, c, step, n) == g = [i \in 0..n |-> IF i = 0 THEN c ELSE step[<<g[i - 1], i>>]]

LEMMA IterationExists ==
  ASSUME NEW S, NEW c \in S, NEW n \in Nat, NEW step \in [S \X (1..n) -> S]
  PROVE  \E g \in [0..n -> S] : Iterates(g, c, step, n)
<1> DEFINE Solved(m) == \E g \in [0..m -> S] : Iterates(g, c, step, m)
           T == {m \in 0..n : Solved(m)}
<1>1. 0 \in T
  <2> DEFINE g == [i \in 0..0 |-> c]
  <2>1. \A i \in 0..0 : i = 0
    OBVIOUS
  <2>2. g \in [0..0 -> S] /\ Iterates(g, c, step, 0)
    BY <2>1 DEF Iterates
  <2>. HIDE DEF g
  <2>. QED
    BY <2>2
<1>2. \A m \in 0..(n - 1) : m \in T => m + 1 \in T
  <2>. SUFFICES ASSUME NEW m \in 0..(n - 1), Solved(m) PROVE Solved(m + 1)
    OBVIOUS
  <2>1. PICK g \in [0..m -> S] : Iterates(g, c, step, m)
    OBVIOUS
  <2>2. step[<<g[m], m + 1>>] \in S
    <3>1. g[m] \in S /\ m + 1 \in 1..n
      OBVIOUS
    <3>2. <<g[m], m + 1>> \in S \X (1..n)
      BY <3>1
    <3>. QED
      BY <3>2
  <2> DEFINE h == [i \in 0..(m + 1) |-> IF i = m + 1 THEN step[<<g[m], m + 1>>] ELSE g[i]]
  <2>3. \A i \in 0..(m + 1) : i # m + 1 => i \in 0..m /\ (i # 0 => i - 1 \in 0..m)
    OBVIOUS
  <2>4. h \in [0..(m + 1) -> S]
    BY <2>2, <2>3
  <2>5. \A i \in 0..m : h[i] = g[i]
    OBVIOUS
  <2>6. \A i \in 0..(m + 1) : h[i] = IF i = 0 THEN c ELSE step[<<h[i - 1], i>>]
    <3>. SUFFICES ASSUME NEW i \in 0..(m + 1) PROVE h[i] = IF i = 0 THEN c ELSE step[<<h[i - 1], i>>]
      OBVIOUS
    <3>1. CASE i = m + 1
      <4>1. h[i] = step[<<g[m], m + 1>>] /\ i - 1 = m /\ h[i - 1] = g[m] /\ i # 0
        BY <2>5, <3>1
      <4>. QED
        BY <3>1, <4>1
    <3>2. CASE i # m + 1
      <4>1. i \in 0..m /\ (i # 0 => i - 1 \in 0..m)
        BY <2>3, <3>2
      <4>2. h[i] = g[i] /\ (i # 0 => h[i - 1] = g[i - 1])
        BY <2>5, <4>1
      <4>3. g[i] = IF i = 0 THEN c ELSE step[<<g[i - 1], i>>]
        BY <2>1, <4>1 DEF Iterates
      <4>. QED
        BY <4>2, <4>3
    <3>. QED
      BY <3>1, <3>2
  <2>. HIDE DEF h
  <2>7. Iterates(h, c, step, m + 1)
    BY <2>4, <2>6 DEF Iterates
  <2>. QED
    BY <2>4, <2>7
<1>. HIDE DEF T
<1>3. 0..n \subseteq T
  BY <1>1, <1>2, InductionUpTo
<1>. QED
  BY <1>3 DEF T

(***************************************************************************)
(* A number is its limbs, and comparing the limbs from the top compares it.*)
(***************************************************************************)

Limbs == 0..(LimbBase - 1)
Numbers == Seq(Limbs) \ {<<>>}

LEMMA BaseIs ==
  /\ LimbBase \in Nat \ {0, 1}
  /\ LimbBase \div 2 \in Nat \ {0}
  /\ LimbBase = 2 * (LimbBase \div 2)
<1>1. LimbBits - 1 \in Nat /\ (LimbBits - 1) + 1 = LimbBits
  BY BignumAssumption
<1> DEFINE h == TwoTo(LimbBits - 1)
<1>2. h \in Nat \ {0}
  BY <1>1, PowerPositive
<1>3. LimbBase = 2 * h
  BY <1>1, PowerStep DEF LimbBase
<1>. HIDE DEF h
<1>4. (h * 2 + 0) \div 2 = h
  BY <1>2, DivisionIs
<1>. QED
  BY <1>2, <1>3, <1>4

LEMMA NumberIs ==
  ASSUME NEW a \in Seq(Limbs)
  PROVE  /\ Len(a) \in Nat /\ IsDigits(a, LimbBase, Len(a)) /\ BnValue(a) = Positional(a, LimbBase, Len(a))
         /\ BnValue(a) \in Nat /\ BnValue(a) < Raised(LimbBase, Len(a))
<1>1. Len(a) \in Nat /\ Len(a) \in 0..Len(a) /\ IsDigits(a, LimbBase, Len(a))
  <2>1. \A i \in 1..Len(a) : a[i] \in Limbs
    OBVIOUS
  <2>2. Len(a) \in Nat
    OBVIOUS
  <2>. QED
    BY <2>1, <2>2 DEF IsDigits, Limbs
<1>. QED
  BY <1>1, BaseIs, PosBound DEF BnValue

(* Limbs a number has not are zero.                                        *)
LEMMA LimbIs ==
  ASSUME NEW a \in Seq(Limbs), NEW i \in Nat
  PROVE  LimbAt(a, i) \in Limbs /\ (i > Len(a) => LimbAt(a, i) = 0) /\ (i \in 1..Len(a) => LimbAt(a, i) = a[i])
  BY BaseIs DEF LimbAt, Limbs

IsWidened(e, a, n) == \A i \in 1..n : e[i] = LimbAt(a, i)

LEMMA WidenedIs ==
  ASSUME NEW a \in Seq(Limbs), NEW n \in Nat, Len(a) <= n, NEW e, IsWidened(e, a, n)
  PROVE  IsDigits(e, LimbBase, n) /\ Positional(e, LimbBase, n) = BnValue(a)
<1>1. \A i \in 1..n : e[i] \in Limbs /\ (i > Len(a) => e[i] = 0) /\ (i \in 1..Len(a) => e[i] = a[i])
  BY LimbIs DEF IsWidened
<1>2. IsDigits(e, LimbBase, n)
  BY <1>1 DEF IsDigits, Limbs
<1>3. Len(a) \in 0..n /\ Len(a) \in Nat
  OBVIOUS
<1>4. Positional(e, LimbBase, n) = Positional(e, LimbBase, Len(a))
  <2>1. IsDigits(e, LimbBase, Len(a)) /\ \A i \in (Len(a) + 1)..n : e[i] = 0
    BY <1>1, <1>2, <1>3 DEF IsDigits
  <2>. QED
    BY <1>3, <2>1, BaseIs, PosZeros
<1>5. SameTerms(e, a, Len(a))
  BY <1>1, <1>3 DEF SameTerms
<1>. QED
  BY <1>2, <1>3, <1>4, <1>5, PosSame, NumberIs

(* hlm_bn_normalize drops zeros only, and keeps one limb.                  *)
LEMMA NormalizeKeeps ==
  ASSUME NEW a \in Numbers
  PROVE  BnNormalize(a) \in Numbers /\ BnValue(BnNormalize(a)) = BnValue(a) /\ Len(BnNormalize(a)) <= Len(a)
<1> DEFINE S == {1} \cup {i \in DOMAIN a : a[i] # 0}
           n == Max(S)
           w == SubSeq(a, 1, n)
<1>1. a \in Seq(Limbs) /\ Len(a) \in Nat \ {0} /\ DOMAIN a = 1..Len(a)
  BY DEF Numbers
<1>2. S \in SUBSET (0..Len(a)) /\ S # {}
  BY <1>1
<1>3. n \in S /\ \A y \in S : n >= y
  <2>. HIDE DEF S
  <2>. QED
    BY <1>1, <1>2, MaxIs
<1>4. n \in 1..Len(a)
  BY <1>1, <1>3
<1>. HIDE DEF n
<1>5. w \in Seq(Limbs) /\ Len(w) = n /\ \A i \in 1..n : w[i] = a[i]
  BY <1>1, <1>4
<1>6. \A i \in (n + 1)..Len(a) : a[i] = 0
  BY <1>1, <1>3, <1>4
<1>7. Positional(a, LimbBase, Len(a)) = Positional(a, LimbBase, n)
  <2>1. n \in 0..Len(a) /\ IsDigits(a, LimbBase, n)
    <3>1. IsDigits(a, LimbBase, Len(a))
      BY <1>1, NumberIs
    <3>. QED
      BY <1>1, <1>4, <3>1 DEF IsDigits
  <2>. QED
    BY <1>1, <1>6, <2>1, BaseIs, PosZeros
<1>8. Positional(w, LimbBase, n) = Positional(a, LimbBase, n)
  <2>1. SameTerms(w, a, n) /\ n \in Nat
    BY <1>4, <1>5 DEF SameTerms
  <2>. QED
    BY <2>1, PosSame
<1>9. BnNormalize(a) = w
  BY DEF BnNormalize, n
<1>10. w \in Numbers
  BY <1>4, <1>5 DEF Numbers
<1>. HIDE DEF w
<1>11. BnValue(w) = Positional(w, LimbBase, n) /\ BnValue(a) = Positional(a, LimbBase, Len(a))
  BY <1>1, <1>5, NumberIs
<1>. QED
  BY <1>1, <1>4, <1>5, <1>7, <1>8, <1>9, <1>10, <1>11

LEMMA MaxOfTwo ==
  ASSUME NEW x \in Nat, NEW y \in Nat
  PROVE  Max({x, y}) \in {x, y} /\ Max({x, y}) >= x /\ Max({x, y}) >= y
<1> DEFINE n == x + y
           S == {x, y}
<1>1. n \in Nat /\ S \in SUBSET (0..n) /\ S # {}
  OBVIOUS
<1>. HIDE DEF n, S
<1>2. Max(S) \in S /\ \A z \in S : Max(S) >= z
  BY <1>1, MaxIs
<1>. QED
  BY <1>2 DEF S

LEMMA IndicesAre ==
  ASSUME NEW a \in Seq(Limbs), NEW b \in Seq(Limbs)
  PROVE  \E n \in Nat : Indices(a, b) = 1..n /\ n >= Len(a) /\ n >= Len(b) /\ (n = Len(a) \/ n = Len(b))
<1>1. Len(a) \in Nat /\ Len(b) \in Nat
  OBVIOUS
<1>. QED
  BY <1>1, MaxOfTwo DEF Indices

Comparison(x, y) == IF x > y THEN 1 ELSE IF x = y THEN 0 ELSE -1

(* hlm_bn_cmp compares numbers, whatever the number of their limbs.        *)
LEMMA CompareIs ==
  ASSUME NEW a \in Seq(Limbs), NEW b \in Seq(Limbs)
  PROVE  BnCmp(a, b) = Comparison(BnValue(a), BnValue(b))
<1>1. PICK n \in Nat : Indices(a, b) = 1..n /\ n >= Len(a) /\ n >= Len(b)
  BY IndicesAre
<1> DEFINE e == [i \in 1..n |-> LimbAt(a, i)]
           f == [i \in 1..n |-> LimbAt(b, i)]
           D == {i \in 1..n : LimbAt(a, i) # LimbAt(b, i)}
           top == Max(D)
<1>2. IsWidened(e, a, n) /\ IsWidened(f, b, n)
  BY DEF IsWidened
<1>3. D = {i \in 1..n : e[i] # f[i]} /\ \A i \in 1..n : e[i] = LimbAt(a, i) /\ f[i] = LimbAt(b, i)
  OBVIOUS
<1>4. BnCmp(a, b) = CASE D = {} -> 0
                      [] D # {} /\ LimbAt(a, top) > LimbAt(b, top) -> 1
                      [] OTHER -> -1
  BY <1>1 DEF BnCmp
<1>. HIDE DEF e, f, D
<1>5. /\ IsDigits(e, LimbBase, n) /\ Positional(e, LimbBase, n) = BnValue(a)
      /\ IsDigits(f, LimbBase, n) /\ Positional(f, LimbBase, n) = BnValue(b)
  BY <1>1, <1>2, WidenedIs
<1>6. BnValue(a) \in Nat /\ BnValue(b) \in Nat
  BY NumberIs
<1>7. CASE D = {}
  <2>1. SameTerms(e, f, n)
    BY <1>3, <1>7 DEF SameTerms
  <2>2. BnValue(a) = BnValue(b)
    BY <1>5, <2>1, PosSame
  <2>. QED
    BY <1>4, <1>6, <1>7, <2>2 DEF Comparison
<1>8. CASE D # {}
  <2>1. top \in D /\ \A y \in D : top >= y
    <3>1. D \in SUBSET (0..n)
      BY <1>3
    <3>. QED
      BY <1>8, <3>1, MaxIs
  <2>. HIDE DEF top
  <2>2. top \in 1..n /\ e[top] # f[top] /\ \A i \in (top + 1)..n : e[i] = f[i]
    BY <1>3, <2>1
  <2>3. e[top] \in Nat /\ f[top] \in Nat
    BY <1>5, <2>2 DEF IsDigits
  <2>4. e[top] = LimbAt(a, top) /\ f[top] = LimbAt(b, top)
    BY <1>3, <2>2
  <2>5. CASE e[top] > f[top]
    <3>1. Positional(e, LimbBase, n) > Positional(f, LimbBase, n)
      BY <1>5, <2>2, <2>5, BaseIs, PosGreater
    <3>2. BnCmp(a, b) = 1
      BY <1>4, <1>8, <2>4, <2>5
    <3>. QED
      BY <1>5, <1>6, <3>1, <3>2 DEF Comparison
  <2>6. CASE ~ (e[top] > f[top])
    <3>1. f[top] > e[top] /\ \A i \in (top + 1)..n : f[i] = e[i]
      BY <2>2, <2>3, <2>6
    <3>2. Positional(f, LimbBase, n) > Positional(e, LimbBase, n)
      BY <1>5, <2>2, <3>1, BaseIs, PosGreater
    <3>3. BnCmp(a, b) = -1
      BY <1>4, <1>8, <2>4, <2>6
    <3>. QED
      BY <1>5, <1>6, <3>2, <3>3 DEF Comparison
  <2>. QED
    BY <2>5, <2>6
<1>. QED
  BY <1>7, <1>8

(***************************************************************************)
(* hlm_bn_add: the carry is a bit, and what has been added up to a limb is *)
(* the number below it plus the carry above it.                            *)
(***************************************************************************)

LEMMA WideIs ==
  ASSUME NEW t \in Nat, t < LimbBase * LimbBase
  PROVE  /\ Wide(t) = t /\ t \div LimbBase \in Limbs /\ t % LimbBase \in Limbs
         /\ t = (t % LimbBase) + (t \div LimbBase) * LimbBase
<1> DEFINE B == LimbBase
           q == t \div B
           s == t % B
<1>1. B \in Nat \ {0}
  BY BaseIs
<1>2. t = q * B + s /\ q \in Nat /\ s \in Nat /\ s < B
  BY <1>1, Division
<1>3. Wide(t) = t
  <2> DEFINE m == B * B
  <2>1. m \in Nat \ {0} /\ t < m
    BY <1>1
  <2>. HIDE DEF m
  <2>2. t % m = t
    BY <2>1
  <2>. QED
    BY <2>2 DEF Wide, m
<1>. HIDE DEF q, s
<1>4. q < B
  <2>0. t < B * B
    OBVIOUS
  <2>. HIDE DEF B
  <2>1. q >= B => q * B >= B * B
    <3>1. (q - B) * B = q * B - B * B
      BY <1>1, <1>2
    <3>2. q - B \in Nat => (q - B) * B \in Nat
      BY <1>1, <1>2
    <3>3. q * B \in Nat /\ B * B \in Nat
      BY <1>1, <1>2
    <3>. QED
      BY <1>1, <1>2, <3>1, <3>2, <3>3
  <2>2. q * B \in Nat /\ B * B \in Nat
    BY <1>1, <1>2
  <2>. QED
    BY <1>1, <1>2, <2>0, <2>1, <2>2
<1>. QED
  BY <1>1, <1>2, <1>3, <1>4 DEF Limbs, q, s

LEMMA CarryUp ==
  ASSUME NEW p \in Int, NEW s \in Int, NEW r \in Int, NEW c \in Int, NEW b \in Int, NEW t \in Int, t = s + c * b
  PROVE  (p + s * r) + c * (b * r) = p + t * r
  OBVIOUS

LEMMA AddsUp ==
  ASSUME NEW p \in Int, NEW pe \in Int, NEW pf \in Int, NEW r \in Int, NEW x \in Int, NEW y \in Int, NEW c \in Int,
         p + c * r = pe + pf
  PROVE  p + (x + y + c) * r = (pe + x * r) + (pf + y * r)
  OBVIOUS

LEMMA SumOfLimbs ==
  ASSUME NEW x \in Limbs, NEW y \in Limbs, NEW c \in 0..1
  PROVE  /\ Wide(x + y + c) \div LimbBase \in 0..1 /\ (x + y + c) % LimbBase \in Limbs
         /\ x + y + c = ((x + y + c) % LimbBase) + (Wide(x + y + c) \div LimbBase) * LimbBase
<1> DEFINE t == x + y + c
           B == LimbBase
<1>1. B \in Nat /\ B >= 2 /\ t \in Nat /\ t < 2 * B
  BY BaseIs DEF Limbs
<1>. HIDE DEF t
<1>2. t < LimbBase * LimbBase
  <2>. HIDE DEF B
  <2>1. (B - 2) * B \in Nat /\ (B - 2) * B = B * B - 2 * B /\ B * B \in Nat
    BY <1>1
  <2>2. t < B * B
    BY <1>1, <2>1
  <2>. QED
    BY <2>2 DEF B
<1>3. Wide(t) = t /\ t \div B \in Nat /\ t % B \in Limbs /\ t = (t % B) + (t \div B) * B
  BY <1>1, <1>2, WideIs DEF Limbs
<1>4. t \div B < 2
  <2> DEFINE q == t \div B
             s == t % B
  <2>1. s \in Nat /\ q \in Nat /\ t = s + q * B
    BY <1>3 DEF Limbs
  <2>. HIDE DEF q, s, B
  <2>2. q >= 2 => (q - 2) * B \in Nat
    BY <1>1, <2>1
  <2>3. (q - 2) * B = q * B - 2 * B /\ q * B \in Nat
    BY <1>1, <2>1
  <2>4. q < 2
    BY <1>1, <2>1, <2>2, <2>3
  <2>. QED
    BY <2>4 DEF q
<1>. QED
  BY <1>3, <1>4 DEF t

IsAddCarry(g, a, b, n) ==
  g = [i \in 0..n |-> IF i = 0 THEN 0 ELSE Wide(LimbAt(a, i) + LimbAt(b, i) + g[i - 1]) \div LimbBase]

LEMMA AddCarryExists ==
  ASSUME NEW a \in Seq(Limbs), NEW b \in Seq(Limbs), NEW n \in Nat
  PROVE  \E g : IsAddCarry(g, a, b, n)
<1> DEFINE step == [p \in (0..1) \X (1..n) |-> Wide(LimbAt(a, p[2]) + LimbAt(b, p[2]) + p[1]) \div LimbBase]
<1>1. step \in [(0..1) \X (1..n) -> 0..1]
  <2>. SUFFICES ASSUME NEW p \in (0..1) \X (1..n)
                PROVE  Wide(LimbAt(a, p[2]) + LimbAt(b, p[2]) + p[1]) \div LimbBase \in 0..1
    OBVIOUS
  <2>1. p[1] \in 0..1 /\ p[2] \in Nat
    OBVIOUS
  <2>2. LimbAt(a, p[2]) \in Limbs /\ LimbAt(b, p[2]) \in Limbs
    BY <2>1, LimbIs
  <2>. QED
    BY <2>1, <2>2, SumOfLimbs
<1>2. \A c \in 0..1, i \in 1..n : step[<<c, i>>] = Wide(LimbAt(a, i) + LimbAt(b, i) + c) \div LimbBase
  OBVIOUS
<1>. HIDE DEF step
<1>3. PICK g \in [0..n -> 0..1] : Iterates(g, 0, step, n)
  <2>1. 0 \in 0..1
    OBVIOUS
  <2>. QED
    BY <1>1, <2>1, IterationExists
<1>4. g = [i \in 0..n |-> IF i = 0 THEN 0 ELSE step[<<g[i - 1], i>>]]
  BY <1>3 DEF Iterates
<1>5. \A i \in 0..n : i # 0 => g[i - 1] \in 0..1 /\ i \in 1..n
  BY <1>3
<1> DEFINE CarryAt(i) == IF i = 0 THEN 0 ELSE Wide(LimbAt(a, i) + LimbAt(b, i) + g[i - 1]) \div LimbBase
<1>6. \A i \in 0..n : g[i] = CarryAt(i)
  BY <1>2, <1>4, <1>5
<1>7. g = [i \in 0..n |-> CarryAt(i)]
  <2>. HIDE DEF CarryAt
  <2>. QED
    BY <1>3, <1>6
<1>. QED
  BY <1>7 DEF IsAddCarry

AddedUp(carry, sum, e, f, i) ==
  /\ carry[i] \in 0..1
  /\ Positional(sum, LimbBase, i) + carry[i] * Raised(LimbBase, i) = Positional(e, LimbBase, i) + Positional(f, LimbBase, i)

(* The carry chain, limb by limb.                                          *)
LEMMA CarriesAdd ==
  ASSUME NEW a \in Seq(Limbs), NEW b \in Seq(Limbs), NEW n \in Nat, NEW e, NEW f, IsWidened(e, a, n), IsWidened(f, b, n),
         NEW carry, IsAddCarry(carry, a, b, n),
         NEW sum, sum = [i \in 1..n |-> (LimbAt(a, i) + LimbAt(b, i) + carry[i - 1]) % LimbBase]
  PROVE  IsDigits(sum, LimbBase, n) /\ AddedUp(carry, sum, e, f, n)
<1> DEFINE B == LimbBase
           S == {m \in 0..n : IsDigits(sum, B, m) /\ AddedUp(carry, sum, e, f, m)}
<1>0. \A i \in 1..n : /\ e[i] = LimbAt(a, i) /\ f[i] = LimbAt(b, i) /\ e[i] \in Limbs /\ f[i] \in Limbs
                       /\ i \in Nat
  BY LimbIs DEF IsWidened
<1>1. 0 \in S
  <2>1. carry[0] = 0
    BY DEF IsAddCarry
  <2>2. Positional(sum, B, 0) = 0 /\ Positional(e, B, 0) = 0 /\ Positional(f, B, 0) = 0 /\ Raised(B, 0) = 1
    BY PosStep, RaisedStep
  <2>. QED
    BY <2>1, <2>2 DEF AddedUp, IsDigits
<1>2. \A i \in 0..(n - 1) : i \in S => i + 1 \in S
  <2>. SUFFICES ASSUME NEW i \in 0..(n - 1), i \in S PROVE i + 1 \in S
    OBVIOUS
  <2> DEFINE r == Raised(B, i)
             x == e[i + 1]
             y == f[i + 1]
             c == carry[i]
             s == (x + y + c) % B
             d == Wide(x + y + c) \div B
             p == Positional(sum, B, i)
             pe == Positional(e, B, i)
             pf == Positional(f, B, i)
  <2>1. i \in Nat /\ i + 1 \in 1..n /\ (i + 1) - 1 = i /\ i + 1 \in 0..n /\ i + 1 # 0 /\ i \in 0..n
    OBVIOUS
  <2>2. x \in Limbs /\ y \in Limbs /\ c \in 0..1 /\ p + c * r = pe + pf /\ IsDigits(sum, B, i)
    BY <1>0, <2>1 DEF AddedUp
  <2>3. d \in 0..1 /\ s \in Limbs /\ x + y + c = s + d * B
    BY <2>2, SumOfLimbs
  <2>4. carry[i + 1] = d
    <3>1. carry[i + 1] = Wide(LimbAt(a, i + 1) + LimbAt(b, i + 1) + carry[i]) \div LimbBase
      BY <2>1 DEF IsAddCarry
    <3>. QED
      BY <1>0, <2>1, <3>1
  <2>5. sum[i + 1] = s
    <3>1. sum[i + 1] = (LimbAt(a, i + 1) + LimbAt(b, i + 1) + carry[i]) % LimbBase
      BY <2>1
    <3>. QED
      BY <1>0, <2>1, <3>1
  <2>6. /\ Positional(sum, B, i + 1) = p + sum[i + 1] * r
        /\ Positional(e, B, i + 1) = pe + x * r
        /\ Positional(f, B, i + 1) = pf + y * r
    BY <2>1, PosStep
  <2>7. Raised(B, i + 1) = B * r
    BY <2>1, RaisedStep
  <2>8. r \in Nat /\ B \in Nat
    BY <2>1, BaseIs, RaisedPositive
  <2>9. p \in Nat /\ pe \in Nat /\ pf \in Nat
    <3>1. IsDigits(e, B, i) /\ IsDigits(f, B, i) /\ i \in 0..i
      BY <1>0, <2>1 DEF IsDigits, Limbs
    <3>. QED
      BY <2>1, <2>2, <3>1, BaseIs, PosBound
  <2>10. IsDigits(sum, B, i + 1)
    <3>1. \A k \in 1..(i + 1) : k \in 1..i \/ k = i + 1
      BY <2>1
    <3>. QED
      BY <2>2, <2>3, <2>5, <3>1 DEF IsDigits, Limbs
  <2>. HIDE DEF r, x, y, c, s, d, p, pe, pf, B
  <2>11. x \in Int /\ y \in Int /\ s \in Int /\ c \in Int /\ d \in Int
    BY <2>2, <2>3 DEF Limbs
  <2>12. (p + s * r) + d * (B * r) = p + (x + y + c) * r
    BY <2>3, <2>8, <2>9, <2>11, CarryUp
  <2>13. p + (x + y + c) * r = (pe + x * r) + (pf + y * r)
    <3>1. p + c * r = pe + pf
      BY <2>2
    <3>. QED
      BY <2>8, <2>9, <2>11, <3>1, AddsUp
  <2>. QED
    BY <2>1, <2>3, <2>4, <2>5, <2>6, <2>7, <2>10, <2>12, <2>13 DEF AddedUp, B
<1>. HIDE DEF S
<1>3. 0..n \subseteq S
  BY <1>1, <1>2, InductionUpTo
<1>. QED
  BY <1>3 DEF S

(* The sum, or no room, and then the sum really needs more limbs.          *)
LEMMA AddIs ==
  ASSUME NEW a \in Numbers, NEW b \in Numbers
  PROVE  \/ /\ BnAdd(a, b) = NoRoom
            /\ BnValue(a) + BnValue(b) >= Raised(LimbBase, MaxLimbs)
         \/ /\ BnAdd(a, b) \in Numbers
            /\ BnValue(BnAdd(a, b)) = BnValue(a) + BnValue(b)
            /\ Len(a) <= MaxLimbs /\ Len(b) <= MaxLimbs => BnValue(a) + BnValue(b) < Raised(LimbBase, MaxLimbs)
<1> DEFINE B == LimbBase
           carry[i \in {0} \cup Indices(a, b)] ==
             IF i = 0 THEN 0 ELSE Wide(LimbAt(a, i) + LimbAt(b, i) + carry[i - 1]) \div LimbBase
           sum == [i \in Indices(a, b) |-> (LimbAt(a, i) + LimbAt(b, i) + carry[i - 1]) % LimbBase]
           out == carry[Len(sum)]
           V == BnValue(a) + BnValue(b)
<1>0. a \in Seq(Limbs) /\ b \in Seq(Limbs) /\ Len(a) \in Nat \ {0} /\ Len(b) \in Nat \ {0}
  BY DEF Numbers
<1>1. PICK n \in Nat : Indices(a, b) = 1..n /\ n >= Len(a) /\ n >= Len(b) /\ (n = Len(a) \/ n = Len(b))
  BY <1>0, IndicesAre
<1>2. BnAdd(a, b) = CASE out = 0 -> BnNormalize(sum)
                      [] out # 0 /\ Len(sum) >= MaxLimbs -> NoRoom
                      [] OTHER -> BnNormalize(Append(sum, out))
  BY DEF BnAdd
<1>3. IsAddCarry(carry, a, b, n)
  <2>1. PICK g : IsAddCarry(g, a, b, n)
    BY <1>0, AddCarryExists
  <2>2. {0} \cup Indices(a, b) = 0..n
    BY <1>1
  <2>3. \E h : h = [i \in {0} \cup Indices(a, b) |->
                     IF i = 0 THEN 0 ELSE Wide(LimbAt(a, i) + LimbAt(b, i) + h[i - 1]) \div LimbBase]
    BY <2>1, <2>2 DEF IsAddCarry
  <2>. QED
    BY <2>2, <2>3 DEF IsAddCarry
<1>. HIDE DEF carry
<1>4. sum = [i \in 1..n |-> (LimbAt(a, i) + LimbAt(b, i) + carry[i - 1]) % LimbBase]
  BY <1>1
<1>. HIDE DEF sum
<1>5. IsDigits(sum, B, n) /\ \E e, f : IsWidened(e, a, n) /\ IsWidened(f, b, n) /\ AddedUp(carry, sum, e, f, n)
  <2> DEFINE e == [i \in 1..n |-> LimbAt(a, i)]
             f == [i \in 1..n |-> LimbAt(b, i)]
  <2>1. IsWidened(e, a, n) /\ IsWidened(f, b, n)
    BY DEF IsWidened
  <2>. HIDE DEF e, f
  <2>. QED
    BY <1>0, <1>3, <1>4, <2>1, CarriesAdd
<1>6. sum \in Seq(Limbs) /\ Len(sum) = n
  <2>1. \A i \in 1..n : sum[i] \in Limbs
    BY <1>5 DEF IsDigits, Limbs
  <2>2. sum \in [1..n -> Limbs]
    BY <1>4, <2>1
  <2>. QED
    BY <2>2
<1>7. out = carry[n]
  BY <1>6
<1>. HIDE DEF out
<1>8. out \in 0..1 /\ BnValue(sum) + out * Raised(B, n) = V
  <2>1. PICK e, f : IsWidened(e, a, n) /\ IsWidened(f, b, n) /\ AddedUp(carry, sum, e, f, n)
    BY <1>5
  <2>2. Positional(e, B, n) = BnValue(a) /\ Positional(f, B, n) = BnValue(b)
    BY <1>0, <1>1, <2>1, WidenedIs
  <2>3. BnValue(sum) = Positional(sum, B, n)
    BY <1>6, NumberIs
  <2>. QED
    BY <1>7, <2>1, <2>2, <2>3 DEF AddedUp
<1>9. BnValue(sum) \in Nat /\ BnValue(sum) < Raised(B, n) /\ Raised(B, n) \in Nat
  BY <1>6, NumberIs, BaseIs, RaisedPositive
<1>10. MaxLimbs \in Nat
  BY BignumAssumption
<1>11. CASE out = 0
  <2>1. BnAdd(a, b) = BnNormalize(sum)
    BY <1>2, <1>11
  <2>2. sum \in Numbers
    BY <1>0, <1>1, <1>6 DEF Numbers
  <2>3. BnValue(sum) = V
    BY <1>8, <1>9, <1>11
  <2>4. n <= MaxLimbs => V < Raised(B, MaxLimbs)
    <3>1. n <= MaxLimbs => Raised(B, n) <= Raised(B, MaxLimbs)
      BY <1>10, BaseIs, RaisedGrows
    <3>2. Raised(B, MaxLimbs) \in Nat
      BY <1>10, BaseIs, RaisedPositive
    <3>. QED
      BY <1>9, <2>3, <3>1, <3>2
  <2>. QED
    BY <1>1, <2>1, <2>2, <2>3, <2>4, NormalizeKeeps
<1>12. CASE out = 1
  <2>1. BnValue(sum) + Raised(B, n) = V
    BY <1>8, <1>9, <1>12
  <2>2. CASE n >= MaxLimbs
    <3>1. BnAdd(a, b) = NoRoom
      BY <1>2, <1>6, <1>12, <2>2
    <3>2. Raised(B, MaxLimbs) <= Raised(B, n)
      BY <1>10, <2>2, BaseIs, RaisedGrows
    <3>3. Raised(B, MaxLimbs) \in Nat
      BY <1>10, BaseIs, RaisedPositive
    <3>. QED
      BY <1>9, <2>1, <3>1, <3>2, <3>3
  <2>3. CASE ~ (n >= MaxLimbs)
    <3> DEFINE w == Append(sum, 1)
    <3>1. BnAdd(a, b) = BnNormalize(w)
      BY <1>2, <1>6, <1>12, <2>3
    <3>2. w \in Seq(Limbs) /\ Len(w) = n + 1 /\ w[n + 1] = 1 /\ \A i \in 1..n : w[i] = sum[i]
      <4>1. 1 \in Limbs
        BY BaseIs DEF Limbs
      <4>. QED
        BY <1>6, <4>1
    <3>3. w \in Numbers
      BY <3>2 DEF Numbers
    <3>. HIDE DEF w
    <3>4. BnValue(w) = V
      <4>1. BnValue(w) = Positional(w, B, n + 1)
        BY <3>2, NumberIs
      <4>2. Positional(w, B, n + 1) = Positional(w, B, n) + w[n + 1] * Raised(B, n)
        BY PosStep
      <4>3. SameTerms(w, sum, n)
        BY <3>2 DEF SameTerms
      <4>4. Positional(w, B, n) = BnValue(sum)
        BY <1>6, <4>3, PosSame, NumberIs
      <4>5. w[n + 1] * Raised(B, n) = Raised(B, n)
        BY <1>9, <3>2
      <4>. QED
        BY <2>1, <4>1, <4>2, <4>4, <4>5
    <3>5. V < Raised(B, MaxLimbs)
      <4>1. V < Raised(B, n + 1) /\ V \in Nat
        BY <3>2, <3>4, NumberIs
      <4>2. n + 1 \in Nat /\ n + 1 <= MaxLimbs
        BY <1>10, <2>3
      <4>3. Raised(B, n + 1) <= Raised(B, MaxLimbs)
        BY <1>10, <4>2, BaseIs, RaisedGrows
      <4>4. Raised(B, MaxLimbs) \in Nat /\ Raised(B, n + 1) \in Nat
        BY <1>10, <4>2, BaseIs, RaisedPositive
      <4>. QED
        BY <4>1, <4>3, <4>4
    <3>. QED
      BY <3>1, <3>3, <3>4, <3>5, NormalizeKeeps
  <2>. QED
    BY <2>2, <2>3
<1>. QED
  BY <1>8, <1>11, <1>12

(***************************************************************************)
(* hlm_bn_sub: the same with a borrow; of a number not greater than the    *)
(* first nothing is borrowed from beyond the last limb.                    *)
(***************************************************************************)

LEMMA DifferenceOfLimbs ==
  ASSUME NEW x \in Limbs, NEW y \in Limbs, NEW c \in 0..1
  PROVE  LET t == x - y - c
             q == (Wide(t) \div LimbBase) % 2
             s == t % LimbBase
         IN q \in 0..1 /\ s \in Limbs /\ t = s - q * LimbBase
<1> DEFINE t == x - y - c
           B == LimbBase
<1>1. B \in Nat /\ B >= 2 /\ t \in Int /\ t < B /\ -B <= t
  BY BaseIs DEF Limbs
<1>. HIDE DEF t
<1>2. CASE t >= 0
  <2>1. t < LimbBase * LimbBase
    <3>. HIDE DEF B
    <3>1. (B - 1) * B \in Nat /\ (B - 1) * B = B * B - B /\ B * B \in Nat
      BY <1>1
    <3>2. t < B * B
      BY <1>1, <3>1
    <3>. QED
      BY <3>2 DEF B
  <2>2. Wide(t) = t
    BY <1>1, <1>2, <2>1, WideIs
  <2>3. t \div B = 0 /\ t % B = t
    BY <1>1, <1>2
  <2>4. 0 % 2 = 0 /\ 0 * B = 0
    BY <1>1
  <2>. QED
    BY <1>1, <1>2, <2>2, <2>3, <2>4 DEF Limbs, t
<1>3. CASE t < 0
  <2> DEFINE s == t + B
             h == B \div 2
  <2>1. s \in Int /\ 0 <= s /\ s < B
    BY <1>1, <1>3
  <2>2. t % B = s
    <3>1. (-1) * B + s = t /\ B \in Nat \ {0} /\ -1 \in Int
      BY <1>1
    <3>. HIDE DEF s, B
    <3>2. ((-1) * B + s) % B = s
      BY <2>1, <3>1, DivisionIs
    <3>. QED
      BY <3>1, <3>2
  <2>3. Wide(t) \div B = B - 1
    <3> DEFINE m == B * B
               u == (B - 1) * B + s
    <3>1. m \in Nat \ {0} /\ u = m + t /\ u < m /\ 0 <= u /\ u \in Int
      <4>. HIDE DEF B
      <4>1. (B - 1) * B = m - B /\ (B - 1) * B \in Nat /\ m \in Nat
        BY <1>1
      <4>. QED
        BY <1>1, <1>3, <2>1, <4>1
    <3>2. Wide(t) = t % m
      BY DEF Wide
    <3>3. t % m = u
      <4>1. (-1) * m + u = t /\ -1 \in Int
        BY <1>1, <3>1
      <4>. HIDE DEF m, u
      <4>2. ((-1) * m + u) % m = u
        BY <3>1, <4>1, DivisionIs
      <4>. QED
        BY <4>1, <4>2
    <3>4. u \div B = B - 1
      <4> DEFINE k == B - 1
      <4>1. k \in Int /\ B \in Nat \ {0}
        BY <1>1
      <4>. HIDE DEF k, B, s
      <4>2. (k * B + s) \div B = k
        BY <2>1, <4>1, DivisionIs
      <4>. QED
        BY <4>2 DEF k
    <3>. QED
      BY <3>2, <3>3, <3>4
  <2>4. (B - 1) % 2 = 1
    <3>1. B = 2 * h /\ h \in Nat \ {0}
      BY BaseIs
    <3>. HIDE DEF h, B
    <3>2. ((h - 1) * 2 + 1) % 2 = 1
      BY <3>1, DivisionIs
    <3>3. (h - 1) * 2 + 1 = B - 1
      BY <3>1
    <3>. QED
      BY <3>2, <3>3
  <2>5. t = s - 1 * B
    BY <1>1
  <2>. HIDE DEF s, h
  <2>6. (Wide(t) \div LimbBase) % 2 = 1
    BY <2>3, <2>4
  <2>7. t % LimbBase \in Limbs /\ t = (t % LimbBase) - 1 * LimbBase
    BY <1>1, <2>1, <2>2, <2>5 DEF Limbs, s
  <2>. QED
    BY <2>6, <2>7 DEF t
<1>. QED
  BY <1>1, <1>2, <1>3

IsBorrow(g, a, b) ==
  g = [i \in 0..Len(a) |-> IF i = 0 THEN 0 ELSE (Wide(a[i] - LimbAt(b, i) - g[i - 1]) \div LimbBase) % 2]

LEMMA BorrowExists ==
  ASSUME NEW a \in Seq(Limbs), NEW b \in Seq(Limbs)
  PROVE  \E g : IsBorrow(g, a, b)
<1> DEFINE n == Len(a)
           step == [p \in (0..1) \X (1..n) |-> (Wide(a[p[2]] - LimbAt(b, p[2]) - p[1]) \div LimbBase) % 2]
<1>0. n \in Nat /\ \A i \in 1..n : a[i] \in Limbs
  OBVIOUS
<1>1. step \in [(0..1) \X (1..n) -> 0..1]
  <2>. SUFFICES ASSUME NEW p \in (0..1) \X (1..n)
                PROVE  (Wide(a[p[2]] - LimbAt(b, p[2]) - p[1]) \div LimbBase) % 2 \in 0..1
    OBVIOUS
  <2>1. p[1] \in 0..1 /\ p[2] \in 1..n /\ p[2] \in Nat
    OBVIOUS
  <2>2. a[p[2]] \in Limbs /\ LimbAt(b, p[2]) \in Limbs
    BY <1>0, <2>1, LimbIs
  <2>. QED
    BY <2>1, <2>2, DifferenceOfLimbs
<1>2. \A c \in 0..1, i \in 1..n : step[<<c, i>>] = (Wide(a[i] - LimbAt(b, i) - c) \div LimbBase) % 2
  OBVIOUS
<1>. HIDE DEF step
<1>3. PICK g \in [0..n -> 0..1] : Iterates(g, 0, step, n)
  <2>1. 0 \in 0..1
    OBVIOUS
  <2>. QED
    BY <1>0, <1>1, <2>1, IterationExists
<1>4. g = [i \in 0..n |-> IF i = 0 THEN 0 ELSE step[<<g[i - 1], i>>]]
  BY <1>3 DEF Iterates
<1>5. \A i \in 0..n : i # 0 => g[i - 1] \in 0..1 /\ i \in 1..n
  BY <1>0, <1>3
<1> DEFINE Borrowed(i) == IF i = 0 THEN 0 ELSE (Wide(a[i] - LimbAt(b, i) - g[i - 1]) \div LimbBase) % 2
<1>6. \A i \in 0..n : g[i] = Borrowed(i)
  BY <1>2, <1>4, <1>5
<1>7. g = [i \in 0..n |-> Borrowed(i)]
  <2>. HIDE DEF Borrowed
  <2>. QED
    BY <1>3, <1>6
<1>. QED
  BY <1>7 DEF IsBorrow

Borrowed(borrow, diff, a, f, i) ==
  /\ borrow[i] \in 0..1
  /\ Positional(diff, LimbBase, i) - borrow[i] * Raised(LimbBase, i) = Positional(a, LimbBase, i) - Positional(f, LimbBase, i)

(* The borrow chain, limb by limb.                                         *)
LEMMA BorrowsSubtract ==
  ASSUME NEW a \in Seq(Limbs), NEW b \in Seq(Limbs), NEW f, IsWidened(f, b, Len(a)), NEW borrow, IsBorrow(borrow, a, b),
         NEW diff, diff = [i \in 1..Len(a) |-> (a[i] - LimbAt(b, i) - borrow[i - 1]) % LimbBase]
  PROVE  IsDigits(diff, LimbBase, Len(a)) /\ Borrowed(borrow, diff, a, f, Len(a))
<1> DEFINE B == LimbBase
           n == Len(a)
           S == {m \in 0..n : IsDigits(diff, B, m) /\ Borrowed(borrow, diff, a, f, m)}
<1>0. n \in Nat /\ \A i \in 1..n : a[i] \in Limbs /\ f[i] = LimbAt(b, i) /\ f[i] \in Limbs /\ i \in Nat
  BY LimbIs DEF IsWidened
<1>1. 0 \in S
  <2>1. borrow[0] = 0
    BY <1>0 DEF IsBorrow
  <2>2. Positional(diff, B, 0) = 0 /\ Positional(a, B, 0) = 0 /\ Positional(f, B, 0) = 0 /\ Raised(B, 0) = 1
    BY PosStep, RaisedStep
  <2>. QED
    BY <1>0, <2>1, <2>2 DEF Borrowed, IsDigits
<1>2. \A i \in 0..(n - 1) : i \in S => i + 1 \in S
  <2>. SUFFICES ASSUME NEW i \in 0..(n - 1), i \in S PROVE i + 1 \in S
    OBVIOUS
  <2> DEFINE r == Raised(B, i)
             x == a[i + 1]
             y == f[i + 1]
             c == borrow[i]
             t == x - y - c
             s == t % B
             d == (Wide(t) \div B) % 2
             p == Positional(diff, B, i)
             pe == Positional(a, B, i)
             pf == Positional(f, B, i)
  <2>1. i \in Nat /\ i + 1 \in 1..n /\ (i + 1) - 1 = i /\ i + 1 \in 0..n /\ i + 1 # 0 /\ i \in 0..n
    BY <1>0
  <2>2. x \in Limbs /\ y \in Limbs /\ c \in 0..1 /\ p - c * r = pe - pf /\ IsDigits(diff, B, i)
    BY <1>0, <2>1 DEF Borrowed
  <2>3. d \in 0..1 /\ s \in Limbs /\ t = s - d * B
    BY <2>2, DifferenceOfLimbs
  <2>4. borrow[i + 1] = d
    <3>1. borrow[i + 1] = (Wide(a[i + 1] - LimbAt(b, i + 1) - borrow[i]) \div LimbBase) % 2
      BY <2>1 DEF IsBorrow
    <3>. QED
      BY <1>0, <2>1, <3>1
  <2>5. diff[i + 1] = s
    <3>1. diff[i + 1] = (a[i + 1] - LimbAt(b, i + 1) - borrow[i]) % LimbBase
      BY <2>1
    <3>. QED
      BY <1>0, <2>1, <3>1
  <2>6. /\ Positional(diff, B, i + 1) = p + diff[i + 1] * r
        /\ Positional(a, B, i + 1) = pe + x * r
        /\ Positional(f, B, i + 1) = pf + y * r
    BY <2>1, PosStep
  <2>7. Raised(B, i + 1) = B * r
    BY <2>1, RaisedStep
  <2>8. r \in Nat /\ B \in Nat
    BY <2>1, BaseIs, RaisedPositive
  <2>9. p \in Nat /\ pe \in Nat /\ pf \in Nat
    <3>1. IsDigits(a, B, i) /\ IsDigits(f, B, i) /\ i \in 0..i
      BY <1>0, <2>1 DEF IsDigits, Limbs
    <3>. QED
      BY <2>1, <2>2, <3>1, BaseIs, PosBound
  <2>10. IsDigits(diff, B, i + 1)
    <3>1. \A k \in 1..(i + 1) : k \in 1..i \/ k = i + 1
      BY <2>1
    <3>. QED
      BY <2>2, <2>3, <2>5, <3>1 DEF IsDigits, Limbs
  <2>11. t = x - y - c
    OBVIOUS
  <2>. HIDE DEF r, x, y, c, t, s, d, p, pe, pf, B
  <2>12. x \in Int /\ y \in Int /\ s \in Int /\ c \in Int /\ d \in Int /\ r \in Int /\ B \in Int
    BY <2>2, <2>3, <2>8 DEF Limbs
  <2>13. (p + s * r) - d * (B * r) = (pe + x * r) - (pf + y * r)
    <3>1. p - c * r = pe - pf /\ x - y - c = s - d * B /\ p \in Int /\ pe \in Int /\ pf \in Int
      BY <2>2, <2>3, <2>9, <2>11
    <3>2. (s - d * B) * r = s * r - d * (B * r)
      BY <2>12
    <3>3. (x - y - c) * r = x * r - y * r - c * r
      BY <2>12
    <3>4. s * r \in Int /\ d * (B * r) \in Int /\ x * r \in Int /\ y * r \in Int /\ c * r \in Int
      BY <2>12
    <3>5. s * r - d * (B * r) = x * r - y * r - c * r
      BY <3>1, <3>2, <3>3
    <3> DEFINE sr == s * r
               dr == d * (B * r)
               xr == x * r
               yr == y * r
               cr == c * r
    <3>6. /\ p - cr = pe - pf /\ sr - dr = xr - yr - cr
          /\ sr \in Int /\ dr \in Int /\ xr \in Int /\ yr \in Int /\ cr \in Int
      BY <3>1, <3>4, <3>5
    <3>. HIDE DEF sr, dr, xr, yr, cr
    <3>7. (p + sr) - dr = (pe + xr) - (pf + yr)
      BY <3>1, <3>6
    <3>. QED
      BY <3>7 DEF sr, dr, xr, yr
  <2>. QED
    BY <2>1, <2>3, <2>4, <2>5, <2>6, <2>7, <2>10, <2>13 DEF Borrowed, B
<1>. HIDE DEF S
<1>3. 0..n \subseteq S
  BY <1>0, <1>1, <1>2, InductionUpTo
<1>4. n \in S
  BY <1>0, <1>3
<1>. QED
  BY <1>4 DEF S

LEMMA MinusIs ==
  ASSUME NEW a \in Seq(Limbs), NEW b \in Seq(Limbs), BnValue(b) <= BnValue(a)
  PROVE  Minus(a, b) \in Seq(Limbs) /\ Len(Minus(a, b)) = Len(a) /\ BnValue(Minus(a, b)) = BnValue(a) - BnValue(b)
<1> DEFINE n == Len(a)
           B == LimbBase
           borrow[i \in {0} \cup DOMAIN a] ==
             IF i = 0 THEN 0 ELSE (Wide(a[i] - LimbAt(b, i) - borrow[i - 1]) \div LimbBase) % 2
           diff == [i \in DOMAIN a |-> (a[i] - LimbAt(b, i) - borrow[i - 1]) % LimbBase]
<1>1. n \in Nat /\ Len(b) \in Nat /\ DOMAIN a = 1..n /\ {0} \cup DOMAIN a = 0..n
  OBVIOUS
<1>2. Minus(a, b) = diff
  BY DEF Minus
<1>3. IsBorrow(borrow, a, b)
  <2>1. PICK g : IsBorrow(g, a, b)
    BY BorrowExists
  <2>2. \E h : h = [i \in {0} \cup DOMAIN a |->
                     IF i = 0 THEN 0 ELSE (Wide(a[i] - LimbAt(b, i) - h[i - 1]) \div LimbBase) % 2]
    BY <1>1, <2>1 DEF IsBorrow
  <2>. QED
    BY <1>1, <2>2 DEF IsBorrow
<1>. HIDE DEF borrow
<1>4. diff = [i \in 1..n |-> (a[i] - LimbAt(b, i) - borrow[i - 1]) % LimbBase]
  BY <1>1
<1>. HIDE DEF diff
<1> DEFINE f == [i \in 1..(n + Len(b)) |-> LimbAt(b, i)]
<1>5. IsWidened(f, b, n + Len(b)) /\ IsWidened(f, b, n)
  BY <1>1 DEF IsWidened
<1>. HIDE DEF f
<1>6. IsDigits(diff, B, n) /\ Borrowed(borrow, diff, a, f, n)
  BY <1>3, <1>4, <1>5, BorrowsSubtract
<1>7. diff \in Seq(Limbs) /\ Len(diff) = n
  <2>1. \A i \in 1..n : diff[i] \in Limbs
    BY <1>6 DEF IsDigits, Limbs
  <2>2. diff \in [1..n -> Limbs]
    BY <1>4, <2>1
  <2>. QED
    BY <1>1, <2>2
<1>8. /\ BnValue(a) \in Nat /\ BnValue(a) < Raised(B, n) /\ BnValue(a) = Positional(a, B, n)
      /\ BnValue(diff) \in Nat /\ BnValue(diff) < Raised(B, n) /\ BnValue(diff) = Positional(diff, B, n)
      /\ Raised(B, n) \in Nat \ {0} /\ BnValue(b) \in Nat
  BY <1>1, <1>7, NumberIs, BaseIs, RaisedPositive
<1>9. Positional(f, B, n) = BnValue(b)
  <2>1. n + Len(b) \in Nat /\ n \in 0..(n + Len(b)) /\ Len(b) <= n + Len(b)
    BY <1>1
  <2>2. IsDigits(f, B, n + Len(b)) /\ Positional(f, B, n + Len(b)) = BnValue(b)
    BY <1>5, <2>1, WidenedIs
  <2>3. PICK u \in Nat : BnValue(b) = Positional(f, B, n) + u * Raised(B, n)
    BY <2>1, <2>2, BaseIs, PosFront
  <2>4. Positional(f, B, n) \in Nat
    BY <2>1, <2>2, BaseIs, PosBound
  <2> DEFINE r == Raised(B, n)
  <2>5. r \in Nat \ {0} /\ BnValue(b) < r /\ BnValue(b) = Positional(f, B, n) + u * r
    BY <1>8, <2>3
  <2>. HIDE DEF r
  <2>6. u = 0
    <3>1. u >= 1 => (u - 1) * r \in Nat
      BY <2>5
    <3>2. (u - 1) * r = u * r - r
      BY <2>5
    <3>. QED
      BY <1>8, <2>4, <2>5, <3>1, <3>2
  <2>7. u * r = 0
    BY <2>5, <2>6
  <2>. QED
    BY <2>4, <2>5, <2>7
<1>10. borrow[n] \in 0..1 /\ BnValue(diff) - borrow[n] * Raised(B, n) = BnValue(a) - BnValue(b)
  BY <1>6, <1>8, <1>9 DEF Borrowed
<1>11. borrow[n] = 0
  <2>1. borrow[n] = 1 => FALSE
    BY <1>8, <1>10
  <2>. QED
    BY <1>10, <2>1
<1>12. BnValue(diff) = BnValue(a) - BnValue(b)
  BY <1>8, <1>10, <1>11
<1>. QED
  BY <1>2, <1>7, <1>12

(***************************************************************************)
(* hlm_bn_bit and hlm_bn_bitlen: the bits of the limbs are the number's.   *)
(***************************************************************************)

SameDigit(n, p, b, q) == ((n % ((p * b) * q)) \div p) % b = (n \div p) % b

LEMMA DigitKept ==
  ASSUME NEW n \in Nat, NEW p \in Nat \ {0}, NEW b \in Nat \ {0}, NEW q \in Nat \ {0}
  PROVE  SameDigit(n, p, b, q)
<1> DEFINE m == (p * b) * q
           k == n \div m
           l == n % m
           x == l \div p
           r == l % p
           y == x \div b
           s == x % b
<1>0. m \in Nat \ {0}
  <2>1. p * b \in Nat \ {0}
    OBVIOUS
  <2>. HIDE DEF k, l, x, r, y, s
  <2>2. \A c \in Nat \ {0} : c * q \in Nat \ {0}
    OBVIOUS
  <2>. QED
    BY <2>1, <2>2
<1>1. k \in Int /\ l \in Nat /\ n = k * m + l
  BY <1>0
<1>. HIDE DEF k, l, m
<1>2. x \in Int /\ r \in Int /\ 0 <= r /\ r < p /\ l = x * p + r
  BY <1>1
<1>. HIDE DEF x, r
<1>3. y \in Int /\ s \in Int /\ 0 <= s /\ s < b /\ x = y * b + s
  BY <1>2
<1>. HIDE DEF y, s
<1>4. n = (k * q * b + x) * p + r
  <2>1. k * m = ((k * q) * b) * p
    BY <1>1 DEF m
  <2>. QED
    BY <1>1, <1>2, <2>1
<1>5. n \div p = k * q * b + x
  <2>1. k * q * b + x \in Int
    BY <1>1, <1>2
  <2>. QED
    BY <1>2, <1>4, <2>1, DivisionIs
<1>6. n \div p = (k * q + y) * b + s
  BY <1>1, <1>3, <1>5
<1>7. (n \div p) % b = s
  <2>1. k * q + y \in Int
    BY <1>1, <1>3
  <2>. QED
    BY <1>3, <1>6, <2>1, DivisionIs
<1>8. x % b = s
  BY DEF s
<1>. QED
  BY <1>7, <1>8 DEF SameDigit, x, l, m


LEMMA WidthsAre ==
  /\ ByteBits \in Nat \ {0} /\ LimbBits \in Nat \ {0} /\ LimbBits \div ByteBits \in Nat \ {0}
  /\ LimbBits = (LimbBits \div ByteBits) * ByteBits
  /\ TwoTo(ByteBits) \in Nat \ {0} /\ LimbBase = Raised(TwoTo(ByteBits), LimbBits \div ByteBits)
<1> DEFINE per == LimbBits \div ByteBits
<1>1. ByteBits \in Nat \ {0} /\ LimbBits \in Nat \ {0} /\ LimbBits % ByteBits = 0
  BY BignumAssumption
<1>2. LimbBits = per * ByteBits + (LimbBits % ByteBits) /\ per \in Nat
  BY <1>1, Division
<1>. HIDE DEF per
<1>3. LimbBits = per * ByteBits
  <2>1. per * ByteBits \in Nat
    BY <1>1, <1>2
  <2>. QED
    BY <1>1, <1>2, <2>1
<1>4. per # 0
  <2>1. per = 0 => per * ByteBits = 0
    BY <1>1
  <2>. QED
    BY <1>1, <1>3, <2>1
<1>5. TwoTo(ByteBits) \in Nat \ {0}
  BY <1>1, PowerPositive
<1>6. LimbBase = Raised(TwoTo(ByteBits), per)
  <2>1. Raised(Raised(2, ByteBits), per) = Raised(2, ByteBits * per)
    BY <1>1, <1>2, RaisedTwice
  <2>2. ByteBits * per = LimbBits
    BY <1>1, <1>2, <1>3
  <2>. QED
    BY <2>1, <2>2 DEF LimbBase, TwoTo
<1>. QED
  BY <1>1, <1>2, <1>3, <1>4, <1>5, <1>6 DEF per

LEMMA PowersOfBase ==
  ASSUME NEW q \in Nat
  PROVE  Raised(LimbBase, q) = TwoTo(q * LimbBits)
<1>1. LimbBits \in Nat /\ LimbBits * q = q * LimbBits
  BY WidthsAre
<1>2. Raised(Raised(2, LimbBits), q) = Raised(2, LimbBits * q)
  BY <1>1, RaisedTwice
<1>. QED
  BY <1>1, <1>2 DEF LimbBase, TwoTo

(* Bits that lie within a limb are those of the number.                    *)
LEMMA SliceIs ==
  ASSUME NEW a \in Seq(Limbs), NEW q \in Nat, NEW r \in Nat, NEW w \in Nat, r + w <= LimbBits
  PROVE  (LimbAt(a, q + 1) \div TwoTo(r)) % TwoTo(w) = (BnValue(a) \div TwoTo(q * LimbBits + r)) % TwoTo(w)
<1> DEFINE n == Len(a) + q + 1
           e == [i \in 1..n |-> LimbAt(a, i)]
           B == LimbBase
           V == BnValue(a)
           l == LimbAt(a, q + 1)
           R == TwoTo(r)
           W == TwoTo(w)
           Z == TwoTo(LimbBits - r - w)
           Q == Raised(B, q)
<1>1. n \in Nat /\ Len(a) <= n /\ q \in 0..(n - 1) /\ IsWidened(e, a, n)
  BY DEF IsWidened
<1>2. e[q + 1] = l /\ l \in Limbs
  <2>1. q + 1 \in 1..n /\ q + 1 \in Nat
    OBVIOUS
  <2>. QED
    BY <2>1, LimbIs
<1>. HIDE DEF e, n
<1>3. IsDigits(e, B, n) /\ Positional(e, B, n) = V
  BY <1>1, WidenedIs
<1>4. PICK u \in Nat : V \div Q = u * B + l
  <2>1. B \in Nat \ {0}
    BY BaseIs
  <2>2. PICK u \in Nat : Positional(e, B, n) \div Raised(B, q) = u * B + e[q + 1]
    BY <1>1, <1>3, <2>1, PosDigit
  <2>. QED
    BY <1>2, <1>3, <2>2
<1>5. R \in Nat \ {0} /\ W \in Nat \ {0} /\ Z \in Nat \ {0} /\ Q \in Nat \ {0} /\ V \in Nat
  <2>1. LimbBits - r - w \in Nat
    BY WidthsAre
  <2>. QED
    BY <2>1, PowerPositive, BaseIs, RaisedPositive, NumberIs
<1>6. TwoTo(q * LimbBits + r) = Q * R
  <2>1. q * LimbBits \in Nat
    BY WidthsAre
  <2>2. TwoTo(q * LimbBits + r) = TwoTo(q * LimbBits) * TwoTo(r)
    BY <2>1, PowerAdds
  <2>. QED
    BY <2>2, PowersOfBase
<1>7. B = (R * W) * Z
  <2>1. LimbBits - r - w \in Nat /\ (r + w) + (LimbBits - r - w) = LimbBits /\ r + w \in Nat
    BY WidthsAre
  <2>2. TwoTo((r + w) + (LimbBits - r - w)) = TwoTo(r + w) * TwoTo(LimbBits - r - w)
    BY <2>1, PowerAdds
  <2>3. TwoTo(r + w) = TwoTo(r) * TwoTo(w)
    BY PowerAdds
  <2>. QED
    BY <2>1, <2>2, <2>3 DEF LimbBase
<1>8. V \div (Q * R) = (V \div Q) \div R
  BY <1>5, DividesTwice
<1> DEFINE x == u * B + l
<1>9. x \in Nat /\ x % B = l
  <2>1. B \in Nat \ {0} /\ l \in Nat /\ l < B
    BY <1>2, BaseIs DEF Limbs
  <2>. HIDE DEF B, l
  <2>2. x % B = l
    BY <2>1, DivisionIs
  <2>3. u * B \in Nat
    BY <2>1
  <2>. QED
    BY <2>1, <2>2, <2>3
<1>. HIDE DEF x
<1>10. SameDigit(x, R, W, Z)
  BY <1>5, <1>9, DigitKept
<1>11. ((x % ((R * W) * Z)) \div R) % W = (x \div R) % W
  BY <1>10 DEF SameDigit
<1>12. (l \div R) % W = ((V \div Q) \div R) % W
  <2>1. (R * W) * Z = B
    BY <1>7
  <2>2. V \div Q = x
    BY <1>4 DEF x
  <2>. HIDE DEF B, R, W, Z, Q, V, l
  <2>. QED
    BY <1>9, <1>11, <2>1, <2>2
<1>. QED
  BY <1>6, <1>8, <1>12

LEMMA LimbBitIs ==
  ASSUME NEW a \in Seq(Limbs), NEW i \in Nat
  PROVE  BnBit(a, i) = (BnValue(a) \div TwoTo(i)) % 2
<1> DEFINE q == i \div LimbBits
           r == i % LimbBits
<1>1. LimbBits \in Nat \ {0}
  BY WidthsAre
<1>2. i = q * LimbBits + r /\ q \in Nat /\ r \in Nat /\ r < LimbBits
  BY <1>1, Division
<1>3. BnBit(a, i) = (LimbAt(a, q + 1) \div TwoTo(r)) % 2
  BY DEF BnBit
<1>. HIDE DEF q, r
<1>4. TwoTo(1) = 2
  <2>1. TwoTo(0 + 1) = 2 * TwoTo(0) /\ 0 + 1 = 1
    BY PowerStep
  <2>. QED
    BY <2>1, PowerStep
<1>5. r + 1 <= LimbBits
  BY <1>1, <1>2
<1>6. (LimbAt(a, q + 1) \div TwoTo(r)) % TwoTo(1) = (BnValue(a) \div TwoTo(q * LimbBits + r)) % TwoTo(1)
  BY <1>2, <1>5, SliceIs
<1>. QED
  BY <1>2, <1>3, <1>4, <1>6

(* The bit length n is the least with the number below 2^n.                *)
LEMMA BitLenIs ==
  ASSUME NEW a \in Seq(Limbs)
  PROVE  /\ BnBitLen(a) \in Nat
         /\ BnValue(a) < TwoTo(BnBitLen(a))
         /\ BnBitLen(a) > 0 => BnBitLen(a) - 1 \in Nat /\ TwoTo(BnBitLen(a) - 1) <= BnValue(a)
<1> DEFINE N == LimbBits * Len(a)
           V == BnValue(a)
           Ones == {j \in 0..(N - 1) : BnBit(a, j) = 1}
           S == {0} \cup {i + 1 : i \in Ones}
           bl == Max(S)
<1>1. N \in Nat /\ N = Len(a) * LimbBits /\ Len(a) \in Nat
  <2>1. LimbBits \in Nat /\ Len(a) \in Nat
    BY WidthsAre
  <2>. QED
    BY <2>1
<1>2. BnBitLen(a) = bl
  BY DEF BnBitLen
<1>3. V \in Nat /\ V < TwoTo(N)
  BY <1>1, NumberIs, PowersOfBase
<1>. HIDE DEF N
<1>4. \A i \in Ones : i + 1 \in 0..N /\ i \in Nat /\ i \in 0..(N - 1) /\ BnBit(a, i) = 1
  BY <1>1
<1>5. \A j \in 0..(N - 1) : BnBit(a, j) = 1 => j \in Ones
  OBVIOUS
<1>. HIDE DEF Ones, V
<1>6. S \in SUBSET (0..N) /\ S # {}
  BY <1>1, <1>4
<1>7. bl \in S /\ \A y \in S : bl >= y
  <2>. HIDE DEF S
  <2>. QED
    BY <1>1, <1>6, MaxIs
<1>8. bl \in 0..N
  BY <1>6, <1>7
<1>9. \A j \in Ones : bl >= j + 1
  BY <1>7
<1>10. bl = 0 \/ \E i \in Ones : bl = i + 1
  BY <1>7
<1>. HIDE DEF bl, S
<1>11. \A i \in Nat : BnBit(a, i) = (V \div TwoTo(i)) % 2
  BY LimbBitIs DEF V
<1>12. V < TwoTo(bl)
  <2> DEFINE D == {m \in 0..(N - bl) : V < TwoTo(N - m)}
  <2>1. 0 \in D
    BY <1>1, <1>3, <1>8
  <2>2. \A m \in 0..(N - bl - 1) : m \in D => m + 1 \in D
    <3>. SUFFICES ASSUME NEW m \in 0..(N - bl - 1), V < TwoTo(N - m) PROVE V < TwoTo(N - (m + 1)) /\ m + 1 \in 0..(N - bl)
      OBVIOUS
    <3> DEFINE k == N - (m + 1)
               p == TwoTo(k)
               t == V \div p
    <3>1. k \in Nat /\ k + 1 = N - m /\ k >= bl /\ k \in 0..(N - 1) /\ m + 1 \in 0..(N - bl)
      <4>1. N \in Int /\ bl \in Int /\ m \in Int /\ 0 <= bl /\ 0 <= m /\ m <= N - bl - 1
        BY <1>1, <1>8
      <4>. QED
        BY ONLY <4>1 DEF k
    <3>2. TwoTo(N - m) = 2 * p /\ p \in Nat \ {0}
      BY <3>1, PowerStep, PowerPositive
    <3>3. V = t * p + (V % p) /\ t \in Nat /\ V % p \in Nat /\ V % p < p
      BY <1>3, <3>2, Division
    <3>4. t % 2 # 1
      <4>1. BnBit(a, k) # 1
        <5>1. k \in Ones => FALSE
          BY <1>8, <1>9, <3>1
        <5>. QED
          BY <1>5, <3>1, <5>1
      <4>. QED
        BY <1>11, <3>1, <4>1
    <3>. HIDE DEF k, p, t
    <3>5. t < 2
      <4>1. t >= 2 => (t - 2) * p \in Nat
        BY <3>2, <3>3
      <4>2. (t - 2) * p = t * p - 2 * p /\ t * p \in Nat
        BY <3>2, <3>3
      <4>. QED
        BY <1>3, <3>2, <3>3, <4>1, <4>2
    <3>6. t = 0
      BY <3>3, <3>4, <3>5
    <3>7. t * p = 0
      BY <3>2, <3>6
    <3>8. V < p
      BY <3>3, <3>7
    <3>. QED
      BY <3>1, <3>8 DEF p, k
  <2>. HIDE DEF D
  <2>3. 0..(N - bl) \subseteq D
    <3>1. N - bl \in Nat
      BY <1>1, <1>8
    <3>. QED
      BY <2>1, <2>2, <3>1, InductionUpTo
  <2>4. N - bl \in 0..(N - bl) /\ N - (N - bl) = bl
    BY <1>1, <1>8
  <2>. QED
    BY <2>3, <2>4 DEF D
<1>13. bl > 0 => bl - 1 \in Nat /\ TwoTo(bl - 1) <= V
  <2>. SUFFICES ASSUME bl > 0 PROVE bl - 1 \in Nat /\ TwoTo(bl - 1) <= V
    OBVIOUS
  <2>1. PICK i \in Ones : bl = i + 1
    BY <1>10
  <2>2. i \in Nat /\ BnBit(a, i) = 1 /\ bl - 1 = i
    BY <1>4, <2>1
  <2> DEFINE p == TwoTo(i)
             t == V \div p
  <2>3. p \in Nat \ {0} /\ t % 2 = 1
    BY <1>11, <2>2, PowerPositive
  <2>4. V = t * p + (V % p) /\ t \in Nat /\ V % p \in Nat
    BY <1>3, <2>3, Division
  <2>. HIDE DEF p, t
  <2>5. t >= 1
    <3>1. 0 % 2 = 0
      OBVIOUS
    <3>2. t # 0
      BY <2>3, <3>1
    <3>. QED
      BY <2>4, <3>2
  <2>6. (t - 1) * p \in Nat /\ (t - 1) * p = t * p - p /\ t * p \in Nat
    BY <2>3, <2>4, <2>5
  <2>7. p <= V
    BY <1>3, <2>3, <2>4, <2>6
  <2>. QED
    BY <2>2, <2>7 DEF p
<1>. QED
  BY <1>2, <1>8, <1>12, <1>13 DEF V

(***************************************************************************)
(* hlm_bn_from_bytes_be and hlm_bn_to_bytes_be.                            *)
(***************************************************************************)

ByteValues == 0..(TwoTo(ByteBits) - 1)

IsFlipped(e, bytes) == \A k \in 1..Len(bytes) : e[k] = bytes[Len(bytes) + 1 - k]

(* The number a big-endian string of bytes stands for.                     *)
LEMMA BytesAre ==
  ASSUME NEW bytes \in Seq(ByteValues), NEW e, IsFlipped(e, bytes)
  PROVE  /\ IsDigits(e, TwoTo(ByteBits), Len(bytes))
         /\ BytesValue(bytes) = Positional(e, TwoTo(ByteBits), Len(bytes))
         /\ BytesValue(bytes) \in Nat /\ BytesValue(bytes) < TwoTo(ByteBits * Len(bytes))
<1> DEFINE n == Len(bytes)
           C == TwoTo(ByteBits)
           h == [i \in DOMAIN bytes |-> bytes[i] * TwoTo(ByteBits * (n - i))]
           t == [i \in 1..n |-> e[i] * Raised(C, i - 1)]
<1>0. n \in Nat /\ DOMAIN bytes = 1..n /\ (\A i \in 1..n : bytes[i] \in ByteValues) /\ ByteBits \in Nat /\ C \in Nat \ {0}
  BY WidthsAre
<1>1. IsDigits(e, C, n)
  <2>1. \A i \in 1..n : n + 1 - i \in 1..n
    BY <1>0
  <2>. QED
    BY <1>0, <2>1 DEF IsDigits, IsFlipped, ByteValues
<1>2. BytesValue(bytes) = SumTo(h, n) /\ Positional(e, C, n) = SumTo(t, n)
  BY DEF BytesValue, Positional
<1>3. \A k \in Nat : Raised(C, k) = TwoTo(ByteBits * k)
  BY <1>0, RaisedTwice DEF TwoTo
<1>4. \A i \in 1..n : h[i] \in Nat
  <2>. SUFFICES ASSUME NEW i \in 1..n PROVE h[i] \in Nat
    OBVIOUS
  <2>1. n - i \in Nat /\ i \in DOMAIN bytes
    BY <1>0
  <2>2. TwoTo(ByteBits * (n - i)) \in Nat /\ bytes[i] \in Nat
    <3>1. ByteBits * (n - i) \in Nat
      <4> DEFINE d == n - i
      <4>1. d \in Nat
        BY <2>1
      <4>. HIDE DEF d
      <4>2. ByteBits * d \in Nat
        BY <1>0, <4>1
      <4>. QED
        BY <4>2 DEF d
    <3>. QED
      BY <1>0, <3>1, PowerPositive DEF ByteValues
  <2>. QED
    BY <2>1, <2>2
<1>5. IsReversed(t, h, n)
  <2>. SUFFICES ASSUME NEW i \in 1..n PROVE t[i] = h[n + 1 - i]
    BY DEF IsReversed
  <2>1. n + 1 - i \in 1..n /\ n - (n + 1 - i) = i - 1 /\ i - 1 \in Nat
    BY <1>0
  <2>2. h[n + 1 - i] = bytes[n + 1 - i] * TwoTo(ByteBits * (i - 1))
    BY <1>0, <2>1
  <2>3. t[i] = e[i] * TwoTo(ByteBits * (i - 1))
    BY <1>3, <2>1
  <2>. QED
    BY <2>2, <2>3 DEF IsFlipped
<1>. HIDE DEF h, t, n
<1>6. SumTo(t, n) = SumTo(h, n)
  BY <1>0, <1>4, <1>5, SumReversed
<1>7. Positional(e, C, n) \in Nat /\ Positional(e, C, n) < Raised(C, n)
  <2>1. n \in 0..n
    BY <1>0
  <2>. QED
    BY <1>0, <1>1, <2>1, PosBound
<1>. QED
  BY <1>0, <1>1, <1>2, <1>3, <1>6, <1>7 DEF n

(* Grouping the bytes by limbs keeps the number they stand for.            *)
LEMMA FromBytesIs ==
  ASSUME NEW bytes \in Seq(ByteValues), Len(bytes) * ByteBits <= MaxLimbs * LimbBits
  PROVE  BnFromBytes(bytes) \in Numbers /\ BnValue(BnFromBytes(bytes)) = BytesValue(bytes)
         /\ Len(BnFromBytes(bytes)) <= MaxLimbs
<1> DEFINE n == Len(bytes)
           c == (n * ByteBits + LimbBits - 1) \div LimbBits
           limbs == Max({1, c})
           per == LimbBits \div ByteBits
           C == TwoTo(ByteBits)
           ByteAt(k) == IF k < n THEN bytes[n - k] ELSE 0
           part(i) == [k \in 1..per |-> ByteAt((i - 1) * per + k - 1)]
           w == [i \in 1..limbs |-> Positional(part(i), C, per)]
           h == [i \in 1..limbs |-> part(i)]
           f == [k \in 1..(limbs * per) |-> ByteAt(k - 1)]
<1>0. n \in Nat /\ DOMAIN bytes = 1..n /\ \A i \in 1..n : bytes[i] \in ByteValues
  OBVIOUS
<1>1. BnFromBytes(bytes) = BnNormalize(w)
  <2>1. BnFromBytes(bytes) = IF Len(bytes) * ByteBits > MaxLimbs * LimbBits THEN NoRoom ELSE BnNormalize(w)
    BY DEF BnFromBytes
  <2> DEFINE x == Len(bytes) * ByteBits
             y == MaxLimbs * LimbBits
  <2>2. x \in Nat /\ y \in Nat /\ x <= y
    BY <1>0, BignumAssumption
  <2>. HIDE DEF x, y
  <2>3. ~ (x > y)
    BY <2>2
  <2>. QED
    BY <2>1, <2>3 DEF x, y
<1>2. /\ ByteBits \in Nat \ {0} /\ LimbBits \in Nat \ {0} /\ per \in Nat \ {0} /\ LimbBits = per * ByteBits
      /\ C \in Nat \ {0} /\ LimbBase = Raised(C, per) /\ MaxLimbs \in Nat \ {0}
  BY WidthsAre, BignumAssumption
<1>. HIDE DEF per
<1>3. c \in Nat /\ n * ByteBits <= c * LimbBits /\ c <= MaxLimbs
  <2> DEFINE x == n * ByteBits
             y == MaxLimbs * LimbBits
             z == x + LimbBits - 1
             t == z % LimbBits
  <2>1. x \in Nat /\ y \in Nat /\ x <= y /\ z \in Nat /\ LimbBits \in Nat \ {0}
    BY <1>0, <1>2
  <2>. HIDE DEF x, y
  <2>2. z = c * LimbBits + t /\ t \in Nat /\ t < LimbBits /\ c \in Nat
    <3> DEFINE u == z
    <3>1. u \in Nat
      BY <2>1
    <3>2. c = u \div LimbBits
      BY DEF x
    <3>. HIDE DEF u
    <3>3. u = (u \div LimbBits) * LimbBits + (u % LimbBits) /\ u \div LimbBits \in Nat /\ u % LimbBits \in Nat
          /\ u % LimbBits < LimbBits
      BY <2>1, <3>1, Division
    <3>. QED
      BY <3>2, <3>3 DEF u
  <2>. HIDE DEF c, t
  <2>3. c * LimbBits \in Nat
    BY <2>1, <2>2
  <2>4. x <= c * LimbBits /\ c * LimbBits < y + LimbBits
    BY <2>1, <2>2, <2>3
  <2>5. c <= MaxLimbs
    <3>1. c >= MaxLimbs + 1 => (c - MaxLimbs - 1) * LimbBits >= 0
      BY <1>2, <2>2
    <3>2. (c - MaxLimbs - 1) * LimbBits = c * LimbBits - y - LimbBits
      BY <1>2, <2>2 DEF y
    <3>. QED
      BY <1>2, <2>1, <2>2, <2>3, <2>4, <3>1, <3>2
  <2>. QED
    BY <2>2, <2>4, <2>5 DEF x
<1>. HIDE DEF c
<1>4. limbs \in Nat \ {0} /\ limbs >= c /\ limbs <= MaxLimbs
  <2>1. 1 \in Nat
    OBVIOUS
  <2>2. limbs \in {1, c} /\ limbs >= 1 /\ limbs >= c
    BY <1>3, <2>1, MaxOfTwo
  <2>. QED
    BY <1>2, <1>3, <2>2
<1>. HIDE DEF limbs
<1> DEFINE m == limbs * per
<1>5. m \in Nat /\ n <= m
  <2> DEFINE z == c * per
  <2>1. z \in Nat /\ c * LimbBits = z * ByteBits
    BY <1>2, <1>3
  <2>. HIDE DEF z
  <2>2. n <= z
    <3>1. (n - z) * ByteBits = n * ByteBits - z * ByteBits
      BY <1>0, <1>2, <2>1
    <3>2. n - z >= 1 => (n - z) * ByteBits >= 1
      BY <1>0, <1>2, <2>1
    <3>3. n * ByteBits \in Nat /\ z * ByteBits \in Nat
      BY <1>0, <1>2, <2>1
    <3>. QED
      BY <1>0, <1>3, <2>1, <3>1, <3>2, <3>3
  <2>3. z <= m /\ m \in Nat
    <3>1. (limbs - c) * per = limbs * per - c * per
      BY <1>2, <1>3, <1>4
    <3>2. (limbs - c) * per >= 0
      BY <1>2, <1>3, <1>4
    <3>3. limbs * per \in Nat /\ c * per \in Nat
      BY <1>2, <1>3, <1>4
    <3>. QED
      BY <3>1, <3>2, <3>3 DEF z
  <2>. QED
    BY <1>0, <2>1, <2>2, <2>3
<1>6. /\ \A k \in 1..m : f[k] = ByteAt(k - 1)
      /\ \A i \in 1..limbs : h[i] = part(i) /\ w[i] = Positional(h[i], C, per)
      /\ DOMAIN w = 1..limbs
  OBVIOUS
<1>7. \A k \in 1..m : (k <= n => f[k] = bytes[n + 1 - k]) /\ (k > n => f[k] = 0)
  <2>1. \A k \in 1..m : (k - 1 < n <=> k <= n) /\ n - (k - 1) = n + 1 - k
    BY <1>0, <1>5
  <2>. QED
    BY <1>6, <2>1
<1>. HIDE DEF f
<1>8. IsFlipped(f, bytes)
  <2>1. \A k \in 1..n : k \in 1..m /\ k <= n
    BY <1>0, <1>5
  <2>. QED
    BY <1>7, <2>1 DEF IsFlipped
<1>9. IsDigits(f, C, n) /\ BytesValue(bytes) = Positional(f, C, n)
  BY <1>8, BytesAre
<1>10. IsDigits(f, C, m) /\ Positional(f, C, m) = Positional(f, C, n)
  <2>1. n \in 0..m /\ \A k \in (n + 1)..m : k \in 1..m /\ k > n
    BY <1>0, <1>5
  <2>2. \A k \in (n + 1)..m : f[k] = 0
    BY <1>7, <2>1
  <2>3. Positional(f, C, m) = Positional(f, C, n)
    BY <1>2, <1>5, <1>9, <2>1, <2>2, PosZeros
  <2>4. \A k \in 1..m : k \in 1..n \/ k \in (n + 1)..m
    BY <1>0, <1>5
  <2>5. 0 \in 0..(C - 1)
    BY <1>2
  <2>. QED
    BY <1>9, <2>2, <2>3, <2>4, <2>5 DEF IsDigits
<1>11. IsGrouped(w, h, f, C, per, limbs)
  <2>. SUFFICES ASSUME NEW i \in 1..limbs PROVE IsShift(h[i], f, (i - 1) * per, per)
    BY <1>6 DEF IsGrouped
  <2> DEFINE q == (i - 1) * per
  <2>1. q \in Nat /\ q + per <= m
    <3>1. (i - 1) * per \in Nat
      BY <1>2, <1>4
    <3>2. (limbs - i) * per >= 0
      BY <1>2, <1>4
    <3>3. (limbs - i) * per = limbs * per - (i - 1) * per - per
      BY <1>2, <1>4
    <3>. QED
      BY <1>2, <1>5, <3>1, <3>2, <3>3
  <2>2. \A k \in 1..per : h[i][k] = ByteAt(q + k - 1)
    BY <1>6
  <2>. HIDE DEF q, m
  <2>3. \A k \in 1..per : q + k \in 1..m /\ (q + k) - 1 = q + k - 1
    <3>1. m \in Int /\ per \in Int
      BY <1>2, <1>5
    <3>. QED
      BY <2>1, <3>1
  <2>. HIDE DEF h, w
  <2>4. \A k \in 1..per : h[i][k] = f[q + k]
    <3>. SUFFICES ASSUME NEW k \in 1..per PROVE h[i][k] = f[q + k]
      OBVIOUS
    <3>1. h[i][k] = ByteAt(q + k - 1) /\ q + k \in 1..m /\ (q + k) - 1 = q + k - 1
      BY <2>2, <2>3
    <3>. HIDE DEF ByteAt
    <3>2. f[q + k] = ByteAt((q + k) - 1)
      BY <1>6, <3>1
    <3>. QED
      BY <3>1, <3>2
  <2>. QED
    BY <2>4 DEF IsShift, q
<1>. HIDE DEF h, w, m
<1>12. Positional(w, LimbBase, limbs) = Positional(f, C, m)
  <2>1. IsDigits(f, C, limbs * per)
    BY <1>10 DEF m
  <2>2. Positional(w, Raised(C, per), limbs) = Positional(f, C, limbs * per)
    BY <1>2, <1>4, <1>11, <2>1, PosGroups
  <2>. QED
    BY <1>2, <2>2 DEF m
<1>13. w \in Seq(Limbs) /\ Len(w) = limbs
  <2>1. \A i \in 1..limbs : w[i] \in Limbs
    <3>. SUFFICES ASSUME NEW i \in 1..limbs PROVE w[i] \in Limbs
      OBVIOUS
    <3>1. IsShift(h[i], f, (i - 1) * per, per) /\ w[i] = Positional(h[i], C, per)
      BY <1>11 DEF IsGrouped
    <3> DEFINE q == (i - 1) * per
    <3>2. q \in Nat /\ q + per <= m
      <4>1. (i - 1) * per \in Nat
        BY <1>2, <1>4
      <4>2. (limbs - i) * per >= 0
        BY <1>2, <1>4
      <4>3. (limbs - i) * per = limbs * per - (i - 1) * per - per
        BY <1>2, <1>4
      <4>. QED
        BY <1>2, <1>5, <4>1, <4>2, <4>3 DEF m
    <3>3. IsShift(h[i], f, q, per)
      BY <3>1
    <3>. HIDE DEF q
    <3>4. IsDigits(h[i], C, per)
      <4>1. \A k \in 1..per : q + k \in 1..m
        BY <1>2, <1>5, <3>2
      <4>. QED
        BY <1>10, <3>3, <4>1 DEF IsDigits, IsShift
    <3>5. Positional(h[i], C, per) \in Nat /\ Positional(h[i], C, per) < Raised(C, per)
      <4>1. per \in 0..per /\ per \in Nat
        BY <1>2
      <4>. QED
        BY <1>2, <3>4, <4>1, PosBound
    <3>6. LimbBase \in Nat
      BY BaseIs
    <3> DEFINE x == Positional(h[i], C, per)
    <3>7. x \in Nat /\ x < LimbBase /\ w[i] = x
      BY <1>2, <3>1, <3>5
    <3>. HIDE DEF x
    <3>. QED
      BY <3>6, <3>7 DEF Limbs
  <2>2. w = [i \in 1..limbs |-> w[i]]
    BY DEF w
  <2>3. w \in [1..limbs -> Limbs]
    BY <2>1, <2>2
  <2>. QED
    BY <1>4, <2>3
<1>14. w \in Numbers
  BY <1>4, <1>13 DEF Numbers
<1>15. BnValue(w) = BytesValue(bytes)
  BY <1>9, <1>10, <1>12, <1>13, NumberIs
<1>16. Len(BnNormalize(w)) <= limbs /\ Len(BnNormalize(w)) \in Nat
  BY <1>13, <1>14, NormalizeKeeps DEF Numbers
<1>. QED
  BY <1>1, <1>2, <1>4, <1>14, <1>15, <1>16, NormalizeKeeps

(* Written in len bytes, or refused exactly if the number needs more.      *)
LEMMA ToBytesIs ==
  ASSUME NEW a \in Numbers, NEW len \in Nat
  PROVE  IF BnValue(a) >= TwoTo(ByteBits * len) THEN BnToBytes(a, len) = NoRoom
         ELSE Len(BnToBytes(a, len)) = len /\ BytesValue(BnToBytes(a, len)) = BnValue(a)
<1> DEFINE V == BnValue(a)
           bl == BnBitLen(a)
           C == TwoTo(ByteBits)
           need == (bl + ByteBits - 1) \div ByteBits
           ByteOf(k) == (LimbAt(a, (k * ByteBits) \div LimbBits + 1) \div TwoTo((k * ByteBits) % LimbBits)) % TwoTo(ByteBits)
           w == [i \in 1..len |-> IF len - i < need THEN ByteOf(len - i) ELSE 0]
<1>0. a \in Seq(Limbs) /\ ByteBits \in Nat \ {0} /\ C \in Nat \ {0}
  BY WidthsAre DEF Numbers
<1>1. BnToBytes(a, len) = IF need > len THEN NoRoom ELSE w
  BY DEF BnToBytes
<1>2. bl \in Nat /\ V < TwoTo(bl) /\ (bl > 0 => bl - 1 \in Nat /\ TwoTo(bl - 1) <= V) /\ V \in Nat
  BY <1>0, BitLenIs, NumberIs
<1>. HIDE DEF bl, V
<1>3. need \in Nat /\ bl <= need * ByteBits /\ (need > len => bl > len * ByteBits)
  <2> DEFINE z == bl + ByteBits - 1
             t == z % ByteBits
  <2>1. z \in Nat
    BY <1>0, <1>2
  <2>2. z = need * ByteBits + t /\ t \in Nat /\ t < ByteBits /\ need \in Nat
    <3> DEFINE u == z
    <3>1. u \in Nat /\ need = u \div ByteBits
      BY <2>1
    <3>. HIDE DEF u
    <3>2. u = (u \div ByteBits) * ByteBits + (u % ByteBits) /\ u \div ByteBits \in Nat /\ u % ByteBits \in Nat
          /\ u % ByteBits < ByteBits
      BY <1>0, <3>1, Division
    <3>. QED
      BY <3>1, <3>2 DEF u
  <2>. HIDE DEF need, t
  <2>3. need * ByteBits \in Nat /\ len * ByteBits \in Nat
    BY <1>0, <2>2
  <2>4. need > len => (need - len - 1) * ByteBits >= 0
    BY <1>0, <2>2
  <2>5. (need - len - 1) * ByteBits = need * ByteBits - len * ByteBits - ByteBits
    BY <1>0, <2>2
  <2>. QED
    BY <1>0, <1>2, <2>2, <2>3, <2>4, <2>5
<1>. HIDE DEF need
<1>4. CASE need > len
  <2>1. bl - 1 \in Nat /\ len * ByteBits \in Nat /\ len * ByteBits <= bl - 1 /\ bl > 0
    <3>1. len * ByteBits \in Nat
      BY <1>0
    <3>. QED
      BY <1>2, <1>3, <1>4, <3>1
  <2>2. Raised(2, len * ByteBits) <= Raised(2, bl - 1)
    BY <2>1, RaisedGrows
  <2>3. TwoTo(len * ByteBits) \in Nat /\ TwoTo(bl - 1) \in Nat
    BY <2>1, PowerPositive
  <2>4. V >= TwoTo(len * ByteBits)
    BY <1>2, <2>1, <2>2, <2>3 DEF TwoTo
  <2>5. len * ByteBits = ByteBits * len
    BY <1>0
  <2>6. BnToBytes(a, len) = NoRoom
    BY <1>1, <1>4
  <2>. QED
    BY <2>4, <2>5, <2>6 DEF V
<1>5. CASE ~ (need > len)
  <2>1. need * ByteBits \in Nat /\ len * ByteBits \in Nat /\ need * ByteBits <= len * ByteBits
    <3>1. need * ByteBits \in Nat /\ len * ByteBits \in Nat /\ (len - need) * ByteBits >= 0
      BY <1>0, <1>3, <1>5
    <3>2. (len - need) * ByteBits = len * ByteBits - need * ByteBits
      BY <1>0, <1>3
    <3>. QED
      BY <3>1, <3>2
  <2>2. \A k \in Nat : need * ByteBits <= k => V < TwoTo(k)
    <3>. SUFFICES ASSUME NEW k \in Nat, need * ByteBits <= k PROVE V < TwoTo(k)
      OBVIOUS
    <3>1. bl <= k
      BY <1>2, <1>3, <2>1
    <3>2. Raised(2, bl) <= Raised(2, k)
      BY <1>2, <3>1, RaisedGrows
    <3>3. TwoTo(bl) \in Nat /\ TwoTo(k) \in Nat
      BY <1>2, PowerPositive
    <3>. QED
      BY <1>2, <3>2, <3>3 DEF TwoTo
  <2>3. V < TwoTo(len * ByteBits) /\ TwoTo(len * ByteBits) \in Nat
    BY <2>1, <2>2, PowerPositive
  <2>4. \A k \in Nat : ByteOf(k) = (V \div TwoTo(k * ByteBits)) % C
    <3>. SUFFICES ASSUME NEW k \in Nat PROVE ByteOf(k) = (V \div TwoTo(k * ByteBits)) % C
      OBVIOUS
    <3> DEFINE per == LimbBits \div ByteBits
               q == k \div per
               t == k % per
               r == t * ByteBits
    <3>1. per \in Nat \ {0} /\ LimbBits = per * ByteBits /\ LimbBits \in Nat \ {0}
      BY WidthsAre
    <3>. HIDE DEF per
    <3>2. k = q * per + t /\ q \in Nat /\ t \in Nat /\ t < per
      BY <3>1, Division
    <3>. HIDE DEF q, t
    <3>3. k * ByteBits = q * LimbBits + r
      BY <1>0, <3>1, <3>2
    <3>4. r \in Nat /\ r + ByteBits <= LimbBits /\ r < LimbBits
      <4>1. (per - t - 1) * ByteBits >= 0 /\ r \in Nat
        BY <1>0, <3>1, <3>2
      <4>2. (per - t - 1) * ByteBits = per * ByteBits - t * ByteBits - ByteBits
        BY <1>0, <3>1, <3>2
      <4>. QED
        BY <1>0, <3>1, <4>1, <4>2
    <3>. HIDE DEF r
    <3>5. (q * LimbBits + r) \div LimbBits = q /\ (q * LimbBits + r) % LimbBits = r
      <4>1. LimbBits \in Nat \ {0} /\ q \in Int /\ r \in Int /\ 0 <= r /\ r < LimbBits
        BY <3>1, <3>2, <3>4
      <4>. QED
        BY ONLY <4>1, DivisionIs
    <3>6. ByteOf(k) = (LimbAt(a, q + 1) \div TwoTo(r)) % TwoTo(ByteBits)
      BY <3>3, <3>5
    <3>7. (LimbAt(a, q + 1) \div TwoTo(r)) % TwoTo(ByteBits) = (V \div TwoTo(q * LimbBits + r)) % TwoTo(ByteBits)
      BY <1>0, <3>2, <3>4, SliceIs DEF V
    <3>. QED
      BY <3>3, <3>6, <3>7
  <2> DEFINE Byte(k) == (V \div TwoTo(k * ByteBits)) % C
  <2>5. \A k \in Nat : Byte(k) \in ByteValues /\ (~ (k < need) => Byte(k) = 0)
    <3>. SUFFICES ASSUME NEW k \in Nat PROVE Byte(k) \in ByteValues /\ (~ (k < need) => Byte(k) = 0)
      OBVIOUS
    <3> DEFINE p == TwoTo(k * ByteBits)
               u == V \div p
    <3>1. k * ByteBits \in Nat
      BY <1>0
    <3>2. p \in Nat \ {0}
      BY <3>1, PowerPositive
    <3>3. u \in Nat
      BY <1>2, <3>2, Division
    <3>4. u % C \in ByteValues
      <4>. HIDE DEF u
      <4>1. u % C \in Nat /\ u % C < C
        BY <1>0, <3>3, Division
      <4>. QED
        BY <1>0, <4>1 DEF ByteValues
    <3>5. ASSUME ~ (k < need) PROVE u % C = 0
      <4>1. need * ByteBits <= k * ByteBits
        <5>1. (k - need) * ByteBits >= 0
          BY <1>0, <1>3, <3>5
        <5>2. (k - need) * ByteBits = k * ByteBits - need * ByteBits
          BY <1>0, <1>3
        <5>. QED
          BY <2>1, <3>1, <5>1, <5>2
      <4>2. V < p
        BY <2>2, <3>1, <4>1
      <4>. HIDE DEF p
      <4>3. (0 * p + V) \div p = 0
        BY <1>2, <3>2, <4>2, DivisionIs
      <4>4. 0 * p + V = V
        BY <1>2, <3>2
      <4>5. 0 % C = 0
        BY <1>0
      <4>. QED
        BY <4>3, <4>4, <4>5
    <3>. QED
      BY <3>4, <3>5
  <2>. HIDE DEF ByteOf
  <2>6. \A i \in 1..len : w[i] = Byte(len - i)
    <3>. SUFFICES ASSUME NEW i \in 1..len PROVE w[i] = Byte(len - i)
      OBVIOUS
    <3>1. len - i \in Nat
      OBVIOUS
    <3>. HIDE DEF C
    <3>2. ByteOf(len - i) = Byte(len - i) /\ (~ (len - i < need) => Byte(len - i) = 0)
      BY <2>4, <2>5, <3>1
    <3>. HIDE DEF Byte
    <3>. QED
      BY <3>2
  <2>. HIDE DEF Byte
  <2>7. w \in Seq(ByteValues) /\ Len(w) = len
    <3>1. \A i \in 1..len : len - i \in Nat
      OBVIOUS
    <3>2. \A i \in 1..len : w[i] \in ByteValues
      BY <2>5, <2>6, <3>1
    <3>3. w = [i \in 1..len |-> w[i]]
      OBVIOUS
    <3>. HIDE DEF w
    <3>4. w \in [1..len -> ByteValues]
      BY <3>2, <3>3
    <3>. QED
      BY <3>4
  <2>. HIDE DEF w
  <2> DEFINE e == [k \in 1..len |-> w[len + 1 - k]]
  <2>8. IsFlipped(e, w) /\ \A k \in 1..len : e[k] = (V \div Raised(C, k - 1)) % C
    <3>1. \A k \in 1..len : e[k] = w[len + 1 - k] /\ len + 1 - k \in 1..len /\ len - (len + 1 - k) = k - 1 /\ k - 1 \in Nat
      OBVIOUS
    <3>. HIDE DEF e
    <3>2. IsFlipped(e, w)
      BY <2>7, <3>1 DEF IsFlipped
    <3>3. ASSUME NEW k \in 1..len PROVE e[k] = (V \div Raised(C, k - 1)) % C
      <4>1. e[k] = Byte(k - 1) /\ k - 1 \in Nat
        BY <2>6, <3>1
      <4>2. Raised(C, k - 1) = TwoTo(ByteBits * (k - 1))
        BY <1>0, <4>1, RaisedTwice DEF TwoTo
      <4>3. ByteBits * (k - 1) = (k - 1) * ByteBits
        BY <1>0, <4>1
      <4>. QED
        BY <4>1, <4>2, <4>3 DEF Byte
    <3>. QED
      BY <3>2, <3>3
  <2>. HIDE DEF e
  <2>9. Positional(e, C, len) = V % Raised(C, len)
    BY <1>0, <1>2, <2>8, PosOfDigits
  <2>10. Raised(C, len) = TwoTo(len * ByteBits)
    <3>1. Raised(C, len) = TwoTo(ByteBits * len)
      BY <1>0, RaisedTwice DEF TwoTo
    <3>2. ByteBits * len = len * ByteBits
      BY <1>0
    <3>. QED
      BY <3>1, <3>2
  <2>11. V % TwoTo(len * ByteBits) = V
    <3> DEFINE m == TwoTo(len * ByteBits)
    <3>1. m \in Nat \ {0} /\ V < m
      BY <2>1, <2>3, PowerPositive
    <3>. HIDE DEF m
    <3>2. V % m = V
      BY <1>2, <3>1
    <3>. QED
      BY <3>2 DEF m
  <2>12. BytesValue(w) = V
    <3>1. BytesValue(w) = Positional(e, C, len)
      BY <2>7, <2>8, BytesAre
    <3>. QED
      BY <2>9, <2>10, <2>11, <3>1
  <2>13. ~ (V >= TwoTo(ByteBits * len))
    <3>1. ByteBits * len = len * ByteBits
      BY <1>0
    <3>. QED
      BY <1>2, <2>3, <3>1
  <2>14. BnToBytes(a, len) = w
    BY <1>1, <1>5 DEF w
  <2>. QED
    BY <2>7, <2>12, <2>13, <2>14 DEF V
<1>. QED
  BY <1>4, <1>5

(***************************************************************************)
(* raw_mod: the work buffer is the number's front, bit by bit, modulo m.   *)
(* Before a bit is shifted in it is below m, so that one limb more than m  *)
(* has is room for it, and after it subtracting m once is enough.          *)
(***************************************************************************)

LEMMA DoubledLimb ==
  ASSUME NEW x \in Limbs, NEW c \in 0..1
  PROVE  /\ x \div (LimbBase \div 2) \in 0..1 /\ (2 * x + c) % LimbBase \in Limbs
         /\ 2 * x + c = ((2 * x + c) % LimbBase) + (x \div (LimbBase \div 2)) * LimbBase
<1> DEFINE B == LimbBase
           h == LimbBase \div 2
           q == x \div h
           s == x % h
           y == 2 * s + c
<1>1. B \in Nat \ {0} /\ h \in Nat \ {0} /\ B = 2 * h /\ x \in Nat /\ x < B
  BY BaseIs DEF Limbs
<1>. HIDE DEF h
<1>2. x = q * h + s /\ q \in Nat /\ s \in Nat /\ s < h
  BY <1>1, Division
<1>. HIDE DEF q, s
<1>3. y \in Nat /\ y < B
  BY <1>1, <1>2
<1>4. 2 * x + c = q * B + y
  <2>1. q * B = 2 * (q * h)
    BY <1>1, <1>2
  <2>2. q * h \in Nat
    BY <1>1, <1>2
  <2>. QED
    BY <1>1, <1>2, <2>1, <2>2
<1>5. (q * B + y) % B = y
  <2>. HIDE DEF B, y
  <2>. QED
    BY <1>1, <1>2, <1>3, DivisionIs
<1>6. q < 2
  <2>1. q >= 2 => (q - 2) * h >= 0
    BY <1>1, <1>2
  <2>2. (q - 2) * h = q * h - 2 * h /\ q * h \in Nat
    BY <1>1, <1>2
  <2>. QED
    BY <1>1, <1>2, <2>1, <2>2
<1>7. q \in 0..1 /\ y \in Limbs
  <2>. HIDE DEF y
  <2>. QED
    BY <1>1, <1>2, <1>3, <1>6 DEF Limbs
<1>8. (2 * x + c) % B = y
  BY <1>4, <1>5
<1>9. 2 * x + c = y + q * B
  <2>1. q * B \in Nat
    BY <1>1, <1>2
  <2>. QED
    BY <1>3, <1>4, <2>1
<1>. HIDE DEF y
<1>. QED
  BY <1>7, <1>8, <1>9 DEF q, h

LEMMA DoublesUp ==
  ASSUME NEW p \in Int, NEW v \in Int, NEW r \in Int, NEW x \in Int, NEW c \in Int, NEW bit \in Int, p + c * r = 2 * v + bit
  PROVE  p + (2 * x + c) * r = 2 * (v + x * r) + bit
  OBVIOUS

ShiftedOut(w, bit, j) == IF j = 0 THEN bit ELSE w[j] \div (LimbBase \div 2)

(* Shifting a bit in doubles the number, in a buffer with room for it.     *)
LEMMA ShiftIs ==
  ASSUME NEW w \in Seq(Limbs), NEW bit \in 0..1
  PROVE  /\ ShiftIn(w, bit) \in Seq(Limbs) /\ Len(ShiftIn(w, bit)) = Len(w)
         /\ 2 * BnValue(w) + bit < Raised(LimbBase, Len(w)) => BnValue(ShiftIn(w, bit)) = 2 * BnValue(w) + bit
<1> DEFINE B == LimbBase
           n == Len(w)
           u == ShiftIn(w, bit)
           c(j) == ShiftedOut(w, bit, j)
           S == {m \in 0..n : Positional(u, B, m) + c(m) * Raised(B, m) = 2 * Positional(w, B, m) + bit}
<1>0. n \in Nat /\ DOMAIN w = 1..n /\ \A j \in 1..n : w[j] \in Limbs
  OBVIOUS
<1>1. \A j \in 1..n : w[j] \div (B \div 2) \in 0..1
  BY <1>0, DoubledLimb
<1>2. \A j \in 0..n : c(j) \in 0..1
  BY <1>1 DEF ShiftedOut
<1>3. \A j \in 1..n : u[j] = (2 * w[j] + c(j - 1)) % B
  <2>. SUFFICES ASSUME NEW j \in 1..n PROVE u[j] = (2 * w[j] + c(j - 1)) % B
    OBVIOUS
  <2>1. u[j] = (2 * w[j] + (IF j = 1 THEN bit ELSE w[j - 1] \div (LimbBase \div 2))) % LimbBase
    BY <1>0 DEF ShiftIn
  <2>2. j - 1 = 0 <=> j = 1
    BY <1>0
  <2>3. c(j - 1) = IF j = 1 THEN bit ELSE w[j - 1] \div (LimbBase \div 2)
    BY <2>2 DEF ShiftedOut
  <2>. QED
    BY <2>1, <2>3
<1>4. u \in Seq(Limbs) /\ Len(u) = n
  <2>1. \A j \in 1..n : u[j] \in Limbs
    <3>. SUFFICES ASSUME NEW j \in 1..n PROVE u[j] \in Limbs
      OBVIOUS
    <3>1. c(j - 1) \in 0..1
      <4>1. j - 1 \in 0..n
        BY <1>0
      <4>. QED
        BY <1>2, <4>1
    <3>. HIDE DEF c, u
    <3>. QED
      BY <1>0, <1>3, <3>1, DoubledLimb
  <2>2. u = [j \in 1..n |-> u[j]]
    BY <1>0 DEF ShiftIn
  <2>. HIDE DEF u
  <2>3. u \in [1..n -> Limbs]
    BY <2>1, <2>2
  <2>. QED
    BY <1>0, <2>3
<1>5. IsDigits(u, B, n) /\ IsDigits(w, B, n)
  BY <1>4, NumberIs
<1>6. c(0) = bit
  BY DEF ShiftedOut
<1>7. \A j \in 1..n : c(j) = w[j] \div (B \div 2)
  BY <1>0 DEF ShiftedOut
<1>. HIDE DEF c, u
<1>8. 0 \in S
  <2>1. Positional(u, B, 0) = 0 /\ Positional(w, B, 0) = 0 /\ Raised(B, 0) = 1
    BY PosStep, RaisedStep
  <2>. QED
    BY <1>0, <1>6, <2>1
<1>9. \A i \in 0..(n - 1) : i \in S => i + 1 \in S
  <2>. SUFFICES ASSUME NEW i \in 0..(n - 1), i \in S PROVE i + 1 \in S
    OBVIOUS
  <2> DEFINE r == Raised(B, i)
             x == w[i + 1]
             o == c(i)
             s == (2 * x + o) % B
             d == x \div (B \div 2)
             p == Positional(u, B, i)
             v == Positional(w, B, i)
  <2>1. i \in Nat /\ i + 1 \in 1..n /\ (i + 1) - 1 = i /\ i + 1 \in 0..n /\ i \in 0..n
    BY <1>0
  <2>2. x \in Limbs /\ o \in 0..1 /\ p + o * r = 2 * v + bit
    BY <1>0, <1>2, <2>1
  <2>3. d \in 0..1 /\ s \in Limbs /\ 2 * x + o = s + d * B
    BY <2>2, DoubledLimb
  <2>4. u[i + 1] = s /\ c(i + 1) = d
    BY <1>3, <1>7, <2>1
  <2>5. Positional(u, B, i + 1) = p + u[i + 1] * r
    BY <2>1, PosStep
  <2>6. Positional(w, B, i + 1) = v + x * r
    BY <2>1, PosStep
  <2>7. Raised(B, i + 1) = B * r
    BY <2>1, RaisedStep
  <2>8. r \in Nat /\ B \in Nat
    BY <2>1, BaseIs, RaisedPositive
  <2>9. p \in Nat /\ v \in Nat
    BY <1>0, <1>5, <2>1, BaseIs, PosBound
  <2>. HIDE DEF r, x, o, s, d, p, v, B
  <2>10. x \in Int /\ s \in Int /\ o \in Int /\ d \in Int
    BY <2>2, <2>3 DEF Limbs
  <2>11. (p + s * r) + d * (B * r) = p + (2 * x + o) * r
    <3> DEFINE t == 2 * x + o
    <3>1. t \in Int /\ t = s + d * B
      BY <2>3, <2>10
    <3>. HIDE DEF t
    <3>2. (p + s * r) + d * (B * r) = p + t * r
      BY <2>8, <2>9, <2>10, <3>1, CarryUp
    <3>. QED
      BY <3>2 DEF t
  <2>12. p + (2 * x + o) * r = 2 * (v + x * r) + bit
    BY <2>2, <2>8, <2>9, <2>10, DoublesUp
  <2>. QED
    BY <2>1, <2>4, <2>5, <2>6, <2>7, <2>11, <2>12
<1>. HIDE DEF S
<1>10. n \in S
  <2>1. 0..n \subseteq S
    BY <1>0, <1>8, <1>9, InductionUpTo
  <2>. QED
    BY <1>0, <2>1
<1>11. c(n) \in 0..1 /\ BnValue(u) + c(n) * Raised(B, n) = 2 * BnValue(w) + bit
  <2>1. BnValue(u) = Positional(u, B, n) /\ BnValue(w) = Positional(w, B, n)
    BY <1>4, NumberIs
  <2>. QED
    BY <1>0, <1>2, <1>10, <2>1 DEF S
<1>12. BnValue(u) \in Nat /\ BnValue(w) \in Nat /\ Raised(B, n) \in Nat
  BY <1>0, <1>4, NumberIs, BaseIs, RaisedPositive
<1>13. 2 * BnValue(w) + bit < Raised(B, n) => c(n) # 1
  BY <1>11, <1>12
<1>14. 2 * BnValue(w) + bit < Raised(B, n) => BnValue(u) = 2 * BnValue(w) + bit
  BY <1>11, <1>12, <1>13
<1>. QED
  BY <1>4, <1>14 DEF u

LEMMA ReduceIs ==
  ASSUME NEW w \in Seq(Limbs), NEW m \in Seq(Limbs)
  PROVE  /\ ReduceOnce(w, m) \in Seq(Limbs) /\ Len(ReduceOnce(w, m)) = Len(w)
         /\ BnValue(ReduceOnce(w, m)) = IF BnValue(w) >= BnValue(m) THEN BnValue(w) - BnValue(m) ELSE BnValue(w)
<1>1. BnValue(w) \in Nat /\ BnValue(m) \in Nat
  BY NumberIs
<1>2. BnCmp(w, m) >= 0 <=> BnValue(w) >= BnValue(m)
  BY <1>1, CompareIs DEF Comparison
<1>3. CASE BnValue(w) >= BnValue(m)
  <2>1. ReduceOnce(w, m) = Minus(w, m)
    BY <1>2, <1>3 DEF ReduceOnce
  <2>2. BnValue(m) <= BnValue(w)
    BY <1>1, <1>3
  <2>. QED
    BY <1>3, <2>1, <2>2, MinusIs
<1>4. CASE ~ (BnValue(w) >= BnValue(m))
  BY <1>2, <1>4 DEF ReduceOnce
<1>. QED
  BY <1>3, <1>4

Doubled(x, m, bit, y) == y = 2 * (x % m) + bit => (2 * x + bit) % m = IF y >= m THEN y - m ELSE y

LEMMA RemainderDoubles ==
  ASSUME NEW x \in Nat, NEW m \in Nat \ {0}, NEW bit \in 0..1, NEW y
  PROVE  Doubled(x, m, bit, y)
<1>. SUFFICES ASSUME y = 2 * (x % m) + bit PROVE (2 * x + bit) % m = IF y >= m THEN y - m ELSE y
  BY DEF Doubled
<1> DEFINE q == x \div m
           s == x % m
           z == y - m
<1>1. x = q * m + s /\ q \in Nat /\ s \in Nat /\ s < m
  BY Division
<1>0. y = 2 * s + bit
  OBVIOUS
<1>. HIDE DEF q, s
<1>2. y \in Nat /\ y < 2 * m /\ q * m \in Nat
  BY <1>0, <1>1
<1>3. CASE y < m
  <2>1. 2 * x + bit = (2 * q) * m + y
    BY <1>0, <1>1
  <2>2. 2 * q \in Int /\ y \in Int /\ 0 <= y
    BY <1>1, <1>2
  <2> DEFINE k == 2 * q
  <2>. HIDE DEF k
  <2>3. (k * m + y) % m = y
    BY <1>3, <2>2, DivisionIs DEF k
  <2>4. ~ (y >= m)
    BY <1>2, <1>3
  <2>. QED
    BY <2>1, <2>3, <2>4 DEF k
<1>4. CASE ~ (y < m)
  <2>1. 2 * x + bit = (2 * q + 1) * m + z
    BY <1>0, <1>1
  <2>2. 2 * q + 1 \in Int /\ z \in Int /\ 0 <= z /\ z < m
    BY <1>1, <1>2, <1>4
  <2> DEFINE k == 2 * q + 1
  <2>3. y >= m
    BY <1>2, <1>4
  <2>. HIDE DEF z, k
  <2>4. (k * m + z) % m = z
    BY <2>2, DivisionIs DEF k
  <2>. QED
    BY <2>1, <2>3, <2>4 DEF z, k
<1>. QED
  BY <1>3, <1>4

(* The equations of the recursive function in RawMod.                      *)
IsLongDivision(work, num, m) ==
  work = [k \in 0..BnBitLen(num) |->
            IF k = 0 THEN [j \in 1..(Len(m) + 1) |-> 0]
            ELSE ReduceOnce(ShiftIn(work[k - 1], BnBit(num, BnBitLen(num) - k)), m)]

LEMMA BitsAre ==
  ASSUME NEW a \in Seq(Limbs), NEW i \in Nat
  PROVE  BnBit(a, i) \in 0..1
<1> DEFINE q == BnValue(a) \div TwoTo(i)
<1>1. BnBit(a, i) = q % 2
  BY LimbBitIs
<1>2. q \in Nat
  BY NumberIs, PowerPositive, Division
<1>. HIDE DEF q
<1>3. q % 2 \in 0..1
  BY <1>2
<1>. QED
  BY <1>1, <1>3

(* The number read bit by bit from the top: each bit doubles the front.    *)
LEMMA FrontIs ==
  ASSUME NEW a \in Seq(Limbs), NEW j \in Nat
  PROVE  /\ BnValue(a) \div TwoTo(j) \in Nat /\ BnValue(a) \div TwoTo(j + 1) \in Nat
         /\ BnValue(a) \div TwoTo(j) = 2 * (BnValue(a) \div TwoTo(j + 1)) + BnBit(a, j)
<1> DEFINE p == TwoTo(j)
           V == BnValue(a)
           z == V \div p
           x == V \div TwoTo(j + 1)
           bit == BnBit(a, j)
<1>1. p \in Nat \ {0} /\ TwoTo(j + 1) = 2 * p /\ V \in Nat
  BY PowerStep, PowerPositive, NumberIs
<1>2. bit = z % 2
  BY LimbBitIs
<1>3. x = V \div (p * 2)
  <2>1. 2 * p = p * 2
    BY <1>1
  <2>. QED
    BY <1>1, <2>1
<1>. HIDE DEF p, x, bit
<1>4. z \div 2 = x /\ z \in Nat
  <2>1. V \in Nat /\ p \in Nat \ {0} /\ 2 \in Nat \ {0}
    BY <1>1
  <2>. HIDE DEF V
  <2>2. (V \div p) \div 2 = V \div (p * 2)
    BY ONLY <2>1, DividesTwice
  <2>3. V \div p \in Nat
    BY ONLY <2>1, Division
  <2>. QED
    BY <1>3, <2>2, <2>3
<1>. HIDE DEF z
<1>5. z = (z \div 2) * 2 + (z % 2) /\ z \div 2 \in Nat
  BY <1>4
<1>6. z = 2 * x + bit /\ x \in Nat /\ z \in Nat
  BY <1>2, <1>4, <1>5
<1>. QED
  BY <1>6 DEF z, x, bit, p

(* Work buffers one limb wider than the modulus.                           *)
Buffers(m) == {w \in Seq(Limbs) : Len(w) = Len(m) + 1}

LEMMA LongDivisionExists ==
  ASSUME NEW num \in Seq(Limbs), NEW m \in Seq(Limbs)
  PROVE  \E work \in [0..BnBitLen(num) -> Buffers(m)] : IsLongDivision(work, num, m)
<1> DEFINE bits == BnBitLen(num)
           c == [j \in 1..(Len(m) + 1) |-> 0]
           S == Buffers(m)
           step == [p \in S \X (1..bits) |-> ReduceOnce(ShiftIn(p[1], BnBit(num, bits - p[2])), m)]
<1>0. bits \in Nat
  BY BitLenIs
<1>. HIDE DEF bits
<1>1. c \in S
  <2>1. 0 \in Limbs /\ Len(m) + 1 \in Nat
    BY BaseIs DEF Limbs
  <2>2. c \in Seq(Limbs) /\ Len(c) = Len(m) + 1
    BY <2>1
  <2>. QED
    BY <2>2 DEF Buffers
<1>2. \A w \in S, i \in 1..bits : ReduceOnce(ShiftIn(w, BnBit(num, bits - i)), m) \in S
  <2>. SUFFICES ASSUME NEW w \in S, NEW i \in 1..bits PROVE ReduceOnce(ShiftIn(w, BnBit(num, bits - i)), m) \in S
    OBVIOUS
  <2>1. bits - i \in Nat
    BY <1>0
  <2>2. BnBit(num, bits - i) \in 0..1 /\ w \in Seq(Limbs) /\ Len(w) = Len(m) + 1
    BY <2>1, BitsAre DEF Buffers
  <2> DEFINE u == ShiftIn(w, BnBit(num, bits - i))
  <2>3. u \in Seq(Limbs) /\ Len(u) = Len(m) + 1
    BY <2>2, ShiftIs
  <2>. HIDE DEF u
  <2>4. ReduceOnce(u, m) \in Seq(Limbs) /\ Len(ReduceOnce(u, m)) = Len(m) + 1
    BY <2>3, ReduceIs
  <2>. QED
    BY <2>4 DEF Buffers, u
<1>3. step \in [S \X (1..bits) -> S]
  <2>. HIDE DEF S
  <2>1. \A p \in S \X (1..bits) : p[1] \in S /\ p[2] \in 1..bits
    OBVIOUS
  <2>. QED
    BY <1>2, <2>1
<1>4. \A w \in S, i \in 1..bits : step[<<w, i>>] = ReduceOnce(ShiftIn(w, BnBit(num, bits - i)), m)
  OBVIOUS
<1>. HIDE DEF step, S, c
<1>5. PICK g \in [0..bits -> S] : Iterates(g, c, step, bits)
  BY <1>0, <1>1, <1>3, IterationExists
<1>6. g = [i \in 0..bits |-> IF i = 0 THEN c ELSE step[<<g[i - 1], i>>]]
  BY <1>5 DEF Iterates
<1>7. \A i \in 0..bits : i # 0 => g[i - 1] \in S /\ i \in 1..bits
  BY <1>0, <1>5
<1> DEFINE Worked(i) == IF i = 0 THEN c ELSE ReduceOnce(ShiftIn(g[i - 1], BnBit(num, bits - i)), m)
<1>8. \A i \in 0..bits : g[i] = Worked(i)
  BY <1>4, <1>6, <1>7
<1>9. g = [i \in 0..bits |-> Worked(i)]
  <2>. HIDE DEF Worked
  <2>. QED
    BY <1>5, <1>8
<1>. QED
  BY <1>5, <1>9 DEF IsLongDivision, bits, c, S

(* The buffer after k bits is the front of k bits modulo m.                *)
LEMMA LongDivisionIs ==
  ASSUME NEW num \in Seq(Limbs), NEW m \in Seq(Limbs), BnValue(m) > 0,
         NEW work \in [0..BnBitLen(num) -> Buffers(m)], IsLongDivision(work, num, m)
  PROVE  BnValue(work[BnBitLen(num)]) = BnValue(num) % BnValue(m)
<1> DEFINE bits == BnBitLen(num)
           V == BnValue(num)
           M == BnValue(m)
           TopBits(k) == V \div TwoTo(bits - k)
           S == {k \in 0..bits : BnValue(work[k]) = TopBits(k) % M}
<1>0. bits \in Nat /\ V \in Nat /\ V < TwoTo(bits) /\ M \in Nat \ {0} /\ M < Raised(LimbBase, Len(m))
  BY BitLenIs, NumberIs
<1>1. \A k \in 0..bits : work[k] \in Seq(Limbs) /\ Len(work[k]) = Len(m) + 1
  BY DEF Buffers
<1>2. work[0] = [j \in 1..(Len(m) + 1) |-> 0]
  BY <1>0 DEF IsLongDivision
<1>3. \A k \in 1..bits : work[k] = ReduceOnce(ShiftIn(work[k - 1], BnBit(num, bits - k)), m)
  <2>1. \A k \in 1..bits : k \in 0..bits /\ k # 0
    BY <1>0
  <2>. QED
    BY <2>1 DEF IsLongDivision
<1>. HIDE DEF bits, V, M
<1>4. 0 \in S
  <2>1. BnValue(work[0]) = 0
    <3> DEFINE w == work[0]
    <3>1. w \in Seq(Limbs) /\ Len(w) = Len(m) + 1 /\ \A i \in 1..Len(w) : w[i] = 0
      BY <1>0, <1>1, <1>2
    <3>. HIDE DEF w
    <3>2. Len(w) \in Nat /\ 0 \in 0..Len(w) /\ IsDigits(w, LimbBase, 0) /\ \A i \in (0 + 1)..Len(w) : w[i] = 0
      BY <3>1 DEF IsDigits
    <3>3. Positional(w, LimbBase, Len(w)) = Positional(w, LimbBase, 0)
      BY <3>2, BaseIs, PosZeros
    <3>4. BnValue(w) = 0
      BY <3>1, <3>3, PosStep, NumberIs
    <3>. QED
      BY <3>4 DEF w
  <2>2. TopBits(0) = 0
    <3> DEFINE p == TwoTo(bits - 0)
    <3>1. p \in Nat \ {0} /\ V < p
      BY <1>0, PowerPositive
    <3>. HIDE DEF p
    <3>2. (0 * p + V) \div p = 0
      <4>1. p \in Nat \ {0} /\ 0 \in Int /\ V \in Int /\ 0 <= V /\ V < p
        BY <1>0, <3>1
      <4>. QED
        BY ONLY <4>1, DivisionIs
    <3>3. 0 * p + V = V
      BY <1>0, <3>1
    <3>. QED
      BY <3>2, <3>3 DEF p
  <2>3. 0 % M = 0
    BY <1>0
  <2>. QED
    BY <1>0, <2>1, <2>2, <2>3
<1>5. \A i \in 0..(bits - 1) : i \in S => i + 1 \in S
  <2>. SUFFICES ASSUME NEW i \in 0..(bits - 1), i \in S PROVE i + 1 \in S
    OBVIOUS
  <2> DEFINE w == work[i]
             j == bits - (i + 1)
             bit == BnBit(num, j)
             u == ShiftIn(w, bit)
             x == TopBits(i)
             z == TopBits(i + 1)
             y == 2 * BnValue(w) + bit
  <2>1. i \in 0..bits /\ i + 1 \in 1..bits /\ i + 1 \in 0..bits /\ (i + 1) - 1 = i /\ j \in Nat /\ j + 1 = bits - i
    BY <1>0
  <2>2. w \in Seq(Limbs) /\ Len(w) = Len(m) + 1 /\ bit \in 0..1
    BY <1>1, <2>1, BitsAre
  <2>3. BnValue(w) = x % M
    OBVIOUS
  <2>4. z \in Nat /\ z = 2 * x + bit /\ x \in Nat
    BY <2>1, FrontIs DEF V
  <2>. HIDE DEF w, j, bit, x, z
  <2>5. BnValue(w) < M /\ BnValue(w) \in Nat
    BY <1>0, <2>3, <2>4, Division
  <2>6. y < Raised(LimbBase, Len(w))
    <3> DEFINE n == Len(m)
               r == Raised(LimbBase, n)
    <3>1. n \in Nat /\ r \in Nat /\ Raised(LimbBase, n + 1) = LimbBase * r
      <4>1. n \in Nat
        OBVIOUS
      <4>2. Raised(LimbBase, n + 1) = LimbBase * r
        BY <4>1, RaisedStep
      <4>3. LimbBase \in Nat \ {0}
        BY BaseIs
      <4>. QED
        BY <4>1, <4>2, <4>3, RaisedPositive
    <3>2. M < r
      BY <1>0
    <3>. HIDE DEF n, r
    <3>3. LimbBase \in Nat /\ LimbBase >= 2
      BY BaseIs
    <3>4. (LimbBase - 2) * r >= 0 /\ (LimbBase - 2) * r = LimbBase * r - 2 * r /\ LimbBase * r \in Nat
      BY <3>1, <3>3
    <3>5. y < LimbBase * r
      <4> DEFINE v == BnValue(w)
                 br == LimbBase * r
      <4>1. v \in Nat /\ v < M /\ bit \in 0..1 /\ M \in Nat /\ r \in Nat /\ br \in Nat /\ br >= 2 * r
        <5>1. (LimbBase - 2) * r \in Int
          BY <3>1, <3>3
        <5>. QED
          BY <1>0, <2>2, <2>5, <3>1, <3>4, <5>1
      <4>. HIDE DEF v, br
      <4>2. 2 * v + bit < br
        BY <3>2, <4>1
      <4>. QED
        BY <4>2 DEF v, br
    <3>. QED
      BY <2>2, <3>1, <3>5 DEF n
  <2>7. u \in Seq(Limbs) /\ BnValue(u) = y
    BY <2>2, <2>6, ShiftIs
  <2>8. work[i + 1] = ReduceOnce(u, m)
    BY <1>3, <2>1 DEF w, bit, j
  <2>9. BnValue(work[i + 1]) = IF y >= M THEN y - M ELSE y
    <3>. HIDE DEF u, y
    <3>. QED
      BY <2>7, <2>8, ReduceIs DEF M
  <2>10. (2 * x + bit) % M = IF y >= M THEN y - M ELSE y
    <3>1. y = 2 * (x % M) + bit
      BY <2>3
    <3>. HIDE DEF y
    <3>2. x \in Nat /\ M \in Nat \ {0} /\ bit \in 0..1
      BY <1>0, <2>2, <2>4
    <3>3. Doubled(x, M, bit, y)
      BY <3>2, RemainderDoubles
    <3>. QED
      BY <3>1, <3>3 DEF Doubled
  <2>11. BnValue(work[i + 1]) = z % M
    BY <2>4, <2>9, <2>10
  <2>. QED
    BY <2>1, <2>11 DEF z
<1>. HIDE DEF S
<1>6. bits \in S
  <2>1. 0..bits \subseteq S
    BY <1>0, <1>4, <1>5, InductionUpTo
  <2>. QED
    BY <1>0, <2>1
<1>7. TopBits(bits) = V
  <2>1. bits - bits = 0 /\ V \div 1 = V
    BY <1>0
  <2>. QED
    BY <2>1, PowerStep
<1>. QED
  BY <1>6, <1>7 DEF S, bits, V, M

LEMMA LongDivisionStays ==
  ASSUME NEW num \in Seq(Limbs), NEW m \in Seq(Limbs),
         NEW g \in [0..BnBitLen(num) -> Buffers(m)], IsLongDivision(g, num, m), NEW h, IsLongDivision(h, num, m)
  PROVE  h \in [0..BnBitLen(num) -> Buffers(m)]
<1> DEFINE bits == BnBitLen(num)
<1>0. bits \in Nat
  BY BitLenIs
<1> DEFINE First == [j \in 1..(Len(m) + 1) |-> 0]
           Worked(x, k) == ReduceOnce(ShiftIn(x, BnBit(num, bits - k)), m)
           S == {k \in 0..bits : h[k] = g[k]}
<1>1. /\ g = [k \in 0..bits |-> IF k = 0 THEN First ELSE Worked(g[k - 1], k)]
      /\ h = [k \in 0..bits |-> IF k = 0 THEN First ELSE Worked(h[k - 1], k)]
  BY DEF IsLongDivision
<1>. HIDE DEF First, Worked, bits
<1>2. 0 \in S
  <2>1. g[0] = First /\ h[0] = First
    BY <1>0, <1>1
  <2>. QED
    BY <1>0, <2>1
<1>3. \A i \in 0..(bits - 1) : i \in S => i + 1 \in S
  <2>. SUFFICES ASSUME NEW i \in 0..(bits - 1), h[i] = g[i] PROVE h[i + 1] = g[i + 1] /\ i + 1 \in 0..bits
    OBVIOUS
  <2>1. i + 1 \in 0..bits /\ i + 1 # 0 /\ (i + 1) - 1 = i
    BY <1>0
  <2>2. h[i + 1] = Worked(h[i], i + 1) /\ g[i + 1] = Worked(g[i], i + 1)
    BY <1>1, <2>1
  <2>. QED
    BY <2>1, <2>2
<1>. HIDE DEF S
<1>4. 0..bits \subseteq S
  BY <1>0, <1>2, <1>3, InductionUpTo
<1>5. \A k \in 0..bits : h[k] \in Buffers(m)
  BY <1>4 DEF S, bits
<1>6. h = [k \in 0..bits |-> h[k]]
  BY <1>1
<1>. QED
  BY <1>5, <1>6 DEF bits

(* The limb beyond those of m is zero in the end.                          *)
LEMMA RawModIs ==
  ASSUME NEW num \in Seq(Limbs), NEW m \in Seq(Limbs), BnValue(m) > 0
  PROVE  /\ RawMod(num, m) \in Seq(Limbs) /\ Len(RawMod(num, m)) = Len(m)
         /\ BnValue(RawMod(num, m)) = BnValue(num) % BnValue(m)
<1> DEFINE bits == BnBitLen(num)
           n == Len(m)
           work[k \in 0..bits] == IF k = 0 THEN [j \in 1..(Len(m) + 1) |-> 0]
                                  ELSE ReduceOnce(ShiftIn(work[k - 1], BnBit(num, bits - k)), m)
           w == work[bits]
           v == SubSeq(w, 1, n)
<1>1. RawMod(num, m) = v
  BY DEF RawMod, LowLimbs
<1>2. IsLongDivision(work, num, m) /\ work \in [0..BnBitLen(num) -> Buffers(m)]
  <2>1. PICK g \in [0..BnBitLen(num) -> Buffers(m)] : IsLongDivision(g, num, m)
    BY LongDivisionExists
  <2>2. \E h : h = [k \in 0..bits |-> IF k = 0 THEN [j \in 1..(Len(m) + 1) |-> 0]
                                      ELSE ReduceOnce(ShiftIn(h[k - 1], BnBit(num, bits - k)), m)]
    BY <2>1 DEF IsLongDivision
  <2>3. IsLongDivision(work, num, m)
    BY <2>2 DEF IsLongDivision
  <2>. HIDE DEF work
  <2>. QED
    BY <2>1, <2>3, LongDivisionStays
<1>. HIDE DEF work
<1>3. BnValue(w) = BnValue(num) % BnValue(m) /\ w \in Seq(Limbs) /\ Len(w) = n + 1
  <2>1. BnValue(work[BnBitLen(num)]) = BnValue(num) % BnValue(m)
    BY <1>2, LongDivisionIs
  <2>2. bits \in Nat
    BY BitLenIs
  <2>3. work[bits] \in Buffers(m)
    BY <1>2, <2>2
  <2>. QED
    BY <2>1, <2>3 DEF Buffers
<1>. HIDE DEF w
<1>4. n \in Nat /\ BnValue(m) \in Nat \ {0} /\ BnValue(num) \in Nat /\ BnValue(m) < Raised(LimbBase, n)
  BY NumberIs
<1>5. v \in Seq(Limbs) /\ Len(v) = n /\ \A i \in 1..n : v[i] = w[i]
  BY <1>3, <1>4
<1>. HIDE DEF v
<1>6. BnValue(w) \in Nat /\ BnValue(w) < BnValue(m)
  BY <1>3, <1>4, Division
<1>7. BnValue(w) = BnValue(v) + w[n + 1] * Raised(LimbBase, n)
  <2>1. BnValue(w) = Positional(w, LimbBase, n + 1)
    BY <1>3, NumberIs
  <2>2. Positional(w, LimbBase, n + 1) = Positional(w, LimbBase, n) + w[n + 1] * Raised(LimbBase, n)
    BY <1>4, PosStep
  <2>3. SameTerms(w, v, n)
    BY <1>5 DEF SameTerms
  <2>4. Positional(w, LimbBase, n) = Positional(v, LimbBase, n)
    BY <1>4, <2>3, PosSame
  <2>. QED
    BY <1>5, <2>1, <2>2, <2>4, NumberIs
<1>8. w[n + 1] = 0
  <2> DEFINE d == w[n + 1]
             r == Raised(LimbBase, n)
  <2>1. d \in Nat
    <3>1. n + 1 \in 1..Len(w)
      BY <1>3, <1>4
    <3>2. d \in Limbs
      BY <1>3, <3>1
    <3>. QED
      BY <3>2 DEF Limbs
  <2>2. r \in Nat \ {0} /\ BnValue(v) \in Nat
    BY <1>4, <1>5, BaseIs, RaisedPositive, NumberIs
  <2>3. BnValue(w) = BnValue(v) + d * r /\ BnValue(w) < r
    BY <1>4, <1>6, <1>7, <2>2
  <2>. HIDE DEF d, r
  <2>4. d >= 1 => (d - 1) * r >= 0
    BY <2>1, <2>2
  <2>5. (d - 1) * r = d * r - r /\ d * r \in Nat
    BY <2>1, <2>2
  <2>6. d = 0
    BY <1>6, <2>1, <2>2, <2>3, <2>4, <2>5
  <2>. QED
    BY <2>6 DEF d
<1>9. BnValue(v) = BnValue(w)
  <2>1. 0 * Raised(LimbBase, n) = 0 /\ BnValue(v) \in Nat
    BY <1>4, <1>5, BaseIs, RaisedPositive, NumberIs
  <2>. QED
    BY <1>7, <1>8, <2>1
<1>. QED
  BY <1>1, <1>3, <1>5, <1>9

(***************************************************************************)
(* raw_mul: a double limb holds a product of limbs, a limb of the row and  *)
(* the carry, and row by row the array is the front of a times b.          *)
(***************************************************************************)

LEMMA ProductFits ==
  ASSUME NEW x \in Limbs, NEW y \in Limbs, NEW u \in Limbs, NEW c \in Limbs
  PROVE  x * y + u + c \in Nat /\ x * y + u + c < LimbBase * LimbBase
<1> DEFINE B == LimbBase
           xy == x * y
<1>1. B \in Nat \ {0} /\ x \in 0..(B - 1) /\ y \in 0..(B - 1) /\ u \in 0..(B - 1) /\ c \in 0..(B - 1)
  BY BaseIs DEF Limbs
<1>. HIDE DEF B
<1>2. ((B - 1) - x) * y >= 0 /\ (B - 1) * ((B - 1) - y) >= 0
  BY <1>1
<1>3. ((B - 1) - x) * y = (B - 1) * y - x * y /\ (B - 1) * ((B - 1) - y) = (B - 1) * (B - 1) - (B - 1) * y
  BY <1>1
<1>4. (B - 1) * (B - 1) = B * B - 2 * B + 1 /\ B * B \in Nat /\ xy \in Nat /\ (B - 1) * y \in Nat
  BY <1>1
<1>. HIDE DEF xy
<1>5. xy <= B * B - 2 * B + 1
  BY <1>1, <1>2, <1>3, <1>4 DEF xy
<1>6. xy + u + c \in Nat /\ xy + u + c < B * B
  BY <1>1, <1>4, <1>5
<1>. QED
  BY <1>6 DEF xy, B

(* Arrays of n limbs.                                                      *)
Arrays(n) == {w \in Seq(Limbs) : Len(w) = n}

(* The equations of the carry, of a row and of all rows.                   *)
IsMulCarry(g, out, a, b, i) ==
  g = [j \in 0..Len(b) |->
         IF j = 0 THEN 0 ELSE Wide(a[i] * b[j] + out[i + j - 1] + g[j - 1]) \div LimbBase]

LEMMA MulCarryExists ==
  ASSUME NEW a \in Seq(Limbs), NEW b \in Seq(Limbs), NEW i \in 1..Len(a), NEW out \in Arrays(Len(a) + Len(b))
  PROVE  \E g \in [0..Len(b) -> Limbs] : IsMulCarry(g, out, a, b, i)
<1> DEFINE n == Len(b)
           step == [p \in Limbs \X (1..n) |-> Wide(a[i] * b[p[2]] + out[i + p[2] - 1] + p[1]) \div LimbBase]
<1>0. n \in Nat /\ a[i] \in Limbs /\ out \in Seq(Limbs) /\ Len(out) = Len(a) + n
  BY DEF Arrays
<1>1. \A c \in Limbs, j \in 1..n : Wide(a[i] * b[j] + out[i + j - 1] + c) \div LimbBase \in Limbs
  <2>. SUFFICES ASSUME NEW c \in Limbs, NEW j \in 1..n
                PROVE  Wide(a[i] * b[j] + out[i + j - 1] + c) \div LimbBase \in Limbs
    OBVIOUS
  <2>1. i + j - 1 \in 1..Len(out)
    BY <1>0
  <2>2. out[i + j - 1] \in Limbs /\ b[j] \in Limbs
    BY <1>0, <2>1
  <2> DEFINE t == a[i] * b[j] + out[i + j - 1] + c
  <2>3. t \in Nat /\ t < LimbBase * LimbBase
    BY <1>0, <2>2, ProductFits
  <2>. HIDE DEF t
  <2>4. Wide(t) = t /\ t \div LimbBase \in Limbs
    BY <2>3, WideIs
  <2>. QED
    BY <2>4 DEF t
<1>. HIDE DEF n
<1>2. step \in [Limbs \X (1..n) -> Limbs]
  <2>1. \A p \in Limbs \X (1..n) : p[1] \in Limbs /\ p[2] \in 1..n
    OBVIOUS
  <2>. QED
    BY <1>1, <2>1
<1>3. \A c \in Limbs, j \in 1..n : step[<<c, j>>] = Wide(a[i] * b[j] + out[i + j - 1] + c) \div LimbBase
  OBVIOUS
<1>. HIDE DEF step
<1>4. PICK g \in [0..n -> Limbs] : Iterates(g, 0, step, n)
  <2>1. 0 \in Limbs
    BY BaseIs DEF Limbs
  <2>. QED
    BY <1>0, <1>2, <2>1, IterationExists
<1>5. g = [j \in 0..n |-> IF j = 0 THEN 0 ELSE step[<<g[j - 1], j>>]]
  BY <1>4 DEF Iterates
<1>6. \A j \in 0..n : j # 0 => g[j - 1] \in Limbs /\ j \in 1..n
  BY <1>0, <1>4
<1> DEFINE CarryAt(j) == IF j = 0 THEN 0 ELSE Wide(a[i] * b[j] + out[i + j - 1] + g[j - 1]) \div LimbBase
<1>7. \A j \in 0..n : g[j] = CarryAt(j)
  BY <1>3, <1>5, <1>6
<1>8. g = [j \in 0..n |-> CarryAt(j)]
  <2>. HIDE DEF CarryAt
  <2>. QED
    BY <1>4, <1>7
<1>. QED
  BY <1>4, <1>8 DEF IsMulCarry, n

LEMMA RowUp ==
  ASSUME NEW pn \in Int, NEW po \in Int, NEW pb \in Int, NEW x \in Int, NEW y \in Int, NEW u \in Int, NEW c \in Int,
         NEW ri \in Int, NEW rj \in Int, pn + c * (ri * rj) = po + (x * ri) * pb
  PROVE  pn + (x * y + u + c) * (ri * rj) = (po + u * (ri * rj)) + (x * ri) * (pb + y * rj)
<1>1. (x * y + u + c) * (ri * rj) = (x * y) * (ri * rj) + u * (ri * rj) + c * (ri * rj)
  OBVIOUS
<1>2. (x * ri) * (pb + y * rj) = (x * ri) * pb + (x * ri) * (y * rj)
  OBVIOUS
<1>3. (x * ri) * (y * rj) = (x * y) * (ri * rj)
  OBVIOUS
<1> DEFINE p1 == (x * y) * (ri * rj)
           p2 == u * (ri * rj)
           p3 == c * (ri * rj)
           p4 == (x * ri) * pb
           z1 == (x * y + u + c) * (ri * rj)
           z2 == (x * ri) * (pb + y * rj)
<1>4. z1 = p1 + p2 + p3 /\ z2 = p4 + p1 /\ pn + p3 = po + p4
  BY <1>1, <1>2, <1>3
<1>5. p1 \in Int /\ p2 \in Int /\ p3 \in Int /\ p4 \in Int /\ z1 \in Int /\ z2 \in Int
  OBVIOUS
<1>. HIDE DEF p1, p2, p3, p4, z1, z2
<1>6. pn + z1 = (po + p2) + z2
  BY <1>4, <1>5
<1>. QED
  BY <1>6 DEF p2, z1, z2

IsRow(new, carry, out, a, b, i) ==
  new = [k \in DOMAIN out |->
           CASE k \in i..(i + Len(b) - 1) -> Wide(a[i] * b[k - i + 1] + out[k] + carry[k - i]) % LimbBase
             [] k = i + Len(b)            -> carry[Len(b)]
             [] OTHER                     -> out[k]]

RowAdded(new, carry, out, a, b, i, j) ==
  /\ carry[j] \in Limbs /\ IsDigits(new, LimbBase, (i - 1) + j)
  /\ Positional(new, LimbBase, (i - 1) + j) + carry[j] * Raised(LimbBase, (i - 1) + j)
       = Positional(out, LimbBase, (i - 1) + j) + (a[i] * Raised(LimbBase, i - 1)) * Positional(b, LimbBase, j)

RowDone(new, carry, out, a, b, i) ==
  /\ new \in Arrays(Len(a) + Len(b))
  /\ RowAdded(new, carry, out, a, b, i, Len(b))
  /\ new[i + Len(b)] = carry[Len(b)]
  /\ \A k \in (i + Len(b) + 1)..(Len(a) + Len(b)) : new[k] = out[k]

(* One row, by induction on the limb of b.                                 *)
LEMMA RowIs ==
  ASSUME NEW a \in Seq(Limbs), NEW b \in Seq(Limbs), NEW i \in 1..Len(a), NEW out \in Arrays(Len(a) + Len(b)),
         NEW carry, IsMulCarry(carry, out, a, b, i), NEW new, IsRow(new, carry, out, a, b, i)
  PROVE  RowDone(new, carry, out, a, b, i)
<1> DEFINE n == Len(b)
           B == LimbBase
           size == Len(a) + n
           x == a[i]
           p == i - 1
           ri == Raised(B, p)
           S == {j \in 0..n : RowAdded(new, carry, out, a, b, i, j)}
<1>0. /\ n \in Nat /\ x \in Limbs /\ out \in Seq(Limbs) /\ Len(out) = size /\ size \in Nat /\ DOMAIN out = 1..size
      /\ p \in Nat /\ i = p + 1 /\ p + 1 + n <= size /\ i \in 1..Len(a) /\ i + n = p + 1 + n
  BY DEF Arrays
<1>1. /\ carry[0] = 0
      /\ \A j \in 1..n : carry[j] = Wide(x * b[j] + out[i + j - 1] + carry[j - 1]) \div B
  <2>1. \A j \in 1..n : j \in 0..n /\ j # 0
    BY <1>0
  <2>2. 0 \in 0..n
    BY <1>0
  <2>. QED
    BY <2>1, <2>2 DEF IsMulCarry
<1>2. /\ \A k \in 1..size : k \in i..(i + n - 1) => new[k] = Wide(x * b[k - i + 1] + out[k] + carry[k - i]) % B
      /\ \A k \in 1..size : k = i + n => new[k] = carry[n]
      /\ \A k \in 1..size : ~(k \in i..(i + n - 1)) /\ k # i + n => new[k] = out[k]
  <2>1. \A k : k \in i..(i + n - 1) => k # i + n
    BY <1>0
  <2>. QED
    BY <1>0, <2>1 DEF IsRow
<1>3. 0 \in S
  <2>1. SameTerms(new, out, p)
    <3>1. \A k \in 1..p : k \in 1..size /\ ~(k \in i..(i + n - 1)) /\ k # i + n
      BY <1>0
    <3>. QED
      BY <1>2, <3>1 DEF SameTerms
  <2>2. Positional(new, B, p) = Positional(out, B, p)
    BY <1>0, <2>1, PosSame
  <2>3. Positional(b, B, 0) = 0
    BY PosStep
  <2>4. x \in Nat /\ ri \in Nat /\ 0 \in Limbs
    <3>1. ri \in Nat
      BY <1>0, BaseIs, RaisedPositive
    <3>. HIDE DEF ri
    <3>2. x \in Nat /\ 0 \in Limbs
      BY <1>0, BaseIs DEF Limbs
    <3>. QED
      BY <3>1, <3>2
  <2>5. IsDigits(out, B, p) /\ p \in 0..p
    <3>1. \A k \in 1..p : k \in 1..Len(out)
      BY <1>0
    <3>2. \A k \in 1..Len(out) : out[k] \in Limbs
      BY <1>0
    <3>. QED
      BY <1>0, <3>1, <3>2 DEF IsDigits, Limbs
  <2>6. Positional(out, B, p) \in Nat
    BY <1>0, <2>5, BaseIs, PosBound
  <2>7. (x * ri) * 0 = 0 /\ 0 * ri = 0 /\ p + 0 = p
    BY <1>0, <2>4
  <2> DEFINE po == Positional(out, B, p)
             pn == Positional(new, B, p)
             z == (x * ri) * 0
             y == 0 * ri
  <2>8. pn = po /\ po \in Nat /\ z = 0 /\ y = 0
    BY <2>2, <2>6, <2>7
  <2>. HIDE DEF po, pn, z, y
  <2>9. pn + y = po + z
    BY <2>8
  <2>10. IsDigits(new, B, p + 0)
    BY <2>1, <2>5, <2>7 DEF IsDigits, SameTerms
  <2>. QED
    BY <1>0, <1>1, <2>3, <2>4, <2>7, <2>9, <2>10 DEF RowAdded, po, pn, z, y
<1>4. \A j \in 0..(n - 1) : j \in S => j + 1 \in S
  <2>. SUFFICES ASSUME NEW j \in 0..(n - 1), j \in S PROVE j + 1 \in S
    OBVIOUS
  <2> DEFINE rj == Raised(B, j)
             r == Raised(B, p + j)
             c == carry[j]
             y == b[j + 1]
             u == out[p + j + 1]
             t == x * y + u + c
             d == t \div B
             s == t % B
             pn == Positional(new, B, p + j)
             po == Positional(out, B, p + j)
             pb == Positional(b, B, j)
  <2>1. /\ j \in Nat /\ j + 1 \in 1..n /\ j + 1 \in 0..n /\ (j + 1) - 1 = j /\ p + j \in Nat /\ p + (j + 1) = (p + j) + 1
        /\ i + (j + 1) - 1 = p + j + 1 /\ p + j + 1 \in 1..size /\ p + j + 1 \in i..(i + n - 1)
        /\ (p + j + 1) - i + 1 = j + 1 /\ (p + j + 1) - i = j
    BY <1>0
  <2>2. c \in Limbs /\ pn + c * r = po + (x * ri) * pb
    BY DEF RowAdded
  <2>3. y \in Limbs /\ u \in Limbs
    BY <1>0, <2>1
  <2>4. t \in Nat /\ t < B * B
    BY <1>0, <2>2, <2>3, ProductFits
  <2>5. carry[j + 1] = Wide(t) \div B
    <3>1. carry[j + 1] = Wide(x * b[j + 1] + out[i + (j + 1) - 1] + carry[(j + 1) - 1]) \div B
      BY <1>1, <2>1
    <3>. QED
      BY <2>1, <3>1
  <2>6. new[p + j + 1] = Wide(t) % B
    <3>1. new[p + j + 1] = Wide(x * b[(p + j + 1) - i + 1] + out[p + j + 1] + carry[(p + j + 1) - i]) % B
      BY <1>2, <2>1
    <3>. QED
      BY <2>1, <3>1
  <2>. HIDE DEF t
  <2>7. Wide(t) = t /\ d \in Limbs /\ s \in Limbs /\ t = s + d * B
    BY <2>4, WideIs
  <2>8. /\ Positional(new, B, (p + j) + 1) = pn + new[(p + j) + 1] * r
        /\ Positional(out, B, (p + j) + 1) = po + u * r
    BY <2>1, PosStep
  <2>9. Positional(b, B, j + 1) = pb + y * rj
    BY <2>1, PosStep
  <2>10. Raised(B, (p + j) + 1) = B * r
    BY <2>1, RaisedStep
  <2>11. r = ri * rj
    BY <1>0, <2>1, BaseIs, RaisedAdds
  <2>12. ri \in Nat /\ rj \in Nat /\ r \in Nat /\ B \in Nat
    BY <1>0, <2>1, BaseIs, RaisedPositive
  <2>13. po \in Nat /\ pb \in Nat
    <3>1. IsDigits(out, B, p + j) /\ IsDigits(b, B, j) /\ p + j \in 0..(p + j) /\ j \in 0..j
      <4>1. \A k \in 1..(p + j) : k \in 1..Len(out)
        BY <1>0, <2>1
      <4>2. \A k \in 1..j : k \in 1..Len(b)
        BY <1>0, <2>1
      <4>3. \A k \in 1..Len(out) : out[k] \in Limbs
        BY <1>0
      <4>4. \A k \in 1..Len(b) : b[k] \in Limbs
        OBVIOUS
      <4>. QED
        BY <2>1, <4>1, <4>2, <4>3, <4>4 DEF IsDigits, Limbs
    <3>. QED
      BY <2>1, <3>1, BaseIs, PosBound
  <2>14. new[(p + j) + 1] = s /\ carry[j + 1] = d
    BY <2>5, <2>6, <2>7
  <2>15. x \in Int /\ y \in Int /\ u \in Int /\ c \in Int /\ s \in Int /\ d \in Int
    BY <1>0, <2>2, <2>3, <2>7 DEF Limbs
  <2>16. IsDigits(new, B, (p + j) + 1) /\ pn \in Int
    <3>1. IsDigits(new, B, p + j)
      BY DEF RowAdded
    <3>2. \A k \in 1..((p + j) + 1) : k \in 1..(p + j) \/ k = p + j + 1
      BY <2>1
    <3>3. s \in 0..(B - 1)
      BY <2>7 DEF Limbs
    <3>4. p + j \in 0..(p + j)
      BY <2>1
    <3>5. pn \in Nat
      BY <2>1, <3>1, <3>4, BaseIs, PosBound
    <3>. HIDE DEF s, pn
    <3>6. IsDigits(new, B, (p + j) + 1)
      BY <2>14, <3>1, <3>2, <3>3 DEF IsDigits
    <3>. QED
      BY <3>5, <3>6
  <2>. HIDE DEF ri, rj, r, c, y, u, d, s, pn, po, pb, x, B
  <2>17. pn + (x * y + u + c) * (ri * rj) = (po + u * (ri * rj)) + (x * ri) * (pb + y * rj)
    <3>1. pn + c * (ri * rj) = po + (x * ri) * pb
      BY <2>2, <2>11
    <3>. QED
      BY <2>12, <2>13, <2>15, <2>16, <3>1, RowUp
  <2>18. (pn + s * r) + d * (B * r) = pn + t * r
    <3>1. t \in Int
      BY <2>4
    <3>. QED
      BY <2>7, <2>12, <2>15, <2>16, <3>1, CarryUp
  <2>19. (pn + s * r) + d * (B * r) = (po + u * r) + (x * ri) * (pb + y * rj)
    BY <2>11, <2>17, <2>18 DEF t
  <2>20. Positional(new, B, p + (j + 1)) + carry[j + 1] * Raised(B, p + (j + 1))
           = Positional(out, B, p + (j + 1)) + (x * ri) * Positional(b, B, j + 1)
    BY <2>1, <2>8, <2>9, <2>10, <2>14, <2>19
  <2>21. RowAdded(new, carry, out, a, b, i, j + 1)
    BY <2>1, <2>7, <2>14, <2>16, <2>20 DEF RowAdded, x, ri, p, B
  <2>. QED
    BY <2>1, <2>21
<1>. HIDE DEF S
<1>5. 0..n \subseteq S
  BY <1>0, <1>3, <1>4, InductionUpTo
<1>6. RowAdded(new, carry, out, a, b, i, n)
  BY <1>0, <1>5 DEF S
<1>7. \A k \in 1..size : new[k] \in Limbs
  <2>. SUFFICES ASSUME NEW k \in 1..size PROVE new[k] \in Limbs
    OBVIOUS
  <2>1. CASE k \in 1..(p + n)
    BY <1>6, <2>1 DEF RowAdded, IsDigits, Limbs
  <2>2. CASE k = i + n
    BY <1>2, <1>6, <2>2 DEF RowAdded
  <2>3. CASE k > i + n
    <3>1. ~(k \in i..(i + n - 1)) /\ k # i + n
      BY <1>0, <2>3
    <3>. QED
      BY <1>0, <1>2, <3>1
  <2>4. k \in 1..(p + n) \/ k = i + n \/ k > i + n
    <3>1. i + n = (p + n) + 1 /\ k \in Nat /\ k >= 1 /\ p + n \in Nat
      BY <1>0
    <3>. HIDE DEF p, n
    <3>. QED
      BY <3>1
  <2>. QED
    BY ONLY <2>1, <2>2, <2>3, <2>4
<1>8. new = [k \in 1..size |-> new[k]]
  BY <1>0 DEF IsRow
<1>9. new \in Seq(Limbs) /\ Len(new) = size
  BY <1>0, <1>7, <1>8
<1>10. i + n \in 1..size /\ \A k \in (i + n + 1)..size : k \in 1..size /\ ~(k \in i..(i + n - 1)) /\ k # i + n
  BY <1>0
<1>11. new[i + n] = carry[n] /\ \A k \in (i + n + 1)..size : new[k] = out[k]
  BY <1>2, <1>10
<1>. QED
  BY <1>6, <1>9, <1>11 DEF RowDone, Arrays

LEMMA MulRowIs ==
  ASSUME NEW a \in Seq(Limbs), NEW b \in Seq(Limbs), NEW i \in 1..Len(a), NEW out \in Arrays(Len(a) + Len(b))
  PROVE  /\ MulRow(out, a, b, i) \in Arrays(Len(a) + Len(b))
         /\ Positional(MulRow(out, a, b, i), LimbBase, i + Len(b))
              = Positional(out, LimbBase, (i - 1) + Len(b)) + (a[i] * Raised(LimbBase, i - 1)) * BnValue(b)
         /\ IsDigits(MulRow(out, a, b, i), LimbBase, i + Len(b))
         /\ \A k \in (i + Len(b) + 1)..(Len(a) + Len(b)) : MulRow(out, a, b, i)[k] = out[k]
<1> DEFINE carry[j \in 0..Len(b)] ==
             IF j = 0 THEN 0 ELSE Wide(a[i] * b[j] + out[i + j - 1] + carry[j - 1]) \div LimbBase
           new == MulRow(out, a, b, i)
           n == Len(b)
           p == i - 1
<1>1. IsMulCarry(carry, out, a, b, i)
  <2>1. PICK g \in [0..Len(b) -> Limbs] : IsMulCarry(g, out, a, b, i)
    BY MulCarryExists
  <2>2. \E h : h = [j \in 0..Len(b) |->
                      IF j = 0 THEN 0 ELSE Wide(a[i] * b[j] + out[i + j - 1] + h[j - 1]) \div LimbBase]
    BY <2>1 DEF IsMulCarry
  <2>. QED
    BY <2>2 DEF IsMulCarry
<1>2. IsRow(new, carry, out, a, b, i)
  BY DEF MulRow, IsRow
<1>. HIDE DEF carry, new
<1>3. /\ new \in Arrays(Len(a) + Len(b))
      /\ RowAdded(new, carry, out, a, b, i, n)
      /\ new[i + n] = carry[n]
      /\ \A k \in (i + n + 1)..(Len(a) + n) : new[k] = out[k]
  <2>1. RowDone(new, carry, out, a, b, i)
    BY <1>1, <1>2, RowIs
  <2>. QED
    BY <2>1 DEF RowDone
<1>4. n \in Nat /\ p \in Nat /\ p + n \in Nat /\ (p + n) + 1 = i + n
  OBVIOUS
<1>5. Positional(new, LimbBase, (p + n) + 1) = Positional(new, LimbBase, p + n) + new[(p + n) + 1] * Raised(LimbBase, p + n)
  BY <1>4, PosStep
<1>6. Positional(b, LimbBase, n) = BnValue(b)
  BY NumberIs
<1>7. IsDigits(new, LimbBase, i + n)
  <2>1. \A k \in 1..(i + n) : k \in 1..(p + n) \/ k = i + n
    BY <1>4
  <2>2. carry[n] \in 0..(LimbBase - 1) /\ IsDigits(new, LimbBase, p + n)
    BY <1>3 DEF RowAdded, Limbs
  <2>. QED
    BY <1>3, <2>1, <2>2 DEF IsDigits
<1>8. Positional(new, LimbBase, i + n)
        = Positional(out, LimbBase, p + n) + (a[i] * Raised(LimbBase, p)) * BnValue(b)
  BY <1>3, <1>4, <1>5, <1>6 DEF RowAdded
<1>. QED
  BY <1>3, <1>7, <1>8 DEF new

IsProduct(rows, a, b) ==
  rows = [i \in 0..Len(a) |->
            IF i = 0 THEN [k \in 1..(Len(a) + Len(b)) |-> 0] ELSE MulRow(rows[i - 1], a, b, i)]

LEMMA ProductExists ==
  ASSUME NEW a \in Seq(Limbs), NEW b \in Seq(Limbs)
  PROVE  \E rows : IsProduct(rows, a, b)
<1> DEFINE n == Len(a)
           c == [k \in 1..(n + Len(b)) |-> 0]
           S == Arrays(n + Len(b))
           step == [q \in S \X (1..n) |-> MulRow(q[1], a, b, q[2])]
<1>1. n \in Nat /\ c \in S
  <2>1. 0 \in Limbs /\ n + Len(b) \in Nat /\ n \in Nat
    BY BaseIs DEF Limbs
  <2>2. c \in Seq(Limbs) /\ Len(c) = n + Len(b)
    BY <2>1
  <2>. QED
    BY <2>1, <2>2 DEF Arrays
<1>2. \A w \in S, i \in 1..n : MulRow(w, a, b, i) \in S
  BY MulRowIs
<1>. HIDE DEF S, c
<1>3. step \in [S \X (1..n) -> S]
  <2>1. \A q \in S \X (1..n) : q[1] \in S /\ q[2] \in 1..n
    OBVIOUS
  <2>. QED
    BY <1>2, <2>1
<1>4. \A w \in S, i \in 1..n : step[<<w, i>>] = MulRow(w, a, b, i)
  OBVIOUS
<1>. HIDE DEF step, n
<1>5. PICK g \in [0..n -> S] : Iterates(g, c, step, n)
  BY <1>1, <1>3, IterationExists
<1>6. g = [i \in 0..n |-> IF i = 0 THEN c ELSE step[<<g[i - 1], i>>]]
  BY <1>5 DEF Iterates
<1>7. \A i \in 0..n : i # 0 => g[i - 1] \in S /\ i \in 1..n
  BY <1>1, <1>5
<1> DEFINE RowAt(i) == IF i = 0 THEN c ELSE MulRow(g[i - 1], a, b, i)
<1>8. \A i \in 0..n : g[i] = RowAt(i)
  BY <1>4, <1>6, <1>7
<1>9. g = [i \in 0..n |-> RowAt(i)]
  <2>. HIDE DEF RowAt
  <2>. QED
    BY <1>5, <1>8
<1>. QED
  BY <1>9 DEF IsProduct, n, c

RowsAdded(rows, a, b, i) ==
  /\ rows[i] \in Arrays(Len(a) + Len(b))
  /\ IsDigits(rows[i], LimbBase, i + Len(b))
  /\ Positional(rows[i], LimbBase, i + Len(b)) = Positional(a, LimbBase, i) * BnValue(b)

LEMMA RowsUp ==
  ASSUME NEW x \in Int, NEW r \in Int, NEW v \in Int, NEW w \in Int
  PROVE  w * v + (x * r) * v = (w + x * r) * v
  OBVIOUS

(* All rows, by induction on the limb of a.                                *)
LEMMA ProductIs ==
  ASSUME NEW a \in Seq(Limbs), NEW b \in Seq(Limbs), NEW rows, IsProduct(rows, a, b)
  PROVE  /\ rows[Len(a)] \in Arrays(Len(a) + Len(b))
         /\ BnValue(rows[Len(a)]) = BnValue(a) * BnValue(b)
<1> DEFINE n == Len(a)
           l == Len(b)
           B == LimbBase
           S == {i \in 0..n : RowsAdded(rows, a, b, i)}
<1>0. n \in Nat /\ l \in Nat
  OBVIOUS
<1>1. rows[0] = [k \in 1..(n + l) |-> 0]
  BY <1>0 DEF IsProduct
<1>2. \A i \in 1..n : rows[i] = MulRow(rows[i - 1], a, b, i)
  <2>1. \A i \in 1..n : i \in 0..n /\ i # 0
    BY <1>0
  <2>. QED
    BY <2>1 DEF IsProduct
<1>3. 0 \in S
  <2> DEFINE w == rows[0]
  <2>1. w \in Seq(Limbs) /\ Len(w) = n + l /\ \A k \in 1..(n + l) : w[k] = 0
    <3>1. 0 \in Limbs /\ n + l \in Nat
      BY BaseIs DEF Limbs
    <3>. QED
      BY <1>1, <3>1
  <2>. HIDE DEF w
  <2>2. \A k \in 1..l : k \in 1..(n + l)
    BY <1>0
  <2>3. IsDigits(w, B, 0) /\ \A k \in (0 + 1)..l : w[k] = 0
    BY <2>1, <2>2 DEF IsDigits
  <2>4. IsDigits(w, B, l)
    BY <2>1, <2>2, BaseIs DEF IsDigits
  <2>5. 0 \in 0..l
    BY <1>0
  <2>6. Positional(w, B, l) = Positional(w, B, 0)
    BY <1>0, <2>3, <2>5, BaseIs, PosZeros
  <2>7. Positional(w, B, 0) = 0 /\ Positional(a, B, 0) = 0
    BY PosStep
  <2>8. BnValue(b) \in Nat
    BY NumberIs
  <2>9. 0 * BnValue(b) = 0 /\ 0 + l = l
    BY <1>0, <2>8
  <2>10. RowsAdded(rows, a, b, 0)
    BY <2>1, <2>4, <2>6, <2>7, <2>9 DEF RowsAdded, Arrays, w
  <2>. QED
    BY <1>0, <2>10
<1>4. \A i \in 0..(n - 1) : i \in S => i + 1 \in S
  <2>. SUFFICES ASSUME NEW i \in 0..(n - 1), i \in S PROVE i + 1 \in S
    OBVIOUS
  <2> DEFINE w == rows[i]
             new == rows[i + 1]
             x == a[i + 1]
             r == Raised(B, i)
             v == BnValue(b)
             pa == Positional(a, B, i)
  <2>1. i \in Nat /\ i + 1 \in 1..n /\ i + 1 \in 0..n /\ (i + 1) - 1 = i
    BY <1>0
  <2>2. w \in Arrays(n + l) /\ Positional(w, B, i + l) = pa * v
    BY DEF RowsAdded
  <2>3. new = MulRow(w, a, b, i + 1)
    BY <1>2, <2>1
  <2>4. /\ new \in Arrays(n + l) /\ IsDigits(new, B, (i + 1) + l)
        /\ Positional(new, B, (i + 1) + l) = Positional(w, B, i + l) + (x * r) * v
    <3>. HIDE DEF w, new
    <3>1. /\ MulRow(w, a, b, i + 1) \in Arrays(n + l) /\ IsDigits(MulRow(w, a, b, i + 1), B, (i + 1) + l)
          /\ Positional(MulRow(w, a, b, i + 1), B, (i + 1) + l)
               = Positional(w, B, ((i + 1) - 1) + l) + (x * Raised(B, (i + 1) - 1)) * v
      BY <2>1, <2>2, MulRowIs
    <3>. QED
      BY <2>1, <2>3, <3>1
  <2>5. Positional(a, B, i + 1) = pa + x * r
    BY <2>1, PosStep
  <2>6. v \in Nat /\ r \in Nat
    BY <2>1, NumberIs, BaseIs, RaisedPositive
  <2>7. x \in Nat
    <3>1. x \in Limbs
      BY <2>1
    <3>. QED
      BY <3>1 DEF Limbs
  <2>8. pa \in Nat
    <3>1. IsDigits(a, B, n) /\ i \in 0..n
      BY <2>1, NumberIs
    <3>. QED
      BY <1>0, <3>1, BaseIs, PosBound
  <2>. HIDE DEF w, new, x, r, v, pa
  <2>9. pa * v + (x * r) * v = (pa + x * r) * v
    BY <2>6, <2>7, <2>8, RowsUp
  <2>10. Positional(new, B, (i + 1) + l) = Positional(a, B, i + 1) * v
    BY <2>2, <2>4, <2>5, <2>9
  <2>11. RowsAdded(rows, a, b, i + 1)
    BY <2>4, <2>10 DEF RowsAdded, new, v
  <2>. QED
    BY <2>1, <2>11
<1>. HIDE DEF S
<1>5. 0..n \subseteq S
  BY <1>0, <1>3, <1>4, InductionUpTo
<1>6. RowsAdded(rows, a, b, n)
  BY <1>0, <1>5 DEF S
<1>7. rows[n] \in Seq(Limbs) /\ Len(rows[n]) = n + l
  BY <1>6 DEF RowsAdded, Arrays
<1>8. BnValue(rows[n]) = Positional(rows[n], B, n + l) /\ BnValue(a) = Positional(a, B, n)
  BY <1>7, NumberIs
<1>. QED
  BY <1>6, <1>8 DEF RowsAdded

LEMMA RawMulIs ==
  ASSUME NEW a \in Seq(Limbs), NEW b \in Seq(Limbs)
  PROVE  /\ RawMul(a, b) \in Seq(Limbs) /\ Len(RawMul(a, b)) = Len(a) + Len(b)
         /\ BnValue(RawMul(a, b)) = BnValue(a) * BnValue(b)
<1> DEFINE rows[i \in 0..Len(a)] == IF i = 0 THEN [k \in 1..(Len(a) + Len(b)) |-> 0]
                                    ELSE MulRow(rows[i - 1], a, b, i)
<1>1. RawMul(a, b) = rows[Len(a)]
  BY DEF RawMul
<1>2. IsProduct(rows, a, b)
  <2>1. PICK g : IsProduct(g, a, b)
    BY ProductExists
  <2>2. \E h : h = [i \in 0..Len(a) |-> IF i = 0 THEN [k \in 1..(Len(a) + Len(b)) |-> 0]
                                        ELSE MulRow(h[i - 1], a, b, i)]
    BY <2>1 DEF IsProduct
  <2>. QED
    BY <2>2 DEF IsProduct
<1>. HIDE DEF rows
<1>3. rows[Len(a)] \in Arrays(Len(a) + Len(b)) /\ BnValue(rows[Len(a)]) = BnValue(a) * BnValue(b)
  BY <1>2, ProductIs
<1>. QED
  BY <1>1, <1>3 DEF Arrays

(***************************************************************************)
(* Powers modulo a number, as the property says them.                      *)
(***************************************************************************)

LEMMA RemainderSame ==
  ASSUME NEW p \in Nat \ {0}, NEW k \in Int, NEW y \in Nat
  PROVE  (k * p + y) % p = y % p
<1> DEFINE q == y \div p
           r == y % p
<1>1. y = q * p + r /\ q \in Nat /\ r \in Nat /\ r < p
  BY Division
<1>. HIDE DEF q, r
<1>2. k * p + y = (k + q) * p + r
  BY <1>1
<1>3. p \in Nat \ {0} /\ k + q \in Int /\ r \in Int /\ 0 <= r /\ r < p
  BY <1>1
<1>4. ((k + q) * p + r) % p = r
  BY ONLY <1>3, DivisionIs
<1>. QED
  BY <1>2, <1>4 DEF r

LEMMA RemainderTimes ==
  ASSUME NEW p \in Nat \ {0}, NEW u \in Nat, NEW w \in Nat
  PROVE  ((u % p) * w) % p = (u * w) % p
<1> DEFINE q == u \div p
           r == u % p
<1>1. u = q * p + r /\ q \in Nat /\ r \in Nat
  BY Division
<1>. HIDE DEF q, r
<1>2. u * w = (q * w) * p + r * w /\ q * w \in Int /\ r * w \in Nat
  BY <1>1
<1> DEFINE k == q * w
           y == r * w
<1>3. (k * p + y) % p = y % p
  <2>1. k \in Int /\ y \in Nat
    BY <1>2
  <2>. HIDE DEF k, y
  <2>. QED
    BY <2>1, RemainderSame
<1>. QED
  BY <1>2, <1>3 DEF r

LEMMA RemainderKept ==
  ASSUME NEW p \in Nat \ {0}, NEW r \in Nat, r < p
  PROVE  r % p = r
<1>1. p \in Nat \ {0} /\ 0 \in Int /\ r \in Int /\ 0 <= r /\ r < p
  OBVIOUS
<1>2. (0 * p + r) % p = r
  BY ONLY <1>1, DivisionIs
<1>3. 0 * p + r = r
  OBVIOUS
<1>. QED
  BY <1>2, <1>3

IsPowers(g, x, e, m) == g = [k \in 0..e |-> IF k = 0 THEN 1 % m ELSE (g[k - 1] * x) % m]

LEMMA PowersExistModulo ==
  ASSUME NEW x \in Nat, NEW e \in Nat, NEW m \in Nat \ {0}
  PROVE  \E g : IsPowers(g, x, e, m)
<1> DEFINE c == 1 % m
           step == [q \in Nat \X (1..e) |-> (q[1] * x) % m]
<1>1. c \in Nat
  OBVIOUS
<1>2. step \in [Nat \X (1..e) -> Nat]
  <2>1. \A y \in Nat : y % m \in Nat
    BY Division
  <2>2. \A q \in Nat \X (1..e) : q[1] * x \in Nat
    OBVIOUS
  <2>3. \A q \in Nat \X (1..e) : (q[1] * x) % m \in Nat
    BY <2>1, <2>2
  <2>. QED
    BY <2>3
<1>3. \A w \in Nat, i \in 1..e : step[<<w, i>>] = (w * x) % m
  OBVIOUS
<1>. HIDE DEF step, c
<1>4. PICK g \in [0..e -> Nat] : Iterates(g, c, step, e)
  BY <1>1, <1>2, IterationExists
<1>5. g = [i \in 0..e |-> IF i = 0 THEN c ELSE step[<<g[i - 1], i>>]]
  BY <1>4 DEF Iterates
<1>6. \A i \in 0..e : i # 0 => g[i - 1] \in Nat /\ i \in 1..e
  BY <1>4
<1> DEFINE Next1(i) == IF i = 0 THEN c ELSE (g[i - 1] * x) % m
<1>7. \A i \in 0..e : g[i] = Next1(i)
  BY <1>3, <1>5, <1>6
<1>8. g = [i \in 0..e |-> Next1(i)]
  <2>. HIDE DEF Next1
  <2>. QED
    BY <1>4, <1>7
<1>. QED
  BY <1>8 DEF IsPowers, c

LEMMA PowersAgreeModulo ==
  ASSUME NEW x, NEW m, NEW e \in Nat, NEW f \in Nat, e <= f, NEW g, NEW h, IsPowers(g, x, e, m), IsPowers(h, x, f, m)
  PROVE  g[e] = h[e]
<1> DEFINE S == {k \in 0..e : g[k] = h[k]}
           First == 1 % m
           TimesX(y) == (y * x) % m
<1>1. /\ g = [k \in 0..e |-> IF k = 0 THEN First ELSE TimesX(g[k - 1])]
      /\ h = [k \in 0..f |-> IF k = 0 THEN First ELSE TimesX(h[k - 1])]
  BY DEF IsPowers
<1>. HIDE DEF First, TimesX
<1>2. 0 \in S
  <2>1. 0 \in 0..e /\ 0 \in 0..f
    OBVIOUS
  <2>2. g[0] = First /\ h[0] = First
    BY <1>1, <2>1
  <2>. QED
    BY <2>1, <2>2
<1>3. \A i \in 0..(e - 1) : i \in S => i + 1 \in S
  <2>. SUFFICES ASSUME NEW i \in 0..(e - 1), g[i] = h[i] PROVE g[i + 1] = h[i + 1] /\ i + 1 \in 0..e
    OBVIOUS
  <2>1. i + 1 \in 0..e /\ i + 1 \in 0..f /\ i + 1 # 0 /\ (i + 1) - 1 = i
    OBVIOUS
  <2>2. g[i + 1] = TimesX(g[i]) /\ h[i + 1] = TimesX(h[i])
    BY <1>1, <2>1
  <2>. QED
    BY <2>1, <2>2
<1>. HIDE DEF S
<1>4. 0..e \subseteq S
  BY <1>2, <1>3, InductionUpTo
<1>5. e \in 0..e
  OBVIOUS
<1>. QED
  BY <1>4, <1>5 DEF S

LEMMA PowerIsModulo ==
  ASSUME NEW x \in Nat, NEW e \in Nat, NEW m \in Nat \ {0}, NEW g, IsPowers(g, x, e, m)
  PROVE  Power(x, e, m) = g[e]
<1> DEFINE p[k \in 0..e] == IF k = 0 THEN 1 % m ELSE (p[k - 1] * x) % m
<1>1. Power(x, e, m) = p[e]
  BY DEF Power
<1>2. \E h : h = [k \in 0..e |-> IF k = 0 THEN 1 % m ELSE (h[k - 1] * x) % m]
  BY DEF IsPowers
<1>3. IsPowers(p, x, e, m)
  BY <1>2 DEF IsPowers
<1>. HIDE DEF p
<1>4. p[e] = g[e]
  BY <1>3, PowersAgreeModulo
<1>. QED
  BY <1>1, <1>4

LEMMA PowerSteps ==
  ASSUME NEW x \in Nat, NEW m \in Nat \ {0}
  PROVE  /\ Power(x, 0, m) = 1 % m
         /\ \A e \in Nat : Power(x, e + 1, m) = (Power(x, e, m) * x) % m
<1>1. Power(x, 0, m) = 1 % m
  <2>1. PICK g : IsPowers(g, x, 0, m)
    <3>1. 0 \in Nat
      OBVIOUS
    <3>. QED
      BY <3>1, PowersExistModulo
  <2>2. g[0] = 1 % m
    <3>1. 0 \in 0..0
      OBVIOUS
    <3>. QED
      BY <2>1, <3>1 DEF IsPowers
  <2>3. Power(x, 0, m) = g[0]
    BY <2>1, PowerIsModulo
  <2>. QED
    BY <2>2, <2>3
<1>2. ASSUME NEW e \in Nat PROVE Power(x, e + 1, m) = (Power(x, e, m) * x) % m
  <2>1. e + 1 \in Nat /\ e <= e + 1 /\ e + 1 \in 0..(e + 1) /\ (e + 1) - 1 = e /\ e + 1 # 0
    OBVIOUS
  <2>2. PICK h : IsPowers(h, x, e + 1, m)
    BY <2>1, PowersExistModulo
  <2>3. PICK g : IsPowers(g, x, e, m)
    BY PowersExistModulo
  <2>4. Power(x, e + 1, m) = h[e + 1] /\ Power(x, e, m) = g[e]
    BY <2>1, <2>2, <2>3, PowerIsModulo
  <2>5. g[e] = h[e]
    BY <2>1, <2>2, <2>3, PowersAgreeModulo
  <2>6. h[e + 1] = (h[e] * x) % m
    BY <2>1, <2>2 DEF IsPowers
  <2>. QED
    BY <2>4, <2>5, <2>6
<1>. QED
  BY <1>1, <1>2

LEMMA PowerRange ==
  ASSUME NEW x \in Nat, NEW m \in Nat \ {0}, NEW n \in Nat
  PROVE  Power(x, n, m) \in Nat /\ Power(x, n, m) < m
<1> DEFINE S == {e \in 0..n : Power(x, e, m) \in Nat /\ Power(x, e, m) < m}
<1>1. 0 \in S
  <2>1. Power(x, 0, m) = 1 % m /\ 1 \in Nat /\ 0 \in 0..n
    BY PowerSteps
  <2>2. 1 % m \in Nat /\ 1 % m < m
    BY <2>1, Division
  <2>. QED
    BY <2>1, <2>2
<1>2. \A i \in 0..(n - 1) : i \in S => i + 1 \in S
  <2>. SUFFICES ASSUME NEW i \in 0..(n - 1), i \in S PROVE i + 1 \in S
    OBVIOUS
  <2> DEFINE y == Power(x, i, m) * x
  <2>1. i \in Nat /\ i + 1 \in 0..n /\ y \in Nat
    OBVIOUS
  <2>2. Power(x, i + 1, m) = y % m
    BY <2>1, PowerSteps
  <2>. HIDE DEF y
  <2>3. y % m \in Nat /\ y % m < m
    BY <2>1, Division
  <2>. QED
    BY <2>1, <2>2, <2>3
<1>. HIDE DEF S
<1>3. 0..n \subseteq S
  BY <1>1, <1>2, InductionUpTo
<1>. QED
  BY <1>3 DEF S

(* Exponents add; the square-and-multiply needs it for a number and itself.*)
LEMMA PowerAddsUp ==
  ASSUME NEW x \in Nat, NEW m \in Nat \ {0}, NEW e \in Nat, NEW n \in Nat
  PROVE  Power(x, e + n, m) = (Power(x, e, m) * Power(x, n, m)) % m
<1> DEFINE P(k) == Power(x, k, m)
           pe == P(e)
           S == {f \in 0..n : P(e + f) = (pe * P(f)) % m}
<1>0. \A k \in Nat : P(k) \in Nat /\ P(k) < m
  BY PowerRange
<1>1. 0 \in S
  <2>1. P(0) = 1 % m /\ e + 0 = e
    BY PowerSteps
  <2>2. pe \in Nat /\ pe < m
    BY <1>0
  <2>. HIDE DEF pe
  <2>3. ((1 % m) * pe) % m = (1 * pe) % m
    <3>1. 1 \in Nat
      OBVIOUS
    <3>. QED
      BY <2>2, <3>1, RemainderTimes
  <2>4. 1 * pe = pe /\ pe % m = pe
    BY <2>2, RemainderKept
  <2>5. pe * (1 % m) = (1 % m) * pe
    <3>1. 1 % m \in Nat
      OBVIOUS
    <3>. QED
      BY <2>2, <3>1
  <2>6. (pe * P(0)) % m = pe
    BY <2>1, <2>3, <2>4, <2>5
  <2>. QED
    BY <2>1, <2>6 DEF pe
<1>2. \A i \in 0..(n - 1) : i \in S => i + 1 \in S
  <2>. SUFFICES ASSUME NEW i \in 0..(n - 1), i \in S PROVE i + 1 \in S
    OBVIOUS
  <2> DEFINE pi == P(i)
             u == pe * pi
             v == pi * x
  <2>1. i \in Nat /\ i + 1 \in 0..n /\ e + i \in Nat /\ e + (i + 1) = (e + i) + 1
    OBVIOUS
  <2>2. P(e + i) = u % m /\ P(e + (i + 1)) = (P(e + i) * x) % m /\ P(i + 1) = v % m
    BY <2>1, PowerSteps
  <2>3. pe \in Nat /\ pi \in Nat
    BY <1>0, <2>1
  <2>. HIDE DEF pe, pi, P
  <2>4. u \in Nat /\ v \in Nat /\ u * x = v * pe
    BY <2>3
  <2>. HIDE DEF u, v
  <2>5. ((u % m) * x) % m = (u * x) % m /\ ((v % m) * pe) % m = (v * pe) % m
    BY <2>3, <2>4, RemainderTimes
  <2>6. (v % m) * pe = pe * (v % m)
    <3>1. v % m \in Nat
      BY <2>4, Division
    <3>. QED
      BY <2>3, <3>1
  <2>7. P(e + (i + 1)) = (pe * P(i + 1)) % m
    BY <2>2, <2>4, <2>5, <2>6
  <2>. QED
    BY <2>1, <2>7
<1>. HIDE DEF S
<1>3. 0..n \subseteq S
  BY <1>1, <1>2, InductionUpTo
<1>. QED
  BY <1>3 DEF S

(***************************************************************************)
(* The operations of the module on numbers.                                *)
(***************************************************************************)

LEMMA NonEmpty ==
  ASSUME NEW w \in Seq(Limbs), Len(w) > 0
  PROVE  w \in Numbers
<1>1. w # <<>>
  OBVIOUS
<1>. QED
  BY <1>1 DEF Numbers

LEMMA NumbersAre ==
  ASSUME NEW a \in Numbers
  PROVE  a \in Seq(Limbs) /\ Len(a) \in Nat \ {0} /\ BnValue(a) \in Nat
<1>1. a \in Seq(Limbs) /\ a # <<>>
  BY DEF Numbers
<1>2. Len(a) \in Nat \ {0}
  BY <1>1
<1>. QED
  BY <1>1, <1>2, NumberIs

LEMMA SubIs ==
  ASSUME NEW a \in Numbers, NEW b \in Numbers, BnValue(b) <= BnValue(a)
  PROVE  BnSub(a, b) \in Numbers /\ BnValue(BnSub(a, b)) = BnValue(a) - BnValue(b)
<1> DEFINE w == Minus(a, b)
<1>1. w \in Seq(Limbs) /\ Len(w) > 0 /\ BnValue(w) = BnValue(a) - BnValue(b)
  BY NumbersAre, MinusIs
<1>. HIDE DEF w
<1>2. w \in Numbers
  BY <1>1, NonEmpty
<1>3. BnNormalize(w) \in Numbers /\ BnValue(BnNormalize(w)) = BnValue(w)
  BY <1>2, NormalizeKeeps
<1>. QED
  BY <1>1, <1>3 DEF BnSub, w

LEMMA NormalizedRemainder ==
  ASSUME NEW num \in Seq(Limbs), NEW m \in Numbers, BnValue(m) > 0
  PROVE  /\ BnNormalize(RawMod(num, m)) \in Numbers
         /\ BnValue(BnNormalize(RawMod(num, m))) = BnValue(num) % BnValue(m)
<1> DEFINE w == RawMod(num, m)
<1>1. m \in Seq(Limbs) /\ Len(m) > 0
  BY NumbersAre
<1>2. w \in Seq(Limbs) /\ Len(w) = Len(m) /\ BnValue(w) = BnValue(num) % BnValue(m)
  BY <1>1, RawModIs
<1>. HIDE DEF w
<1>3. w \in Numbers
  BY <1>1, <1>2, NonEmpty
<1>4. BnNormalize(w) \in Numbers /\ BnValue(BnNormalize(w)) = BnValue(w)
  BY <1>3, NormalizeKeeps
<1>. QED
  BY <1>2, <1>4 DEF w

LEMMA ModIs ==
  ASSUME NEW a \in Numbers, NEW m \in Numbers, BnValue(m) > 0
  PROVE  BnMod(a, m) \in Numbers /\ BnValue(BnMod(a, m)) = BnValue(a) % BnValue(m)
  BY NumbersAre, NormalizedRemainder DEF BnMod

LEMMA ModMulIs ==
  ASSUME NEW a \in Numbers, NEW b \in Numbers, NEW m \in Numbers, BnValue(m) > 0
  PROVE  BnModMul(a, b, m) \in Numbers /\ BnValue(BnModMul(a, b, m)) = (BnValue(a) * BnValue(b)) % BnValue(m)
<1> DEFINE w == RawMul(a, b)
<1>1. w \in Seq(Limbs) /\ BnValue(w) = BnValue(a) * BnValue(b)
  BY NumbersAre, RawMulIs
<1>. HIDE DEF w
<1>2. /\ BnNormalize(RawMod(w, m)) \in Numbers
      /\ BnValue(BnNormalize(RawMod(w, m))) = BnValue(w) % BnValue(m)
  BY <1>1, NormalizedRemainder
<1>. QED
  BY <1>1, <1>2 DEF BnModMul, w

(* One subtraction is enough, and the sum has room: twice the modulus has. *)
LEMMA ModAddIs ==
  ASSUME NEW a \in Numbers, NEW b \in Numbers, NEW m \in Numbers,
         BnValue(a) < BnValue(m), BnValue(b) < BnValue(m), BnValue(a) + BnValue(b) < Raised(LimbBase, MaxLimbs)
  PROVE  BnModAdd(a, b, m) \in Numbers /\ BnValue(BnModAdd(a, b, m)) = (BnValue(a) + BnValue(b)) % BnValue(m)
<1> DEFINE t == BnAdd(a, b)
           s == BnValue(a) + BnValue(b)
           M == BnValue(m)
           r == Raised(LimbBase, MaxLimbs)
<1>1. BnValue(a) \in Nat /\ BnValue(b) \in Nat /\ M \in Nat /\ r \in Nat
  <2>1. MaxLimbs \in Nat
    BY BignumAssumption
  <2>. QED
    BY <2>1, NumbersAre, BaseIs, RaisedPositive
<1>2. s \in Nat /\ s < 2 * M /\ M > 0 /\ s < r
  BY <1>1
<1>3. t \in Numbers /\ BnValue(t) = s
  <2>1. \/ t = NoRoom /\ s >= r
        \/ t \in Numbers /\ BnValue(t) = s
    BY AddIs
  <2>. HIDE DEF t, s, r
  <2>2. ~(s >= r)
    BY <1>1, <1>2
  <2>. QED
    BY <2>1, <2>2
<1>4. BnModAdd(a, b, m) = IF BnCmp(t, m) >= 0 THEN BnSub(t, m) ELSE t
  BY DEF BnModAdd
<1>. HIDE DEF t
<1>5. BnCmp(t, m) = Comparison(s, M)
  BY <1>3, NumbersAre, CompareIs
<1>. HIDE DEF s, M
<1>6. CASE s >= M
  <2>1. BnCmp(t, m) >= 0
    BY <1>1, <1>2, <1>5, <1>6 DEF Comparison
  <2>2. BnSub(t, m) \in Numbers /\ BnValue(BnSub(t, m)) = s - M
    BY <1>3, <1>6, SubIs DEF M
  <2>3. s % M = s - M
    <3>1. M \in Nat \ {0} /\ 1 \in Int /\ s - M \in Int /\ 0 <= s - M /\ s - M < M
      BY <1>1, <1>2, <1>6
    <3>2. (1 * M + (s - M)) % M = s - M
      BY ONLY <3>1, DivisionIs
    <3>3. 1 * M + (s - M) = s
      BY <1>1, <1>2
    <3>. QED
      BY <3>2, <3>3
  <2>. QED
    BY <1>4, <2>1, <2>2, <2>3 DEF s, M
<1>7. CASE s < M
  <2>1. ~(BnCmp(t, m) >= 0)
    BY <1>1, <1>2, <1>5, <1>7 DEF Comparison
  <2>2. s % M = s
    BY <1>1, <1>2, <1>7, RemainderKept
  <2>. QED
    BY <1>3, <1>4, <2>1, <2>2 DEF s, M
<1>. QED
  BY <1>1, <1>2, <1>6, <1>7

(* The difference, or what is missing of the modulus added.                *)
LEMMA ModSubIs ==
  ASSUME NEW a \in Numbers, NEW b \in Numbers, NEW m \in Numbers,
         BnValue(a) < BnValue(m), BnValue(b) < BnValue(m), BnValue(m) < Raised(LimbBase, MaxLimbs)
  PROVE  BnModSub(a, b, m) \in Numbers /\ BnValue(BnModSub(a, b, m)) = (BnValue(a) - BnValue(b)) % BnValue(m)
<1> DEFINE A == BnValue(a)
           B == BnValue(b)
           M == BnValue(m)
<1>1. A \in Nat /\ B \in Nat /\ M \in Nat /\ A < M /\ B < M
  BY NumbersAre
<1>2. BnCmp(a, b) = Comparison(A, B)
  BY NumbersAre, CompareIs
<1>. HIDE DEF A, B, M
<1>3. CASE A >= B
  <2>1. BnCmp(a, b) >= 0
    BY <1>1, <1>2, <1>3 DEF Comparison
  <2>2. BnSub(a, b) \in Numbers /\ BnValue(BnSub(a, b)) = A - B
    BY <1>3, SubIs DEF A, B
  <2>3. (A - B) % M = A - B
    <3>1. M \in Nat \ {0} /\ A - B \in Nat /\ A - B < M
      BY <1>1, <1>3
    <3>. QED
      BY <3>1, RemainderKept
  <2>. QED
    BY <2>1, <2>2, <2>3 DEF BnModSub, A, B, M
<1>4. CASE A < B
  <2> DEFINE c == BnSub(m, b)
  <2>1. ~(BnCmp(a, b) >= 0)
    BY <1>1, <1>2, <1>4 DEF Comparison
  <2>2. c \in Numbers /\ BnValue(c) = M - B
    <3>1. BnValue(b) <= BnValue(m)
      BY <1>1 DEF B, M
    <3>. QED
      BY <3>1, SubIs DEF B, M
  <2>. HIDE DEF c
  <2>3. BnValue(c) < BnValue(m) /\ BnValue(a) < BnValue(m)
        /\ BnValue(a) + BnValue(c) < Raised(LimbBase, MaxLimbs)
    <3> DEFINE r == Raised(LimbBase, MaxLimbs)
    <3>1. M < r /\ r \in Nat
      <4>1. MaxLimbs \in Nat
        BY BignumAssumption
      <4>. QED
        BY <4>1, BaseIs, RaisedPositive DEF M
    <3>2. BnValue(c) = M - B /\ BnValue(a) = A /\ BnValue(m) = M
      BY <2>2 DEF A, B, M
    <3>. HIDE DEF r
    <3>3. BnValue(c) < M /\ A < M /\ A + BnValue(c) < r
      BY <1>1, <1>4, <3>1, <3>2
    <3>. QED
      BY <3>2, <3>3 DEF r
  <2>4. BnModAdd(a, c, m) \in Numbers /\ BnValue(BnModAdd(a, c, m)) = (BnValue(a) + BnValue(c)) % BnValue(m)
    BY <2>2, <2>3, ModAddIs
  <2>5. (A + (M - B)) % M = (A - B) % M
    <3> DEFINE z == A + (M - B)
    <3>1. M \in Nat \ {0} /\ 0 \in Int /\ -1 \in Int /\ z \in Int /\ 0 <= z /\ z < M
      BY <1>1, <1>4
    <3>2. A - B = (-1) * M + z
      BY <1>1
    <3>. HIDE DEF z
    <3>3. ((-1) * M + z) % M = z /\ (0 * M + z) % M = z
      BY ONLY <3>1, DivisionIs
    <3>4. 0 * M + z = z
      BY <3>1
    <3>. QED
      BY <3>2, <3>3, <3>4 DEF z
  <2>. QED
    BY <2>1, <2>2, <2>4, <2>5 DEF BnModSub, A, B, M, c
<1>. QED
  BY <1>1, <1>3, <1>4

(* One step of the square-and-multiply.                                    *)
Squared(w, b, bit, m) == IF bit = 1 THEN BnModMul(BnModMul(w, w, m), b, m) ELSE BnModMul(w, w, m)

LEMMA SquaredIs ==
  ASSUME NEW w \in Numbers, NEW b \in Numbers, NEW m \in Numbers, BnValue(m) > 0, NEW bit, NEW x \in Nat, NEW e \in Nat,
         bit \in {0, 1}, BnValue(b) = x, BnValue(w) % BnValue(m) = Power(x, e, BnValue(m))
  PROVE  /\ Squared(w, b, bit, m) \in Numbers
         /\ BnValue(Squared(w, b, bit, m)) = Power(x, 2 * e + bit, BnValue(m))
<1> DEFINE M == BnValue(m)
           v == BnValue(w)
           y == Power(x, e, M)
           square == BnModMul(w, w, m)
<1>1. M \in Nat \ {0} /\ v \in Nat
  BY NumbersAre
<1>2. y \in Nat /\ v % M = y
  BY <1>1, PowerRange
<1>3. square \in Numbers /\ BnValue(square) = (v * v) % M
  BY ModMulIs
<1>. HIDE DEF y, square, v, M
<1>4. (v * v) % M = (y * y) % M
  <2>1. ((v % M) * v) % M = (v * v) % M
    BY <1>1, RemainderTimes
  <2>2. ((v % M) * y) % M = (v * y) % M
    BY <1>1, <1>2, RemainderTimes
  <2>3. y * v = v * y
    BY <1>1, <1>2
  <2>. QED
    BY <1>2, <2>1, <2>2, <2>3
<1>5. Power(x, e + e, M) = (y * y) % M
  BY <1>1, PowerAddsUp DEF y
<1>6. BnValue(square) = Power(x, 2 * e, M) /\ 2 * e \in Nat
  <2>1. e + e = 2 * e
    OBVIOUS
  <2>. QED
    BY <1>3, <1>4, <1>5, <2>1
<1>7. CASE bit = 1
  <2>1. BnModMul(square, b, m) \in Numbers /\ BnValue(BnModMul(square, b, m)) = (BnValue(square) * x) % M
    BY <1>3, ModMulIs DEF M
  <2>2. Power(x, 2 * e + 1, M) = (Power(x, 2 * e, M) * x) % M
    BY <1>1, <1>6, PowerSteps
  <2>. QED
    BY <1>6, <1>7, <2>1, <2>2 DEF Squared, square, M
<1>8. CASE bit = 0
  <2>1. 2 * e + 0 = 2 * e /\ bit # 1
    BY <1>6, <1>8
  <2>. QED
    BY <1>3, <1>6, <1>8, <2>1 DEF Squared, square, M
<1>. QED
  BY <1>7, <1>8

(* The equations of the accumulator.                                       *)
IsExponentiation(acc, b, exp, m) ==
  acc = [k \in 0..BnBitLen(exp) |->
           IF k = 0 THEN Bn1 ELSE Squared(acc[k - 1], b, BnBit(exp, BnBitLen(exp) - k), m)]

LEMMA SquaredStays ==
  ASSUME NEW w \in Numbers, NEW b \in Numbers, NEW m \in Numbers, BnValue(m) > 0, NEW bit
  PROVE  Squared(w, b, bit, m) \in Numbers
<1> DEFINE square == BnModMul(w, w, m)
<1>1. square \in Numbers
  BY ModMulIs
<1>. HIDE DEF square
<1>2. BnModMul(square, b, m) \in Numbers
  BY <1>1, ModMulIs
<1>. QED
  BY <1>1, <1>2 DEF Squared, square

LEMMA OneIs == Bn1 \in Numbers /\ BnValue(Bn1) = 1
<1>1. 1 \in Limbs /\ Bn1 # <<>> /\ Len(Bn1) = 1 /\ Bn1[1] = 1
  BY BaseIs DEF Limbs, Bn1
<1>2. Bn1 \in Seq(Limbs)
  BY <1>1 DEF Bn1
<1>3. BnValue(Bn1) = Positional(Bn1, LimbBase, 0 + 1)
  <2>1. BnValue(Bn1) = Positional(Bn1, LimbBase, Len(Bn1))
    BY <1>2, NumberIs
  <2>2. Len(Bn1) = 0 + 1
    BY <1>1
  <2>. QED
    BY <2>1, <2>2
<1>4. 0 \in Nat
  OBVIOUS
<1>5. Positional(Bn1, LimbBase, 0 + 1) = Positional(Bn1, LimbBase, 0) + Bn1[0 + 1] * Raised(LimbBase, 0)
  BY <1>4, PosStep
<1>6. Positional(Bn1, LimbBase, 0) = 0 /\ Raised(LimbBase, 0) = 1
  BY PosStep, RaisedStep
<1>. QED
  BY <1>1, <1>2, <1>3, <1>5, <1>6 DEF Numbers

LEMMA ExponentiationExists ==
  ASSUME NEW b \in Numbers, NEW exp \in Numbers, NEW m \in Numbers, BnValue(m) > 0
  PROVE  \E acc : IsExponentiation(acc, b, exp, m)
<1> DEFINE bits == BnBitLen(exp)
           step == [q \in Numbers \X (1..bits) |-> Squared(q[1], b, BnBit(exp, bits - q[2]), m)]
<1>0. bits \in Nat /\ Bn1 \in Numbers
  BY NumbersAre, BitLenIs, OneIs
<1>. HIDE DEF bits
<1>1. \A w \in Numbers, i \in 1..bits : Squared(w, b, BnBit(exp, bits - i), m) \in Numbers
  BY SquaredStays
<1>2. step \in [Numbers \X (1..bits) -> Numbers]
  <2>1. \A q \in Numbers \X (1..bits) : q[1] \in Numbers /\ q[2] \in 1..bits
    OBVIOUS
  <2>. QED
    BY <1>1, <2>1
<1>3. \A w \in Numbers, i \in 1..bits : step[<<w, i>>] = Squared(w, b, BnBit(exp, bits - i), m)
  OBVIOUS
<1>. HIDE DEF step
<1>4. PICK g \in [0..bits -> Numbers] : Iterates(g, Bn1, step, bits)
  BY <1>0, <1>2, IterationExists
<1>5. g = [i \in 0..bits |-> IF i = 0 THEN Bn1 ELSE step[<<g[i - 1], i>>]]
  BY <1>4 DEF Iterates
<1>6. \A i \in 0..bits : i # 0 => g[i - 1] \in Numbers /\ i \in 1..bits
  BY <1>0, <1>4
<1> DEFINE SquareAt(i) == IF i = 0 THEN Bn1 ELSE Squared(g[i - 1], b, BnBit(exp, bits - i), m)
<1>7. \A i \in 0..bits : g[i] = SquareAt(i)
  BY <1>3, <1>5, <1>6
<1>8. g = [i \in 0..bits |-> SquareAt(i)]
  <2>. HIDE DEF SquareAt
  <2>. QED
    BY <1>4, <1>7
<1>. QED
  BY <1>8 DEF IsExponentiation, bits

(* After k bits of the exponent the accumulator is the power by them.      *)
LEMMA ExponentiationIs ==
  ASSUME NEW b \in Numbers, NEW exp \in Numbers, NEW m \in Numbers, BnValue(m) > 0,
         NEW acc, IsExponentiation(acc, b, exp, m)
  PROVE  /\ acc[BnBitLen(exp)] \in Numbers
         /\ BnValue(acc[BnBitLen(exp)]) % BnValue(m) = Power(BnValue(b), BnValue(exp), BnValue(m))
         /\ BnValue(exp) > 0 => BnValue(acc[BnBitLen(exp)]) < BnValue(m)
<1> DEFINE bits == BnBitLen(exp)
           E == BnValue(exp)
           M == BnValue(m)
           x == BnValue(b)
           TopBits(k) == E \div TwoTo(bits - k)
           S == {k \in 0..bits : /\ acc[k] \in Numbers
                                 /\ BnValue(acc[k]) % M = Power(x, TopBits(k), M)
                                 /\ k > 0 => BnValue(acc[k]) < M}
<1>0. /\ bits \in Nat /\ E \in Nat /\ E < TwoTo(bits) /\ M \in Nat \ {0} /\ x \in Nat /\ exp \in Seq(Limbs)
  BY NumbersAre, BitLenIs
<1>1. acc[0] = Bn1
  BY <1>0 DEF IsExponentiation
<1>2. \A k \in 1..bits : acc[k] = Squared(acc[k - 1], b, BnBit(exp, bits - k), m)
  <2>1. \A k \in 1..bits : k \in 0..bits /\ k # 0
    BY <1>0
  <2>. QED
    BY <2>1 DEF IsExponentiation
<1>. HIDE DEF bits, E, M, x
<1>3. 0 \in S
  <2>1. TopBits(0) = 0
    <3> DEFINE p == TwoTo(bits - 0)
    <3>1. p \in Nat \ {0} /\ E < p
      BY <1>0, PowerPositive
    <3>. HIDE DEF p
    <3>2. (0 * p + E) \div p = 0
      <4>1. p \in Nat \ {0} /\ 0 \in Int /\ E \in Int /\ 0 <= E /\ E < p
        BY <1>0, <3>1
      <4>. QED
        BY ONLY <4>1, DivisionIs
    <3>3. 0 * p + E = E
      BY <1>0, <3>1
    <3>. QED
      BY <3>2, <3>3 DEF p
  <2>2. Power(x, 0, M) = 1 % M
    BY <1>0, PowerSteps
  <2>. HIDE DEF TopBits
  <2>. QED
    BY <1>0, <1>1, <2>1, <2>2, OneIs
<1>4. \A i \in 0..(bits - 1) : i \in S => i + 1 \in S
  <2>. SUFFICES ASSUME NEW i \in 0..(bits - 1), i \in S PROVE i + 1 \in S
    OBVIOUS
  <2> DEFINE w == acc[i]
             j == bits - (i + 1)
             bit == BnBit(exp, j)
             e == TopBits(i)
             new == acc[i + 1]
  <2>1. /\ i \in Nat /\ i + 1 \in 1..bits /\ i + 1 \in 0..bits /\ i + 1 > 0 /\ (i + 1) - 1 = i
        /\ j \in Nat /\ j + 1 = bits - i
    BY <1>0
  <2>2. w \in Numbers /\ BnValue(w) % M = Power(x, e, M)
    OBVIOUS
  <2>3. TopBits(i + 1) = 2 * e + bit /\ e \in Nat /\ TopBits(i + 1) \in Nat
    <3>1. /\ BnValue(exp) \div TwoTo(j) \in Nat /\ BnValue(exp) \div TwoTo(j + 1) \in Nat
          /\ BnValue(exp) \div TwoTo(j) = 2 * (BnValue(exp) \div TwoTo(j + 1)) + BnBit(exp, j)
      BY <1>0, <2>1, FrontIs
    <3>. QED
      BY <2>1, <3>1 DEF E
  <2>4. bit \in {0, 1}
    <3>1. bit \in 0..1
      BY <1>0, <2>1, BitsAre
    <3>. QED
      BY <3>1
  <2>5. new = Squared(w, b, bit, m)
    BY <1>2, <2>1
  <2>. HIDE DEF TopBits, w, bit, e, new
  <2>6. new \in Numbers /\ BnValue(new) = Power(x, 2 * e + bit, M)
    <3>1. BnValue(b) = x /\ BnValue(w) % BnValue(m) = Power(x, e, BnValue(m))
      BY <2>2 DEF x, M
    <3>2. Squared(w, b, bit, m) \in Numbers /\ BnValue(Squared(w, b, bit, m)) = Power(x, 2 * e + bit, BnValue(m))
      <4>1. /\ w \in Numbers /\ b \in Numbers /\ m \in Numbers /\ BnValue(m) > 0 /\ x \in Nat /\ e \in Nat
            /\ bit \in {0, 1} /\ BnValue(b) = x /\ BnValue(w) % BnValue(m) = Power(x, e, BnValue(m))
        BY <1>0, <2>2, <2>3, <2>4, <3>1
      <4>. QED
        BY ONLY <4>1, SquaredIs
    <3>. QED
      BY <2>5, <3>2 DEF M
  <2>7. BnValue(new) \in Nat /\ BnValue(new) < M
    BY <1>0, <2>3, <2>6, PowerRange
  <2>8. BnValue(new) % M = BnValue(new)
    BY <1>0, <2>7, RemainderKept
  <2>. QED
    BY <2>1, <2>3, <2>6, <2>7, <2>8 DEF new
<1>. HIDE DEF S
<1>5. bits \in S
  <2>1. 0..bits \subseteq S
    BY <1>0, <1>3, <1>4, InductionUpTo
  <2>. QED
    BY <1>0, <2>1
<1>6. TopBits(bits) = E
  <2>1. bits - bits = 0 /\ E \div 1 = E
    BY <1>0
  <2>. QED
    BY <2>1, PowerStep
<1>7. E > 0 => bits > 0
  <2>1. bits = 0 => E < 1
    BY <1>0, PowerStep
  <2>. QED
    BY <1>0, <2>1
<1>. QED
  BY <1>5, <1>6, <1>7 DEF S, bits, E, M, x

LEMMA ModExpIs ==
  ASSUME NEW base \in Numbers, NEW exp \in Numbers, NEW m \in Numbers, BnValue(m) > 0,
         BnValue(m) > 1 \/ BnValue(exp) > 0
  PROVE  /\ BnModExp(base, exp, m) \in Numbers
         /\ BnValue(BnModExp(base, exp, m)) = Power(BnValue(base) % BnValue(m), BnValue(exp), BnValue(m))
<1> DEFINE bits == BnBitLen(exp)
           b == BnMod(base, m)
           acc[k \in 0..bits] ==
             IF k = 0 THEN Bn1
             ELSE LET sofar  == acc[k - 1]
                      square == BnModMul(sofar, sofar, m)
                  IN IF BnBit(exp, bits - k) = 1 THEN BnModMul(square, b, m) ELSE square
           w == acc[bits]
           M == BnValue(m)
<1>1. BnModExp(base, exp, m) = w
  BY DEF BnModExp
<1>2. b \in Numbers /\ BnValue(b) = BnValue(base) % M
  BY ModIs
<1>. HIDE DEF b
<1>3. IsExponentiation(acc, b, exp, m)
  <2>1. PICK g : IsExponentiation(g, b, exp, m)
    BY <1>2, ExponentiationExists
  <2>2. \E h : h = [k \in 0..bits |->
                      IF k = 0 THEN Bn1
                      ELSE LET sofar  == h[k - 1]
                               square == BnModMul(sofar, sofar, m)
                           IN IF BnBit(exp, bits - k) = 1 THEN BnModMul(square, b, m) ELSE square]
    BY <2>1 DEF IsExponentiation, Squared
  <2>. QED
    BY <2>2 DEF IsExponentiation, Squared
<1>. HIDE DEF acc
<1>4. /\ w \in Numbers
      /\ BnValue(w) % M = Power(BnValue(b), BnValue(exp), M)
      /\ BnValue(exp) > 0 => BnValue(w) < M
  BY <1>2, <1>3, ExponentiationIs
<1>5. M \in Nat \ {0} /\ BnValue(w) \in Nat /\ BnValue(exp) \in Nat
  BY <1>4, NumbersAre
<1>6. BnValue(w) < M
  <2>1. BnValue(exp) = 0 => BnValue(w) = 1
    <3>. SUFFICES ASSUME BnValue(exp) = 0 PROVE BnValue(w) = 1
      OBVIOUS
    <3>1. bits = 0
      <4>1. bits \in Nat /\ (bits > 0 => bits - 1 \in Nat /\ TwoTo(bits - 1) <= BnValue(exp))
        BY NumbersAre, BitLenIs
      <4>2. bits > 0 => TwoTo(bits - 1) \in Nat \ {0}
        BY <4>1, PowerPositive
      <4>. HIDE DEF bits
      <4>. QED
        BY <4>1, <4>2
    <3>2. acc[0] = Bn1
      <4>1. 0 \in 0..BnBitLen(exp)
        BY <3>1
      <4>. QED
        BY <1>3, <4>1 DEF IsExponentiation
    <3>. QED
      BY <3>1, <3>2, OneIs
  <2>. HIDE DEF M, w
  <2>2. M > 1 \/ BnValue(exp) > 0
    BY DEF M
  <2>. QED
    BY <1>4, <1>5, <2>1, <2>2
<1>7. BnValue(w) % M = BnValue(w)
  <2>. HIDE DEF M, w
  <2>. QED
    BY <1>5, <1>6, RemainderKept
<1>. QED
  BY <1>1, <1>2, <1>4, <1>7

(***************************************************************************)
(* A job of Algorithms: all operations on the numbers of three strings.    *)
(***************************************************************************)

LEMMA NumberHolds ==
  ASSUME NEW w \in Numbers, NEW n \in Nat, BnValue(w) = n, n < Raised(LimbBase, MaxLimbs)
  PROVE  IsNumber(w, n)
<1>1. w \in Seq(Limbs) /\ w # NoRoom
  BY DEF Numbers, NoRoom
<1>2. \A i \in DOMAIN w : w[i] \in Limbs
  BY <1>1
<1>3. Raised(LimbBase, MaxLimbs) \in Nat
  <2>1. MaxLimbs \in Nat
    BY BignumAssumption
  <2>. QED
    BY <2>1, BaseIs, RaisedPositive
<1>4. ~(n >= Raised(LimbBase, MaxLimbs))
  BY <1>3
<1>. QED
  BY <1>1, <1>2, <1>4 DEF IsNumber, Limbs

LEMMA ByteValueFits ==
  ASSUME NEW bytes \in Seq(ByteValues), Len(bytes) * ByteBits <= MaxLimbs * LimbBits
  PROVE  /\ BnFromBytes(bytes) \in Numbers /\ BnValue(BnFromBytes(bytes)) = BytesValue(bytes)
         /\ Len(BnFromBytes(bytes)) <= MaxLimbs
         /\ BytesValue(bytes) \in Nat /\ BytesValue(bytes) < Raised(LimbBase, MaxLimbs)
<1> DEFINE a == BnFromBytes(bytes)
           v == BytesValue(bytes)
<1>1. a \in Numbers /\ BnValue(a) = v /\ Len(a) <= MaxLimbs
  BY FromBytesIs
<1>. HIDE DEF a, v
<1>2. Len(a) \in Nat /\ v \in Nat /\ v < Raised(LimbBase, Len(a))
  BY <1>1, NumbersAre, NumberIs
<1>3. MaxLimbs \in Nat /\ LimbBase \in Nat \ {0}
  BY BignumAssumption, BaseIs
<1>4. Raised(LimbBase, Len(a)) <= Raised(LimbBase, MaxLimbs)
  BY <1>1, <1>2, <1>3, RaisedGrows
<1>5. Raised(LimbBase, Len(a)) \in Nat /\ Raised(LimbBase, MaxLimbs) \in Nat
  BY <1>2, <1>3, RaisedPositive
<1>6. v < Raised(LimbBase, MaxLimbs)
  BY <1>2, <1>4, <1>5
<1>. QED
  BY <1>1, <1>2, <1>6 DEF a, v

(* What Calculate answers a job, and what BignumIsArithmetic says of it.   *)
Calculated(j) ==
  LET a == BnFromBytes(j.a)
      b == BnFromBytes(j.b)
      m == BnFromBytes(j.m)
      x == BnMod(a, m)
      y == BnMod(b, m)
  IN [cmp |-> BnCmp(a, b), sum |-> BnAdd(a, b),
      difference |-> IF BnCmp(a, b) >= 0 THEN BnSub(a, b) ELSE BnSub(b, a),
      remainder |-> x, modadd |-> BnModAdd(x, y, m), modsub |-> BnModSub(x, y, m),
      product |-> BnModMul(x, y, m), power |-> BnModExp(x, b, m),
      bytes |-> BnToBytes(a, Len(j.b))]

Arithmetic(j, got) ==
  LET a == BytesValue(j.a)
      b == BytesValue(j.b)
      m == BytesValue(j.m)
  IN /\ got.cmp = (IF a > b THEN 1 ELSE IF a = b THEN 0 ELSE -1)
     /\ IsNumber(got.sum, a + b)
     /\ IsNumber(got.difference, IF a > b THEN a - b ELSE b - a)
     /\ IsNumber(got.remainder, a % m)
     /\ (a % m) + (b % m) < Raised(LimbBase, MaxLimbs) => IsNumber(got.modadd, (a + b) % m)
     /\ IsNumber(got.modsub, (a - b) % m)
     /\ IsNumber(got.product, ((a % m) * (b % m)) % m)
     /\ (m > 1 \/ b > 0) => IsNumber(got.power, Power(a % m, b, m))
     /\ IF a >= TwoTo(ByteBits * Len(j.b)) THEN got.bytes = NoRoom
        ELSE Len(got.bytes) = Len(j.b) /\ BytesValue(got.bytes) = a

LEMMA SumOfRemainders ==
  ASSUME NEW a \in Nat, NEW b \in Nat, NEW m \in Nat \ {0}
  PROVE  /\ ((a % m) + (b % m)) % m = (a + b) % m
         /\ ((a % m) - (b % m)) % m = (a - b) % m
<1> DEFINE p == a \div m
           q == b \div m
           x == a % m
           y == b % m
<1>1. a = p * m + x /\ p \in Nat /\ x \in Nat /\ x < m
  BY Division
<1>2. b = q * m + y /\ q \in Nat /\ y \in Nat /\ y < m
  BY Division
<1>. HIDE DEF p, q, x, y
<1>3. (x + y) % m = (a + b) % m
  <2>1. a + b = (p + q) * m + (x + y)
    BY <1>1, <1>2
  <2>2. p + q \in Int /\ x + y \in Nat
    BY <1>1, <1>2
  <2>3. ((p + q) * m + (x + y)) % m = (x + y) % m
    BY <2>2, RemainderSame
  <2>. QED
    BY <2>1, <2>3
<1>4. (x - y) % m = (a - b) % m
  <2>1. a - b = (p - q - 1) * m + (m + x - y)
    BY <1>1, <1>2
  <2>2. x - y = (-1) * m + (m + x - y)
    BY <1>1, <1>2
  <2>3. p - q - 1 \in Int /\ -1 \in Int /\ m + x - y \in Nat
    BY <1>1, <1>2
  <2>4. ((p - q - 1) * m + (m + x - y)) % m = (m + x - y) % m /\ ((-1) * m + (m + x - y)) % m = (m + x - y) % m
    BY <2>3, RemainderSame
  <2>. QED
    BY <2>1, <2>2, <2>4
<1>. QED
  BY <1>3, <1>4 DEF x, y

LEMMA ArithmeticIsRight ==
  ASSUME NEW j \in ArithmeticJobs
  PROVE  Arithmetic(j, Calculated(j))
<1> DEFINE a == BnFromBytes(j.a)
           b == BnFromBytes(j.b)
           m == BnFromBytes(j.m)
           x == BnMod(a, m)
           y == BnMod(b, m)
           A == BytesValue(j.a)
           B == BytesValue(j.b)
           M == BytesValue(j.m)
           room == Raised(LimbBase, MaxLimbs)
           got == Calculated(j)
<1>1. /\ \A bytes \in {j.a, j.b, j.m} : bytes \in Seq(ByteValues) /\ Len(bytes) * ByteBits <= MaxLimbs * LimbBits
      /\ BnValue(m) > 0
  BY ArithmeticJobsAssumption DEF ByteValues
<1>2. /\ a \in Numbers /\ BnValue(a) = A /\ Len(a) <= MaxLimbs /\ A \in Nat /\ A < room
      /\ b \in Numbers /\ BnValue(b) = B /\ Len(b) <= MaxLimbs /\ B \in Nat /\ B < room
      /\ m \in Numbers /\ BnValue(m) = M /\ M \in Nat /\ M < room
  BY <1>1, ByteValueFits
<1>3. room \in Nat
  <2>1. MaxLimbs \in Nat
    BY BignumAssumption
  <2>. QED
    BY <2>1, BaseIs, RaisedPositive
<1>4. j.b \in Seq(ByteValues)
  BY <1>1
<1>5. /\ got.cmp = BnCmp(a, b) /\ got.sum = BnAdd(a, b)
      /\ got.difference = IF BnCmp(a, b) >= 0 THEN BnSub(a, b) ELSE BnSub(b, a)
      /\ got.remainder = x /\ got.modadd = BnModAdd(x, y, m) /\ got.modsub = BnModSub(x, y, m)
      /\ got.product = BnModMul(x, y, m) /\ got.power = BnModExp(x, b, m)
      /\ got.bytes = BnToBytes(a, Len(j.b))
  BY DEF Calculated
<1>. HIDE DEF a, b, m, x, y, A, B, M, room, got
<1>6. M \in Nat \ {0}
  BY <1>1, <1>2
<1>7. x \in Numbers /\ BnValue(x) = A % M /\ y \in Numbers /\ BnValue(y) = B % M
  BY <1>2, <1>6, ModIs DEF x, y
<1>8. A % M \in Nat /\ A % M < M /\ B % M \in Nat /\ B % M < M
  BY <1>2, <1>6, Division
<1>9. \A z \in Int : z % M \in Nat /\ z % M < room
  <2>1. \A z \in Int : z % M \in Nat /\ z % M < M
    BY <1>6
  <2>. QED
    BY <1>2, <1>3, <2>1
<1>10. got.cmp = (IF A > B THEN 1 ELSE IF A = B THEN 0 ELSE -1)
  <2>1. BnCmp(a, b) = Comparison(A, B)
    BY <1>2, NumbersAre, CompareIs
  <2>. QED
    BY <1>5, <2>1 DEF Comparison
<1>11. IsNumber(got.sum, A + B)
  <2>1. \/ /\ BnAdd(a, b) = NoRoom
           /\ A + B >= room
        \/ /\ BnAdd(a, b) \in Numbers
           /\ BnValue(BnAdd(a, b)) = A + B
           /\ A + B < room
    BY <1>2, AddIs DEF room
  <2>2. CASE BnAdd(a, b) = NoRoom /\ A + B >= room
    BY <1>5, <2>2 DEF IsNumber, room
  <2>3. CASE BnAdd(a, b) \in Numbers /\ BnValue(BnAdd(a, b)) = A + B /\ A + B < room
    <3>1. A + B \in Nat
      BY <1>2
    <3>. QED
      BY <1>5, <2>3, <3>1, NumberHolds DEF room
  <2>. QED
    BY <2>1, <2>2, <2>3
<1>12. IsNumber(got.difference, IF A > B THEN A - B ELSE B - A)
  <2>1. BnCmp(a, b) = Comparison(A, B)
    BY <1>2, NumbersAre, CompareIs
  <2>2. CASE A >= B
    <3>1. BnCmp(a, b) >= 0
      BY <1>2, <2>1, <2>2 DEF Comparison
    <3>2. BnSub(a, b) \in Numbers /\ BnValue(BnSub(a, b)) = A - B
      BY <1>2, <2>2, SubIs
    <3>3. A - B \in Nat /\ A - B < room /\ A - B = IF A > B THEN A - B ELSE B - A
      BY <1>2, <1>3, <2>2
    <3>4. IsNumber(BnSub(a, b), A - B)
      BY <3>2, <3>3, NumberHolds DEF room
    <3>. QED
      BY <1>5, <3>1, <3>3, <3>4
  <2>3. CASE A < B
    <3>1. ~(BnCmp(a, b) >= 0)
      BY <1>2, <2>1, <2>3 DEF Comparison
    <3>2. BnSub(b, a) \in Numbers /\ BnValue(BnSub(b, a)) = B - A
      BY <1>2, <2>3, SubIs
    <3>3. B - A \in Nat /\ B - A < room /\ B - A = IF A > B THEN A - B ELSE B - A
      BY <1>2, <1>3, <2>3
    <3>4. IsNumber(BnSub(b, a), B - A)
      BY <3>2, <3>3, NumberHolds DEF room
    <3>. QED
      BY <1>5, <3>1, <3>3, <3>4
  <2>. QED
    BY <1>2, <2>2, <2>3
<1>13. IsNumber(got.remainder, A % M)
  <2>1. A % M < Raised(LimbBase, MaxLimbs)
    BY <1>2, <1>9 DEF room
  <2>. QED
    BY <1>5, <1>7, <1>8, <2>1, NumberHolds
<1>14. ASSUME (A % M) + (B % M) < room PROVE IsNumber(got.modadd, (A + B) % M)
  <2>1. BnModAdd(x, y, m) \in Numbers /\ BnValue(BnModAdd(x, y, m)) = (BnValue(x) + BnValue(y)) % BnValue(m)
    <3>1. BnValue(x) < BnValue(m) /\ BnValue(y) < BnValue(m)
          /\ BnValue(x) + BnValue(y) < Raised(LimbBase, MaxLimbs)
      BY <1>2, <1>7, <1>8, <1>14 DEF room
    <3>. QED
      BY <1>2, <1>7, <3>1, ModAddIs
  <2>2. ((A % M) + (B % M)) % M = (A + B) % M
    BY <1>2, <1>6, SumOfRemainders
  <2>3. (A + B) % M \in Nat /\ (A + B) % M < Raised(LimbBase, MaxLimbs)
    <3>1. A + B \in Int
      BY <1>2
    <3>. QED
      BY ONLY <1>9, <3>1 DEF room
  <2>. QED
    BY <1>2, <1>5, <1>7, <2>1, <2>2, <2>3, NumberHolds
<1>15. IsNumber(got.modsub, (A - B) % M)
  <2>1. BnModSub(x, y, m) \in Numbers /\ BnValue(BnModSub(x, y, m)) = (BnValue(x) - BnValue(y)) % BnValue(m)
    <3>1. BnValue(x) < BnValue(m) /\ BnValue(y) < BnValue(m) /\ BnValue(m) < Raised(LimbBase, MaxLimbs)
      BY <1>2, <1>7, <1>8 DEF room
    <3>. QED
      BY <1>2, <1>7, <3>1, ModSubIs
  <2>2. ((A % M) - (B % M)) % M = (A - B) % M
    BY <1>2, <1>6, SumOfRemainders
  <2>3. (A - B) % M \in Nat /\ (A - B) % M < Raised(LimbBase, MaxLimbs)
    <3>1. A - B \in Int
      BY <1>2
    <3>. QED
      BY ONLY <1>9, <3>1 DEF room
  <2>. QED
    BY <1>2, <1>5, <1>7, <2>1, <2>2, <2>3, NumberHolds
<1>16. IsNumber(got.product, ((A % M) * (B % M)) % M)
  <2>1. BnModMul(x, y, m) \in Numbers /\ BnValue(BnModMul(x, y, m)) = ((A % M) * (B % M)) % M
    <3>1. BnValue(m) > 0 /\ x \in Numbers /\ y \in Numbers /\ m \in Numbers
      BY <1>2, <1>6, <1>7
    <3>2. BnModMul(x, y, m) \in Numbers /\ BnValue(BnModMul(x, y, m)) = (BnValue(x) * BnValue(y)) % BnValue(m)
      BY ONLY <3>1, ModMulIs
    <3>. QED
      BY <1>2, <1>7, <3>2
  <2> DEFINE z == (A % M) * (B % M)
  <2>2. z \in Int
    BY <1>8
  <2>. HIDE DEF z
  <2>3. z % M \in Nat /\ z % M < Raised(LimbBase, MaxLimbs)
    BY <1>9, <2>2 DEF room
  <2>. QED
    BY <1>5, <2>1, <2>3, NumberHolds DEF z
<1>17. ASSUME M > 1 \/ B > 0 PROVE IsNumber(got.power, Power(A % M, B, M))
  <2>1. /\ BnModExp(x, b, m) \in Numbers
        /\ BnValue(BnModExp(x, b, m)) = Power(BnValue(x) % BnValue(m), BnValue(b), BnValue(m))
    <3>1. BnValue(m) > 0 /\ (BnValue(m) > 1 \/ BnValue(b) > 0) /\ x \in Numbers /\ b \in Numbers /\ m \in Numbers
      BY <1>2, <1>6, <1>7, <1>17
    <3>. QED
      BY ONLY <3>1, ModExpIs
  <2>2. BnValue(x) % BnValue(m) = A % M
    <3>1. (A % M) % M = A % M
      BY <1>6, <1>8, RemainderKept
    <3>. QED
      BY <1>2, <1>7, <3>1
  <2> DEFINE z == Power(A % M, B, M)
  <2>3. z \in Nat /\ z < M
    BY <1>2, <1>6, <1>8, PowerRange
  <2>4. BnValue(BnModExp(x, b, m)) = z
    BY <1>2, <2>1, <2>2
  <2>. HIDE DEF z
  <2>5. z < Raised(LimbBase, MaxLimbs)
    BY <1>2, <1>3, <2>3 DEF room
  <2>. QED
    BY <1>5, <2>1, <2>3, <2>4, <2>5, NumberHolds DEF z
<1>18. IF A >= TwoTo(ByteBits * Len(j.b)) THEN got.bytes = NoRoom
       ELSE Len(got.bytes) = Len(j.b) /\ BytesValue(got.bytes) = A
  <2>1. Len(j.b) \in Nat
    BY <1>4
  <2>. QED
    BY <1>2, <1>5, <2>1, ToBytesIs
<1>. QED
  BY <1>10, <1>11, <1>12, <1>13, <1>14, <1>15, <1>16, <1>17, <1>18 DEF Arithmetic, A, B, M, room, got
=============================================================================
