--------------------------- MODULE AlgorithmProofs ---------------------------
(***************************************************************************)
(* Proofs about the pure code, for inputs of every size: the calendar, the *)
(* vendor's keys, installing a license, the trusted time, JSON texts (over *)
(* the lemmas of JsonProofs), the buffering of the hash functions and      *)
(* base64url.                                                              *)
(***************************************************************************)
EXTENDS BignumProofs

(***************************************************************************)
(* The calendar.                                                           *)
(***************************************************************************)

LEMMA EpochIsNat == EpochDays \in Nat
  BY SMT DEF EpochDays

InEra(e, r, k, d) == e * 146097 + (r * 365 + r \div 4 - r \div 100) + (153 * k + 2) \div 5 + d - 1 - EpochDays

LEMMA EraOf ==
  ASSUME NEW e \in Int, NEW r \in Nat, r <= 399
  PROVE  (400 * e + r) \div 400 = e
  OBVIOUS

LEMMA DaysFromMarch ==
  ASSUME NEW e \in Int, NEW r \in Nat, r <= 399, NEW m \in Nat, 3 <= m, m <= 12, NEW d \in Int,
         NEW y \in Int, y = 400 * e + r, NEW k \in Int, k = m - 3
  PROVE  DaysFromCivil(y, m, d) = InEra(e, r, k, d)
<1>1. y \in Int /\ y \div 400 = e /\ y - e * 400 = r /\ m + (-3) = k /\ ~ (m <= 2) /\ m > 2
  BY EraOf
<1>. QED
  BY <1>1, EpochIsNat DEF DaysFromCivil, InEra

LEMMA DaysToFebruary ==
  ASSUME NEW e \in Int, NEW r \in Nat, r <= 399, NEW m \in Nat, 1 <= m, m <= 2, NEW d \in Int,
         NEW y \in Int, y = 400 * e + r + 1, NEW k \in Int, k = m + 9
  PROVE  DaysFromCivil(y, m, d) = InEra(e, r, k, d)
<1>1. y \in Int /\ (y - 1) \div 400 = e /\ (y - 1) - e * 400 = r /\ m <= 2 /\ ~ (m > 2) /\ m + 9 = k
  <2>1. y - 1 = 400 * e + r
    OBVIOUS
  <2>. QED
    BY <2>1, EraOf
<1>. QED
  BY <1>1, EpochIsNat DEF DaysFromCivil, InEra

LEMMA EraOfYear ==
  ASSUME NEW y \in Int
  PROVE  /\ y = 400 * (y \div 400) + (y % 400)
         /\ y \div 400 \in Int /\ y % 400 \in Nat /\ y % 400 <= 399
  OBVIOUS

(* The calendar. *)
LEMMA NextMonth ==
  ASSUME NEW y \in Int, NEW m \in Nat, 1 <= m, m <= 11
  PROVE  DaysFromCivil(y, m + 1, 1) = DaysFromCivil(y, m, MonthDays(y, m)) + 1
<1> DEFINE e == y \div 400
           r == y % 400
           f == IF r = 0 THEN e - 1 ELSE e
           s == IF r = 0 THEN 399 ELSE r - 1
<1>1. /\ y = 400 * e + r /\ e \in Int /\ r \in Nat /\ r <= 399
      /\ y = 400 * f + s + 1 /\ f \in Int /\ s \in Nat /\ s <= 399
  <2>1. y = 400 * e + r /\ e \in Int /\ r \in Nat /\ r <= 399
    BY EraOfYear
  <2>. HIDE DEF e, r
  <2>. QED
    BY <2>1
<1>2. IF r = 0 THEN f = e - 1 /\ s = 399 ELSE f = e /\ s = r - 1
  BY <1>1
<1>3. IsLeap(y) <=> r % 4 = 0 /\ (r % 100 # 0 \/ r = 0)
  <2>1. y = 400 * e + r /\ e \in Int /\ r \in Nat /\ r <= 399
    BY <1>1
  <2>2. y % 4 = r % 4 /\ y % 100 = r % 100 /\ y % 400 = r
    <3>. HIDE DEF e
    <3>. QED
      BY <2>1
  <2>. HIDE DEF e, r
  <2>. QED
    BY <2>1, <2>2 DEF IsLeap
<1>. HIDE DEF e, r, f, s
<1>4. ASSUME NEW d \in Int
      PROVE  /\ DaysFromCivil(y, 1, d) = InEra(f, s, 10, d)
             /\ DaysFromCivil(y, 2, d) = InEra(f, s, 11, d)
             /\ \A n \in Nat, k \in Int :
                    3 <= n /\ n <= 12 /\ k = n - 3 => DaysFromCivil(y, n, d) = InEra(e, r, k, d)
  <2>1. DaysFromCivil(y, 1, d) = InEra(f, s, 10, d)
    <3>1. y = 400 * f + s + 1 /\ f \in Int /\ s \in Nat /\ s <= 399
      BY <1>1
    <3>2. 1 \in Nat /\ 1 <= 1 /\ 1 <= 2 /\ 10 \in Int /\ 10 = 1 + 9
      OBVIOUS
    <3>. QED
      BY <3>1, <3>2, DaysToFebruary
  <2>2. DaysFromCivil(y, 2, d) = InEra(f, s, 11, d)
    <3>1. y = 400 * f + s + 1 /\ f \in Int /\ s \in Nat /\ s <= 399
      BY <1>1
    <3>2. 2 \in Nat /\ 1 <= 2 /\ 2 <= 2 /\ 11 \in Int /\ 11 = 2 + 9
      OBVIOUS
    <3>. QED
      BY <3>1, <3>2, DaysToFebruary
  <2>3. ASSUME NEW n \in Nat, NEW k \in Int, 3 <= n, n <= 12, k = n - 3
        PROVE  DaysFromCivil(y, n, d) = InEra(e, r, k, d)
    BY <1>1, <2>3, DaysFromMarch
  <2>. QED
    BY <2>1, <2>2, <2>3
<1>5. MonthDays(y, m) \in Int
  BY DEF MonthDays
<1>6. CASE m = 1
  BY <1>1, <1>4, <1>6, EpochIsNat DEF MonthDays, InEra
<1>7. CASE m = 2
  <2>1. DaysFromCivil(y, 3, 1) = InEra(e, r, 0, 1)
    BY <1>4
  <2>2. DaysFromCivil(y, 2, MonthDays(y, 2)) = InEra(f, s, 11, IF IsLeap(y) THEN 29 ELSE 28)
    BY <1>4 DEF MonthDays
  <2>3. CASE r = 0
    BY <1>1, <1>2, <1>3, <1>7, <2>1, <2>2, <2>3, EpochIsNat DEF InEra
  <2>4. CASE r # 0
    <3>1. r \div 4 - s \div 4 = IF r % 4 = 0 THEN 1 ELSE 0
      BY <1>1, <1>2, <2>4
    <3>2. r \div 100 - s \div 100 = IF r % 100 = 0 THEN 1 ELSE 0
      BY <1>1, <1>2, <2>4
    <3>3. r % 100 = 0 => r % 4 = 0
      BY <1>1
    <3>4. InEra(e, r, 0, 1) = InEra(f, s, 11, IF IsLeap(y) THEN 29 ELSE 28) + 1
      BY <1>1, <1>2, <1>3, <2>4, <3>1, <3>2, <3>3, EpochIsNat DEF InEra
    <3>. QED
      BY <1>7, <2>1, <2>2, <3>4
  <2>. QED
    BY <2>3, <2>4
<1>8. CASE m >= 3
  <2>1. DaysFromCivil(y, m + 1, 1) = InEra(e, r, m - 2, 1)
    BY <1>4, <1>8
  <2>2. DaysFromCivil(y, m, MonthDays(y, m)) = InEra(e, r, m - 3, MonthDays(y, m))
    BY <1>4, <1>5, <1>8
  <2>3. (153 * (m - 2) + 2) \div 5 = (153 * (m - 3) + 2) \div 5 + MonthDays(y, m)
    <3>1. m \in 3..11
      BY <1>8
    <3>. QED
      BY <3>1 DEF MonthDays
  <2>. QED
    BY <1>1, <1>5, <1>8, <2>1, <2>2, <2>3, EpochIsNat DEF InEra
<1>. QED
  BY <1>6, <1>7, <1>8

LEMMA NextYear ==
  ASSUME NEW y \in Int
  PROVE  DaysFromCivil(y + 1, 1, 1) = DaysFromCivil(y, 12, 31) + 1
<1> DEFINE e == y \div 400
           r == y % 400
<1>1. y = 400 * e + r /\ e \in Int /\ r \in Nat /\ r <= 399
  BY EraOfYear
<1>. HIDE DEF e, r
<1>2. DaysFromCivil(y + 1, 1, 1) = InEra(e, r, 10, 1) /\ DaysFromCivil(y, 12, 31) = InEra(e, r, 9, 31)
  <2>1. y + 1 = 400 * e + r + 1
    BY <1>1
  <2>2. DaysFromCivil(y + 1, 1, 1) = InEra(e, r, 10, 1)
    BY <1>1, <2>1, DaysToFebruary
  <2>3. DaysFromCivil(y, 12, 31) = InEra(e, r, 9, 31)
    BY <1>1, DaysFromMarch
  <2>. QED
    BY <2>2, <2>3
<1>. QED
  BY <1>1, <1>2, EpochIsNat DEF InEra

LEMMA NextDay ==
  ASSUME NEW y \in Int, NEW m \in Nat, 1 <= m, m <= 12, NEW d \in Int
  PROVE  DaysFromCivil(y, m, d + 1) = DaysFromCivil(y, m, d) + 1
  BY EpochIsNat DEF DaysFromCivil
(* The days of the calendar are numbered one after the other in every      *)
(* year, before and after the epoch, through the ends of months, Februaries*)
(* and years; with the code's constant the first of January 1970 is 0.     *)
(* hlm_parse_iso8601 therefore never skips or repeats a day.               *)
THEOREM DaysAreCounted ==
  ASSUME NEW y \in Int, NEW m \in 1..12, NEW d \in 1..MonthDays(y, m)
  PROVE  /\ DaysFromCivil(y, m, d) + 1 =
              IF d < MonthDays(y, m) THEN DaysFromCivil(y, m, d + 1)
              ELSE IF m < 12 THEN DaysFromCivil(y, m + 1, 1) ELSE DaysFromCivil(y + 1, 1, 1)
         /\ DaysFromCivil(1970, 1, 1) = 0
<1>1. m \in Nat /\ 1 <= m /\ m <= 12 /\ MonthDays(y, m) \in Int /\ d \in Int
  BY DEF MonthDays
<1>. DEFINE tomorrow == IF d < MonthDays(y, m) THEN DaysFromCivil(y, m, d + 1)
                        ELSE IF m < 12 THEN DaysFromCivil(y, m + 1, 1) ELSE DaysFromCivil(y + 1, 1, 1)
<1>2. DaysFromCivil(y, m, d) + 1 = tomorrow
  <2>1. CASE d < MonthDays(y, m)
    BY <1>1, <2>1, NextDay
  <2>2. CASE ~ (d < MonthDays(y, m)) /\ m < 12
    <3>1. d = MonthDays(y, m) /\ m <= 11
      BY <1>1, <2>2
    <3>. QED
      BY <1>1, <2>2, <3>1, NextMonth
  <2>3. CASE ~ (d < MonthDays(y, m)) /\ ~ (m < 12)
    <3>1. m = 12 /\ d = MonthDays(y, m)
      BY <1>1, <2>3
    <3>2. MonthDays(y, m) = 31
      BY <3>1 DEF MonthDays
    <3>. QED
      BY <2>3, <3>1, <3>2, NextYear
  <2>. QED
    BY <2>1, <2>2, <2>3
<1>3. DaysFromCivil(1970, 1, 1) = 0
  BY SMT DEF DaysFromCivil, EpochDays
<1>. QED
  BY <1>2, <1>3, SMT

LEMMA DaysAreIntegers ==
  ASSUME NEW y \in Int, NEW m \in Nat, NEW d \in Int
  PROVE  DaysFromCivil(y, m, d) \in Int
  BY EpochIsNat DEF DaysFromCivil

LEMMA DaysInMonth ==
  ASSUME NEW y \in Int, NEW m \in Nat, NEW d \in Int
  PROVE  DaysFromCivil(y, m, d) = DaysFromCivil(y, m, 1) + d - 1
  BY EpochIsNat DEF DaysFromCivil

(* The first of each month, from the lengths of the months before it.      *)
MonthLengths(y) == [k \in 1..12 |-> MonthDays(y, k)]

LEMMA MonthsAreCounted ==
  ASSUME NEW y \in Int
  PROVE  \A m \in 1..12 : /\ SumTo(MonthLengths(y), m - 1) \in Int
                          /\ DaysFromCivil(y, m, 1) = DaysFromCivil(y, 1, 1) + SumTo(MonthLengths(y), m - 1)
<1> DEFINE S == {i \in 0..11 : /\ SumTo(MonthLengths(y), i) \in Int
                               /\ DaysFromCivil(y, i + 1, 1) = DaysFromCivil(y, 1, 1) + SumTo(MonthLengths(y), i)}
<1>1. 0 \in S
  <2>1. SumTo(MonthLengths(y), 0) = 0 /\ DaysFromCivil(y, 1, 1) \in Int /\ 0 + 1 = 1
    BY SumStep, DaysAreIntegers
  <2>. QED
    BY <2>1
<1>2. \A i \in 0..(11 - 1) : i \in S => i + 1 \in S
  <2>. SUFFICES ASSUME NEW i \in 0..(11 - 1), i \in S PROVE i + 1 \in S
    OBVIOUS
  <2> DEFINE m == i + 1
  <2>1. m \in Nat /\ 1 <= m /\ m <= 11 /\ m \in 1..12 /\ i \in Nat
    OBVIOUS
  <2>2. MonthDays(y, m) \in Int /\ MonthLengths(y)[m] = MonthDays(y, m)
    BY <2>1 DEF MonthDays, MonthLengths
  <2>3. SumTo(MonthLengths(y), m) = SumTo(MonthLengths(y), i) + MonthLengths(y)[m]
    BY <2>1, SumStep
  <2>4. DaysFromCivil(y, m + 1, 1) = DaysFromCivil(y, m, MonthDays(y, m)) + 1
    BY <2>1, NextMonth
  <2>5. DaysFromCivil(y, m, MonthDays(y, m)) = DaysFromCivil(y, m, 1) + MonthDays(y, m) - 1
    BY <2>1, <2>2, DaysInMonth
  <2>6. /\ SumTo(MonthLengths(y), i) \in Int
        /\ DaysFromCivil(y, m, 1) = DaysFromCivil(y, 1, 1) + SumTo(MonthLengths(y), i)
    OBVIOUS
  <2>7. DaysFromCivil(y, 1, 1) \in Int /\ DaysFromCivil(y, m, 1) \in Int
    BY <2>1, DaysAreIntegers
  <2>8. SumTo(MonthLengths(y), m) \in Int
    BY <2>2, <2>3, <2>6
  <2>9. DaysFromCivil(y, m + 1, 1) = DaysFromCivil(y, 1, 1) + SumTo(MonthLengths(y), m)
    BY <2>2, <2>3, <2>4, <2>5, <2>6, <2>7
  <2>10. m \in 0..11
    OBVIOUS
  <2>. HIDE DEF m
  <2>11. m \in S
    BY <2>8, <2>9, <2>10
  <2>. QED
    BY <2>11 DEF m
<1>. HIDE DEF S
<1>3. 0..11 \subseteq S
  BY <1>1, <1>2, InductionUpTo
<1>4. ASSUME NEW m \in 1..12
      PROVE  /\ SumTo(MonthLengths(y), m - 1) \in Int
             /\ DaysFromCivil(y, m, 1) = DaysFromCivil(y, 1, 1) + SumTo(MonthLengths(y), m - 1)
  <2>1. m - 1 \in S /\ (m - 1) + 1 = m
    BY <1>3
  <2>. QED
    BY <2>1 DEF S
<1>. QED
  BY <1>4

LEMMA YearHasItsMonths ==
  ASSUME NEW y \in Int
  PROVE  SumTo(MonthLengths(y), 11) = 334 + (IF IsLeap(y) THEN 1 ELSE 0)
<1> DEFINE f == MonthLengths(y)
           leap == IF IsLeap(y) THEN 1 ELSE 0
<1>1. /\ f[1] = 31 /\ f[2] = 28 + leap /\ f[3] = 31 /\ f[4] = 30 /\ f[5] = 31 /\ f[6] = 30
      /\ f[7] = 31 /\ f[8] = 31 /\ f[9] = 30 /\ f[10] = 31 /\ f[11] = 30
  BY DEF MonthLengths, MonthDays
<1>2. leap \in Nat
  OBVIOUS
<1>. HIDE DEF f, leap
<1>3. SumTo(f, 0) = 0 /\ \A n \in Nat : SumTo(f, n + 1) = SumTo(f, n) + f[n + 1]
  BY SumStep
<1>4. SumTo(f, 0 + 1) = 31 /\ SumTo(f, 1 + 1) = 59 + leap
  BY <1>1, <1>2, <1>3
<1>5. SumTo(f, 2 + 1) = 90 + leap /\ SumTo(f, 3 + 1) = 120 + leap
  BY <1>1, <1>2, <1>3, <1>4
<1>6. SumTo(f, 4 + 1) = 151 + leap /\ SumTo(f, 5 + 1) = 181 + leap
  BY <1>1, <1>2, <1>3, <1>5
<1>7. SumTo(f, 6 + 1) = 212 + leap /\ SumTo(f, 7 + 1) = 243 + leap
  BY <1>1, <1>2, <1>3, <1>6
<1>8. SumTo(f, 8 + 1) = 273 + leap /\ SumTo(f, 9 + 1) = 304 + leap
  BY <1>1, <1>2, <1>3, <1>7
<1>9. SumTo(f, 10 + 1) = 334 + leap
  BY <1>1, <1>2, <1>3, <1>8
<1>. QED
  BY <1>9 DEF f, leap

LEMMA YearFollowsYear ==
  ASSUME NEW y \in Int
  PROVE  DaysFromCivil(y + 1, 1, 1) = DaysFromCivil(y, 1, 1) + 365 + (IF IsLeap(y) THEN 1 ELSE 0)
<1> DEFINE leap == IF IsLeap(y) THEN 1 ELSE 0
<1>1. DaysFromCivil(y + 1, 1, 1) = DaysFromCivil(y, 12, 31) + 1
  BY NextYear
<1>2. DaysFromCivil(y, 12, 31) = DaysFromCivil(y, 12, 1) + 31 - 1
  BY DaysInMonth
<1>3. DaysFromCivil(y, 12, 1) = DaysFromCivil(y, 1, 1) + SumTo(MonthLengths(y), 12 - 1)
  <2>1. 12 \in 1..12
    OBVIOUS
  <2>. QED
    BY <2>1, MonthsAreCounted
<1>4. SumTo(MonthLengths(y), 12 - 1) = 334 + leap
  BY YearHasItsMonths
<1>5. DaysFromCivil(y, 1, 1) \in Int /\ leap \in Int
  BY DaysAreIntegers
<1>. QED
  BY <1>1, <1>2, <1>3, <1>4, <1>5

(* Leap years between two years.                                           *)
LEMMA OneLeapMore ==
  ASSUME NEW S, IsFiniteSet(S), NEW y, y \notin S, NEW T, NEW leap \in BOOLEAN, T = IF leap THEN S \cup {y} ELSE S
  PROVE  IsFiniteSet(T) /\ Cardinality(S) \in Nat /\ Cardinality(T) = Cardinality(S) + (IF leap THEN 1 ELSE 0)
<1>1. IsFiniteSet(S \cup {y}) /\ Cardinality(S \cup {y}) = Cardinality(S) + 1
  BY FS_AddElement
<1>2. Cardinality(S) \in Nat
  BY FS_CardinalityType
<1>. QED
  BY <1>1, <1>2

LEMMA YearsAreFinite ==
  ASSUME NEW a \in Int, NEW b \in Int
  PROVE  IsFiniteSet({y \in a..(b - 1) : IsLeap(y)})
<1>1. IsFiniteSet(a..(b - 1))
  BY FS_Interval
<1>2. {y \in a..(b - 1) : IsLeap(y)} \subseteq a..(b - 1)
  OBVIOUS
<1>. QED
  BY <1>1, <1>2, FS_Subset

LEMMA LeapIsBoolean == ASSUME NEW y \in Int PROVE IsLeap(y) \in BOOLEAN
  BY DEF IsLeap

LEMMA LeapDaysEmpty ==
  ASSUME NEW a \in Int, NEW b \in Int, b <= a
  PROVE  LeapDays(a, b) = 0
<1>1. {y \in a..(b - 1) : IsLeap(y)} = {}
  OBVIOUS
<1>. QED
  BY <1>1, FS_EmptySet DEF LeapDays

LEMMA LeapDaysUp ==
  ASSUME NEW a \in Int, NEW b \in Int, a <= b
  PROVE  LeapDays(a, b) \in Nat /\ LeapDays(a, b + 1) = LeapDays(a, b) + (IF IsLeap(b) THEN 1 ELSE 0)
<1> DEFINE S == {y \in a..(b - 1) : IsLeap(y)}
           T == {y \in a..((b + 1) - 1) : IsLeap(y)}
<1>1. T = IF IsLeap(b) THEN S \cup {b} ELSE S
  OBVIOUS
<1>2. b \notin S /\ IsLeap(b) \in BOOLEAN
  BY LeapIsBoolean
<1>3. IsFiniteSet(S)
  BY YearsAreFinite
<1>. HIDE DEF S, T
<1>4. Cardinality(S) \in Nat /\ Cardinality(T) = Cardinality(S) + (IF IsLeap(b) THEN 1 ELSE 0)
  BY <1>1, <1>2, <1>3, OneLeapMore
<1>. QED
  BY <1>4 DEF LeapDays, S, T

LEMMA LeapDaysDown ==
  ASSUME NEW a \in Int, NEW b \in Int, a < b
  PROVE  LeapDays(a + 1, b) \in Nat /\ LeapDays(a, b) = LeapDays(a + 1, b) + (IF IsLeap(a) THEN 1 ELSE 0)
<1> DEFINE S == {y \in (a + 1)..(b - 1) : IsLeap(y)}
           T == {y \in a..(b - 1) : IsLeap(y)}
<1>1. T = IF IsLeap(a) THEN S \cup {a} ELSE S
  OBVIOUS
<1>2. a \notin S /\ IsLeap(a) \in BOOLEAN
  BY LeapIsBoolean
<1>3. IsFiniteSet(S)
  BY YearsAreFinite
<1>. HIDE DEF S, T
<1>4. Cardinality(S) \in Nat /\ Cardinality(T) = Cardinality(S) + (IF IsLeap(a) THEN 1 ELSE 0)
  BY <1>1, <1>2, <1>3, OneLeapMore
<1>. QED
  BY <1>4 DEF LeapDays, S, T

(* The first of January of every year.                                     *)
YearStart(y) == 365 * (y - 1970) + LeapDays(1970, y) - LeapDays(y, 1970)

LEMMA YearStartFollows ==
  ASSUME NEW y \in Int
  PROVE  /\ YearStart(y) \in Int
         /\ YearStart(y + 1) = YearStart(y) + 365 + (IF IsLeap(y) THEN 1 ELSE 0)
<1> DEFINE leap == IF IsLeap(y) THEN 1 ELSE 0
<1>0. leap \in Int /\ 1970 \in Int /\ y + 1 \in Int
  OBVIOUS
<1>1. CASE 1970 <= y
  <2>1. LeapDays(1970, y) \in Nat /\ LeapDays(1970, y + 1) = LeapDays(1970, y) + leap
    BY <1>1, LeapDaysUp
  <2>2. LeapDays(y, 1970) = 0 /\ LeapDays(y + 1, 1970) = 0
    BY <1>1, LeapDaysEmpty
  <2>. HIDE DEF leap
  <2>3. YearStart(y) \in Int /\ YearStart(y + 1) = YearStart(y) + 365 + leap
    BY <1>0, <2>1, <2>2 DEF YearStart
  <2>. QED
    BY <2>3 DEF leap
<1>2. CASE y < 1970
  <2>1. LeapDays(y + 1, 1970) \in Nat /\ LeapDays(y, 1970) = LeapDays(y + 1, 1970) + leap
    BY <1>2, LeapDaysDown
  <2>2. LeapDays(1970, y) = 0 /\ LeapDays(1970, y + 1) = 0
    BY <1>2, LeapDaysEmpty
  <2>. HIDE DEF leap
  <2>3. YearStart(y) \in Int /\ YearStart(y + 1) = YearStart(y) + 365 + leap
    BY <1>0, <2>1, <2>2 DEF YearStart
  <2>. QED
    BY <2>3 DEF leap
<1>. QED
  BY <1>1, <1>2

LEMMA YearsAreCounted ==
  \A y \in Int : DaysFromCivil(y, 1, 1) = YearStart(y)
<1> DEFINE Right(y) == DaysFromCivil(y, 1, 1) = YearStart(y)
           S == {n \in Nat : Right(1970 + n)}
           T == {n \in Nat : Right(1970 - n)}
<1>1. Right(1970)
  <2>1. DaysFromCivil(1970, 1, 1) = 0
    BY SMT DEF DaysFromCivil, EpochDays
  <2>2. LeapDays(1970, 1970) = 0
    BY LeapDaysEmpty
  <2>. QED
    BY <2>1, <2>2 DEF YearStart
<1>2. ASSUME NEW y \in Int PROVE Right(y) <=> Right(y + 1)
  <2> DEFINE leap == IF IsLeap(y) THEN 1 ELSE 0
  <2>1. /\ DaysFromCivil(y + 1, 1, 1) = DaysFromCivil(y, 1, 1) + 365 + leap
        /\ YearStart(y + 1) = YearStart(y) + 365 + leap
    BY YearFollowsYear, YearStartFollows
  <2>2. DaysFromCivil(y, 1, 1) \in Int /\ YearStart(y) \in Int /\ leap \in Int
    BY DaysAreIntegers, YearStartFollows
  <2>. HIDE DEF leap
  <2>. QED
    BY <2>1, <2>2
<1>. HIDE DEF Right
<1>3. Nat \subseteq S
  <2>1. 0 \in S
    BY <1>1
  <2>2. \A n \in Nat : n \in S => n + 1 \in S
    <3>. SUFFICES ASSUME NEW n \in Nat, Right(1970 + n) PROVE Right(1970 + (n + 1))
      OBVIOUS
    <3>1. 1970 + n \in Int /\ 1970 + (n + 1) = (1970 + n) + 1
      OBVIOUS
    <3>. QED
      BY <1>2, <3>1
  <2>. HIDE DEF S
  <2>. QED
    BY <2>1, <2>2, Induction
<1>4. Nat \subseteq T
  <2>1. 0 \in T
    BY <1>1
  <2>2. \A n \in Nat : n \in T => n + 1 \in T
    <3>. SUFFICES ASSUME NEW n \in Nat, Right(1970 - n) PROVE Right(1970 - (n + 1))
      OBVIOUS
    <3>1. 1970 - (n + 1) \in Int /\ (1970 - (n + 1)) + 1 = 1970 - n
      OBVIOUS
    <3>. QED
      BY <1>2, <3>1
  <2>. HIDE DEF T
  <2>. QED
    BY <2>1, <2>2, Induction
<1>5. ASSUME NEW y \in Int PROVE Right(y)
  <2>1. CASE 1970 <= y
    <3>1. y - 1970 \in S /\ 1970 + (y - 1970) = y
      BY <1>3, <2>1
    <3>. QED
      BY <3>1
  <2>2. CASE y < 1970
    <3> DEFINE n == 1970 - y
    <3>1. n \in Nat /\ 1970 - n = y
      BY <2>2
    <3>. HIDE DEF n
    <3>2. n \in T
      BY <1>4, <3>1
    <3>. QED
      BY <3>1, <3>2
  <2>. QED
    BY <2>1, <2>2
<1>. QED
  BY <1>5 DEF Right

LEMMA DatesAreCounted ==
  ASSUME NEW y \in Int, NEW m \in 1..12, NEW d \in Int
  PROVE  DaysFromCivil(y, m, d) = CountedDays(y, m, d)
<1>1. m \in Nat /\ DaysFromCivil(y, m, d) = DaysFromCivil(y, m, 1) + d - 1
  BY DaysInMonth
<1>2. /\ SumTo(MonthLengths(y), m - 1) \in Int
      /\ DaysFromCivil(y, m, 1) = DaysFromCivil(y, 1, 1) + SumTo(MonthLengths(y), m - 1)
  BY MonthsAreCounted
<1>3. DaysFromCivil(y, 1, 1) = YearStart(y)
  BY YearsAreCounted
<1>4. CountedDays(y, m, d) = YearStart(y) + SumTo(MonthLengths(y), m - 1) + d - 1
  BY DEF CountedDays, YearStart, MonthLengths
<1>. QED
  BY <1>1, <1>2, <1>3, <1>4

LEMMA DateIsReadRight ==
  ASSUME NEW t, t \in [year : Nat, mon : Nat, day : Nat, hour : Nat, min : Nat, sec : Nat,
                       zone : [hours : Int, minutes : Int], rest : BOOLEAN],
         NEW inRange,
         inRange = (/\ t.mon \in 1..12 /\ t.day >= 1 /\ t.hour < 24 /\ t.min < 60 /\ t.sec <= 60)
  PROVE  IF inRange /\ ~ t.rest /\ t.day <= MonthDays(t.year, t.mon)
         THEN ParseIso(t) = <<CountedDays(t.year, t.mon, t.day),
                              60 * (60 * (t.hour - t.zone.hours) + t.min - t.zone.minutes) + t.sec>>
         ELSE ParseIso(t) = NoInstant \/ (inRange /\ ~ t.rest)
<1>1. /\ t.year \in Int /\ t.mon \in Nat /\ t.day \in Nat /\ t.hour \in Nat /\ t.min \in Nat /\ t.sec \in Nat
      /\ t.zone.hours \in Int /\ t.zone.minutes \in Int /\ t.rest \in BOOLEAN
  OBVIOUS
<1>2. CASE inRange /\ ~ t.rest /\ t.day <= MonthDays(t.year, t.mon)
  <2>0. /\ t.mon \in 1..12 /\ t.day >= 1 /\ t.hour < 24 /\ t.min < 60 /\ t.sec <= 60
        /\ t.rest = FALSE /\ t.day <= MonthDays(t.year, t.mon)
    BY <1>1, <1>2
  <2>1. MonthDays(t.year, t.mon) <= 31 /\ MonthDays(t.year, t.mon) \in Int
    BY DEF MonthDays
  <2>2. FieldsInRange(t)
    BY <1>1, <2>0, <2>1 DEF FieldsInRange
  <2>3. t.hour * 3600 + t.min * 60 + t.sec - (t.zone.hours * 3600 + t.zone.minutes * 60)
          = 60 * (60 * (t.hour - t.zone.hours) + t.min - t.zone.minutes) + t.sec
    BY <1>1
  <2>4. DaysFromCivil(t.year, t.mon, t.day) = CountedDays(t.year, t.mon, t.day)
    BY <1>1, <2>0, DatesAreCounted
  <2>. QED
    BY <1>2, <2>0, <2>2, <2>3, <2>4 DEF ParseIso
<1>3. CASE ~ (inRange /\ ~ t.rest)
  <2>1. t.rest \/ ~ FieldsInRange(t)
    BY <1>1, <1>3 DEF FieldsInRange
  <2>. QED
    BY <1>3, <2>1 DEF ParseIso
<1>. QED
  BY <1>2, <1>3

(***************************************************************************)
(* The vendor's keys.                                                      *)
(***************************************************************************)

LEMMA SpansOfTwo ==
  ASSUME NEW jwk \in Jwks, NEW c \in Nat, Len(Members(jwk.kty)) = 2
  PROVE  LET len1 == jwk.len[Members(jwk.kty)[1]]
             len2 == jwk.len[Members(jwk.kty)[2]]
         IN DecodeMembers(jwk, c) =
              IF len1 = Missing \/ len2 = Missing \/ c + len1 > KeyBuf \/ c + len1 + len2 > KeyBuf THEN <<>>
              ELSE <<Span(c, len1), Span(c + len1, len2)>>
<1> DEFINE names == Members(jwk.kty)
           at[i \in 1..(Len(names) + 1)] == IF i = 1 THEN c ELSE at[i - 1] + jwk.len[names[i - 1]]
           g == [i \in 1..3 |-> IF i = 1 THEN c ELSE IF i = 2 THEN c + jwk.len[names[1]]
                                ELSE c + jwk.len[names[1]] + jwk.len[names[2]]]
<1>1. g = [i \in 1..(Len(names) + 1) |-> IF i = 1 THEN c ELSE g[i - 1] + jwk.len[names[i - 1]]]
  <2>. HIDE DEF names
  <2>1. Len(names) + 1 = 3
    BY DEF names
  <2>. QED
    BY <2>1
<1>2. at = [i \in 1..(Len(names) + 1) |-> IF i = 1 THEN c ELSE at[i - 1] + jwk.len[names[i - 1]]]
  <2>. HIDE DEF g, names
  <2>. QED
    BY <1>1
<1>3. DecodeMembers(jwk, c) =
        IF \E i \in DOMAIN names : jwk.len[names[i]] = Missing \/ at[i] + jwk.len[names[i]] > KeyBuf THEN <<>>
        ELSE [i \in DOMAIN names |-> Span(at[i], jwk.len[names[i]])]
  BY DEF DecodeMembers
<1>. HIDE DEF at, g
<1>4. at[1] = c /\ at[2] = c + jwk.len[names[1]]
  BY <1>2
<1>5. DOMAIN names = {1, 2}
  BY DEF Members
<1>. HIDE DEF names
<1>. QED
  BY <1>3, <1>4, <1>5 DEF names

LEMMA SpansOfOne ==
  ASSUME NEW jwk \in Jwks, NEW c \in Nat, Len(Members(jwk.kty)) = 1
  PROVE  LET len == jwk.len[Members(jwk.kty)[1]]
         IN DecodeMembers(jwk, c) =
              IF len = Missing \/ c + len > KeyBuf THEN <<>> ELSE <<Span(c, len)>>
<1> DEFINE names == Members(jwk.kty)
           at[i \in 1..(Len(names) + 1)] == IF i = 1 THEN c ELSE at[i - 1] + jwk.len[names[i - 1]]
           g == [i \in 1..2 |-> IF i = 1 THEN c ELSE c + jwk.len[names[1]]]
<1>1. g = [i \in 1..(Len(names) + 1) |-> IF i = 1 THEN c ELSE g[i - 1] + jwk.len[names[i - 1]]]
  <2>. HIDE DEF names
  <2>1. Len(names) + 1 = 2
    BY DEF names
  <2>. QED
    BY <2>1
<1>2. at = [i \in 1..(Len(names) + 1) |-> IF i = 1 THEN c ELSE at[i - 1] + jwk.len[names[i - 1]]]
  <2>. HIDE DEF g, names
  <2>. QED
    BY <1>1
<1>3. DecodeMembers(jwk, c) =
        IF \E i \in DOMAIN names : jwk.len[names[i]] = Missing \/ at[i] + jwk.len[names[i]] > KeyBuf THEN <<>>
        ELSE [i \in DOMAIN names |-> Span(at[i], jwk.len[names[i]])]
  BY DEF DecodeMembers
<1>. HIDE DEF at, g
<1>4. at[1] = c
  BY <1>2
<1>5. DOMAIN names = {1}
  BY DEF Members
<1>. HIDE DEF names
<1>. QED
  BY <1>3, <1>4, <1>5 DEF names

(* The key ParseJwk makes of a usable JWK: its spans lie one behind the    *)
(* other from the cursor on, and Advance steps over them.                  *)
SpansAt(jwk, c) ==
  IF jwk.kty = "OKP" THEN <<Span(c, jwk.len["x"])>>
  ELSE IF jwk.kty = "EC" THEN <<Span(c, jwk.len["x"]), Span(c + jwk.len["x"], jwk.len["y"])>>
  ELSE <<Span(c, jwk.len["n"]), Span(c + jwk.len["n"], jwk.len["e"])>>
KeyAt(jwk, c) == [alg |-> AlgOf(jwk.kty), spans |-> SpansAt(jwk, c)]

LEMMA JwkIsParsed ==
  ASSUME NEW jwk \in Jwks, NEW c \in Nat
  PROVE  IF UsableKey(jwk) /\ c + KeySize(jwk) <= KeyBuf
         THEN ParseJwk(jwk, c) = [err |-> "OK", keys |-> <<KeyAt(jwk, c)>>]
         ELSE ParseJwk(jwk, c) \in {Refusal("E_FORMAT"), Refusal("E_UNSUPPORTED_ALG")}
<1>0. /\ {KeyBuf, KeyToks, CoordLen} \subseteq Nat /\ jwk.toks \in Nat
  BY KeySetAssumption DEF Jwks
<1>1. CASE jwk.kty = "RSA"
  <2>1. jwk.len \in [{"n", "e"} -> Lengths]
    BY <1>1 DEF Jwks
  <2>2. Members(jwk.kty) = <<"n", "e">>
    BY <1>1 DEF Members
  <2>3. DecodeMembers(jwk, c) =
              IF jwk.len["n"] = Missing \/ jwk.len["e"] = Missing \/ c + jwk.len["n"] > KeyBuf
                 \/ c + jwk.len["n"] + jwk.len["e"] > KeyBuf THEN <<>>
              ELSE SpansAt(jwk, c)
    BY <1>1, <2>2, SpansOfTwo DEF SpansAt
  <2>4. UsableKey(jwk) <=> jwk.toks <= KeyToks /\ jwk.len["n"] # Missing /\ jwk.len["e"] # Missing
    BY <1>1, <2>1 DEF UsableKey
  <2>5. SpansAt(jwk, c) # <<>>
    BY <1>1 DEF SpansAt
  <2>. HIDE DEF SpansAt
  <2>6. KeySize(jwk) = jwk.len["n"] + jwk.len["e"]
    BY <1>1 DEF KeySize
  <2>7. ParseJwk(jwk, c) =
           IF jwk.toks > KeyToks \/ DecodeMembers(jwk, c) = <<>> THEN Refusal("E_FORMAT")
           ELSE [err |-> "OK", keys |-> <<[alg |-> AlgOf(jwk.kty), spans |-> DecodeMembers(jwk, c)]>>]
    BY <1>0, <1>1 DEF ParseJwk
  <2>. QED
    BY <1>0, <2>1, <2>3, <2>4, <2>5, <2>6, <2>7, SMTT(30) DEF KeyAt, Lengths, Missing, Refusal
<1>2. CASE jwk.kty = "EC"
  <2>1. jwk.len \in [{"x", "y"} -> Lengths]
    BY <1>2 DEF Jwks
  <2>2. Members(jwk.kty) = <<"x", "y">>
    BY <1>2 DEF Members
  <2>3. DecodeMembers(jwk, c) =
              IF jwk.len["x"] = Missing \/ jwk.len["y"] = Missing \/ c + jwk.len["x"] > KeyBuf
                 \/ c + jwk.len["x"] + jwk.len["y"] > KeyBuf THEN <<>>
              ELSE SpansAt(jwk, c)
    BY <1>2, <2>2, SpansOfTwo DEF SpansAt
  <2>4. UsableKey(jwk) <=> jwk.toks <= KeyToks /\ jwk.len["x"] = CoordLen /\ jwk.len["y"] = CoordLen
    BY <1>0, <1>2, <2>1 DEF UsableKey, Missing
  <2>5. /\ SpansAt(jwk, c) # <<>>
        /\ (\E i \in DOMAIN SpansAt(jwk, c) : SpansAt(jwk, c)[i].len # CoordLen)
              <=> jwk.len["x"] # CoordLen \/ jwk.len["y"] # CoordLen
    BY <1>2 DEF SpansAt, Span
  <2>. HIDE DEF SpansAt
  <2>6. KeySize(jwk) = jwk.len["x"] + jwk.len["y"]
    BY <1>2 DEF KeySize
  <2>7. ParseJwk(jwk, c) =
           IF jwk.toks > KeyToks \/ DecodeMembers(jwk, c) = <<>>
              \/ (\E i \in DOMAIN DecodeMembers(jwk, c) : DecodeMembers(jwk, c)[i].len # CoordLen)
           THEN Refusal("E_FORMAT")
           ELSE [err |-> "OK", keys |-> <<[alg |-> AlgOf(jwk.kty), spans |-> DecodeMembers(jwk, c)]>>]
    BY <1>0, <1>2 DEF ParseJwk
  <2>. QED
    BY <1>0, <2>1, <2>3, <2>4, <2>5, <2>6, <2>7, SMTT(30) DEF KeyAt, Lengths, Missing, Refusal
<1>3. CASE jwk.kty = "OKP"
  <2>1. jwk.len \in [{"x"} -> Lengths]
    BY <1>3 DEF Jwks
  <2>2. Members(jwk.kty) = <<"x">>
    BY <1>3 DEF Members
  <2>3. DecodeMembers(jwk, c) =
              IF jwk.len["x"] = Missing \/ c + jwk.len["x"] > KeyBuf THEN <<>> ELSE SpansAt(jwk, c)
    BY <1>3, <2>2, SpansOfOne DEF SpansAt
  <2>4. UsableKey(jwk) <=> jwk.toks <= KeyToks /\ jwk.len["x"] = CoordLen
    BY <1>0, <1>3, <2>1 DEF UsableKey, Missing
  <2>5. /\ SpansAt(jwk, c) # <<>>
        /\ (\E i \in DOMAIN SpansAt(jwk, c) : SpansAt(jwk, c)[i].len # CoordLen)
              <=> jwk.len["x"] # CoordLen
    BY <1>3 DEF SpansAt, Span
  <2>. HIDE DEF SpansAt
  <2>6. KeySize(jwk) = jwk.len["x"]
    BY <1>3 DEF KeySize
  <2>7. ParseJwk(jwk, c) =
           IF jwk.toks > KeyToks \/ DecodeMembers(jwk, c) = <<>>
              \/ (\E i \in DOMAIN DecodeMembers(jwk, c) : DecodeMembers(jwk, c)[i].len # CoordLen)
           THEN Refusal("E_FORMAT")
           ELSE [err |-> "OK", keys |-> <<[alg |-> AlgOf(jwk.kty), spans |-> DecodeMembers(jwk, c)]>>]
    BY <1>0, <1>3 DEF ParseJwk
  <2>. QED
    BY <1>0, <2>1, <2>3, <2>4, <2>5, <2>6, <2>7 DEF KeyAt, Lengths, Missing, Refusal
<1>4. CASE jwk.kty \notin {"RSA", "EC", "OKP"}
  <2>1. ~ UsableKey(jwk)
    BY <1>4 DEF UsableKey
  <2>2. ParseJwk(jwk, c) \in {Refusal("E_FORMAT"), Refusal("E_UNSUPPORTED_ALG")}
    BY <1>0, <1>4 DEF ParseJwk
  <2>. QED
    BY <2>1, <2>2 DEF Refusal
<1>. QED
  BY <1>1, <1>2, <1>3, <1>4

LEMMA UsableSize ==
  ASSUME NEW jwk \in Jwks, UsableKey(jwk), NEW c \in Nat
  PROVE  /\ KeySize(jwk) \in Nat
         /\ Advance(KeyAt(jwk, c)) = KeySize(jwk)
         /\ DOMAIN SpansAt(jwk, c) = DOMAIN Members(jwk.kty) /\ DOMAIN SpansAt(jwk, c) \subseteq {1, 2}
         /\ \A i \in DOMAIN SpansAt(jwk, c) :
              LET span == SpansAt(jwk, c)[i]
              IN /\ span.len = jwk.len[Members(jwk.kty)[i]]
                 /\ span.at \in Nat /\ span.len \in Nat
                 /\ c <= span.at /\ span.at + span.len <= c + KeySize(jwk)
         /\ \A i, j \in DOMAIN SpansAt(jwk, c) :
              i < j => SpansAt(jwk, c)[i].at + SpansAt(jwk, c)[i].len <= SpansAt(jwk, c)[j].at
<1>0. {KeyBuf, KeyToks, CoordLen} \subseteq Nat
  BY KeySetAssumption
<1>1. CASE jwk.kty = "RSA"
  <2>1. jwk.len \in [{"n", "e"} -> Nat]
    BY <1>1 DEF Jwks, UsableKey, Lengths, Missing
  <2>. QED
    BY <1>1, <2>1 DEF KeySize, KeyAt, SpansAt, Span, Advance, AlgOf, Members
<1>2. CASE jwk.kty = "EC"
  <2>1. jwk.len \in [{"x", "y"} -> Nat] /\ jwk.len["x"] = CoordLen /\ jwk.len["y"] = CoordLen
    BY <1>0, <1>2 DEF Jwks, UsableKey, Lengths, Missing
  <2>. QED
    BY <1>2, <2>1 DEF KeySize, KeyAt, SpansAt, Span, Advance, AlgOf, Members
<1>3. CASE jwk.kty = "OKP"
  <2>1. jwk.len \in [{"x"} -> Nat] /\ jwk.len["x"] = CoordLen
    BY <1>0, <1>3 DEF Jwks, UsableKey, Lengths, Missing
  <2>. QED
    BY <1>3, <2>1 DEF KeySize, KeyAt, SpansAt, Span, Advance, AlgOf, Members
<1>. QED
  BY <1>1, <1>2, <1>3 DEF UsableKey

LEMMA SizesAdd ==
  ASSUME NEW set \in Seq(Jwks)
  PROVE  SizeUpTo(set) = [i \in 0..Len(set) |-> IF i = 0 THEN 0 ELSE SizeUpTo(set)[i - 1] + KeySize(set[i])]
<1> DEFINE f == [i \in 1..Len(set) |-> KeySize(set[i])]
           size[i \in 0..Len(set)] == IF i = 0 THEN 0 ELSE size[i - 1] + KeySize(set[i])
<1>1. PICK g : IsSum(g, 0, f, Len(set))
  <2>1. Len(set) \in Nat
    OBVIOUS
  <2>. HIDE DEF f
  <2>. QED
    BY <2>1, SumsExist
<1>2. g = [i \in 0..Len(set) |-> IF i = 0 THEN 0 ELSE g[i - 1] + KeySize(set[i])]
  <2>1. \A i \in 0..Len(set) : i # 0 => f[i] = KeySize(set[i])
    OBVIOUS
  <2>. HIDE DEF f
  <2>. QED
    BY <1>1, <2>1 DEF IsSum
<1>3. size = [i \in 0..Len(set) |-> IF i = 0 THEN 0 ELSE size[i - 1] + KeySize(set[i])]
  BY <1>2
<1>4. SizeUpTo(set) = size
  BY DEF SizeUpTo
<1>. HIDE DEF size
<1>. QED
  BY <1>3, <1>4

LEMMA TokensAreCounted ==
  ASSUME NEW set \in Seq(Jwks)
  PROVE  TokensOf(set) \in Nat
<1> DEFINE n == Len(set)
           f == [i \in 1..n |-> set[i].toks]
           sum[i \in 0..Len(set)] == IF i = 0 THEN 1 ELSE sum[i - 1] + set[i].toks
<1>1. PICK g : IsSum(g, 1, f, n)
  <2>1. n \in Nat
    OBVIOUS
  <2>. HIDE DEF f, n
  <2>. QED
    BY <2>1, SumsExist
<1>2. g = [i \in 0..n |-> IF i = 0 THEN 1 ELSE g[i - 1] + set[i].toks]
  <2>1. \A i \in 0..n : i # 0 => f[i] = set[i].toks
    OBVIOUS
  <2>. HIDE DEF f
  <2>. QED
    BY <1>1, <2>1 DEF IsSum
<1>3. sum = [i \in 0..n |-> IF i = 0 THEN 1 ELSE sum[i - 1] + set[i].toks]
  BY <1>2
<1>4. TokensOf(set) = sum[n]
  BY DEF TokensOf
<1>5. \A i \in 1..n : set[i].toks \in Nat
  BY DEF Jwks
<1>. HIDE DEF sum, f
<1> DEFINE S == {i \in 0..n : sum[i] \in Nat}
<1>6. 0 \in S
  BY <1>3
<1>7. ASSUME NEW i \in 0..(n - 1), i \in S PROVE i + 1 \in S
  <2>1. i + 1 \in 0..n /\ i + 1 \in 1..n /\ i + 1 # 0 /\ (i + 1) - 1 = i
    OBVIOUS
  <2>2. sum[i + 1] = sum[i] + set[i + 1].toks
    BY <1>3, <2>1
  <2>. QED
    BY <1>5, <1>7, <2>1, <2>2
<1>. HIDE DEF S
<1>8. n \in S
  <2>1. n \in Nat /\ n \in 0..n
    OBVIOUS
  <2>. HIDE DEF n
  <2>. QED
    BY <1>6, <1>7, <2>1, InductionUpTo
<1>. QED
  BY <1>4, <1>8 DEF S

(* The loop of parse_jwks, as long as it has met no error.                 *)
KeysUpTo(set, run, i) ==
  /\ "err" \in DOMAIN run[i]
  /\ IF (\A k \in 1..i : UsableKey(set[k])) /\ SizeUpTo(set)[i] <= KeyBuf
     THEN /\ run[i].err = "OK" /\ run[i].cursor = SizeUpTo(set)[i]
          /\ run[i].keys = [k \in 1..i |-> KeyAt(set[k], SizeUpTo(set)[k - 1])]
     ELSE run[i].err # "OK"

LEMMA SizesGrow ==
  ASSUME NEW set \in Seq(Jwks), NEW i \in 1..Len(set), \A k \in 1..i : UsableKey(set[k])
  PROVE  /\ \A k \in 0..i : SizeUpTo(set)[k] \in Nat
         /\ \A k \in 1..i : SizeUpTo(set)[k] = SizeUpTo(set)[k - 1] + KeySize(set[k])
         /\ \A k, l \in 0..i : k <= l => SizeUpTo(set)[k] <= SizeUpTo(set)[l]
<1> DEFINE size == SizeUpTo(set)
<1>1. size[0] = 0 /\ \A k \in 1..i : size[k] = size[k - 1] + KeySize(set[k])
  BY SizesAdd
<1>2. \A k \in 1..i : KeySize(set[k]) \in Nat
  <2>1. \A k \in 1..i : set[k] \in Jwks /\ UsableKey(set[k])
    OBVIOUS
  <2>2. 0 \in Nat
    OBVIOUS
  <2>. QED
    BY <2>1, <2>2, UsableSize
<1>. HIDE DEF size
<1> DEFINE S == {l \in 0..i : \A k \in 0..l : size[k] \in Nat /\ size[l] \in Nat /\ size[k] <= size[l]}
<1>3. 0 \in S
  BY <1>1
<1>4. ASSUME NEW l \in 0..(i - 1), l \in S PROVE l + 1 \in S
  <2>1. size[l + 1] = size[l] + KeySize(set[l + 1]) /\ KeySize(set[l + 1]) \in Nat
    BY <1>1, <1>2
  <2>2. size[l] \in Nat /\ \A k \in 0..l : size[k] \in Nat /\ size[k] <= size[l]
    BY <1>4
  <2>3. \A k \in 0..(l + 1) : size[k] \in Nat /\ size[k] <= size[l + 1]
    <3>1. \A k \in 0..(l + 1) : k \in 0..l \/ k = l + 1
      OBVIOUS
    <3>. QED
      BY <2>1, <2>2, <3>1
  <2>. QED
    BY <2>1, <2>2, <2>3
<1>5. 0..i \subseteq S
  <2>. HIDE DEF S
  <2>1. i \in Nat
    OBVIOUS
  <2>. QED
    BY <1>3, <1>4, <2>1, InductionUpTo
<1>. QED
  BY <1>1, <1>5 DEF size

LEMMA NextKeyFollows ==
  ASSUME NEW set \in Seq(Jwks), NEW run, NEW i \in 1..Len(set), KeysUpTo(set, run, i - 1),
         run[i] = NextKey(run[i - 1], set[i])
  PROVE  KeysUpTo(set, run, i)
<1> DEFINE size == SizeUpTo(set)
           before == run[i - 1]
           jwk == set[i]
           key == ParseJwk(jwk, before.cursor)
<1>0. jwk \in Jwks /\ KeyBuf \in Nat
  BY KeySetAssumption
<1>3. run[i] = CASE before.err # "OK" -> before
                 [] before.err = "OK" /\ key.err # "OK" -> [before EXCEPT !.err = key.err]
                 [] OTHER -> [err |-> "OK", keys |-> before.keys \o key.keys,
                              cursor |-> before.cursor + Advance(key.keys[1])]
  BY DEF NextKey
<1>4. "err" \in DOMAIN before
  BY DEF KeysUpTo
<1>1. CASE (\A k \in 1..(i - 1) : UsableKey(set[k])) /\ size[i - 1] <= KeyBuf
  <2>1. before.err = "OK" /\ before.cursor = size[i - 1]
        /\ before.keys = [k \in 1..(i - 1) |-> KeyAt(set[k], size[k - 1])]
    BY <1>1 DEF KeysUpTo
  <2>2. size[i - 1] \in Nat
    <3>1. CASE i = 1
      BY <3>1, SizesAdd
    <3>2. CASE i # 1
      <4>1. i - 1 \in 1..Len(set) /\ i - 1 \in 0..(i - 1)
        BY <3>2
      <4>. QED
        BY <1>1, <4>1, SizesGrow
    <3>. QED
      BY <3>1, <3>2
  <2>3. size[i] = size[i - 1] + KeySize(jwk)
    BY SizesAdd
  <2>. HIDE DEF size, before, jwk
  <2>4. CASE UsableKey(jwk) /\ size[i - 1] + KeySize(jwk) <= KeyBuf
    <3>1. key = [err |-> "OK", keys |-> <<KeyAt(jwk, size[i - 1])>>]
      BY <1>0, <2>1, <2>2, <2>4, JwkIsParsed
    <3>2. Advance(KeyAt(jwk, size[i - 1])) = KeySize(jwk)
      BY <1>0, <2>2, <2>4, UsableSize
    <3>3. run[i] = [err |-> "OK", keys |-> before.keys \o <<KeyAt(jwk, size[i - 1])>>,
                    cursor |-> size[i - 1] + KeySize(jwk)]
      <4>. HIDE DEF key
      <4>. QED
        BY <1>3, <2>1, <3>1, <3>2
    <3>4. before.keys \o <<KeyAt(jwk, size[i - 1])>> = [k \in 1..i |-> KeyAt(set[k], size[k - 1])]
      BY <2>1 DEF jwk
    <3>5. (\A k \in 1..i : UsableKey(set[k])) /\ size[i] <= KeyBuf
      BY <1>1, <2>3, <2>4 DEF jwk
    <3>6. /\ "err" \in DOMAIN run[i] /\ run[i].err = "OK" /\ run[i].cursor = size[i]
          /\ run[i].keys = [k \in 1..i |-> KeyAt(set[k], size[k - 1])]
      <4>1. "err" \in DOMAIN run[i] /\ run[i].err = "OK" /\ run[i].cursor = size[i - 1] + KeySize(jwk)
        BY <3>3
      <4>2. run[i].keys = before.keys \o <<KeyAt(jwk, size[i - 1])>>
        BY <3>3
      <4>. QED
        BY <2>3, <3>4, <4>1, <4>2, Zenon
    <3>. QED
      BY <3>5, <3>6 DEF KeysUpTo, size
  <2>5. CASE ~ (UsableKey(jwk) /\ size[i - 1] + KeySize(jwk) <= KeyBuf)
    <3>1. key.err # "OK"
      <4>1. key \in {Refusal("E_FORMAT"), Refusal("E_UNSUPPORTED_ALG")}
        BY <1>0, <2>1, <2>2, <2>5, JwkIsParsed
      <4>. HIDE DEF key
      <4>. QED
        BY <4>1 DEF Refusal
    <3>2. "err" \in DOMAIN run[i] /\ run[i].err # "OK"
      <4>. HIDE DEF key
      <4>. QED
        BY <1>3, <1>4, <2>1, <3>1
    <3>3. ~ ((\A k \in 1..i : UsableKey(set[k])) /\ size[i] <= KeyBuf)
      BY <2>3, <2>5 DEF jwk
    <3>. QED
      BY <3>2, <3>3 DEF KeysUpTo, size
  <2>. QED
    BY <2>4, <2>5
<1>2. CASE ~ ((\A k \in 1..(i - 1) : UsableKey(set[k])) /\ size[i - 1] <= KeyBuf)
  <2>1. before.err # "OK" /\ run[i] = before
    BY <1>2, <1>3 DEF KeysUpTo
  <2>2. ~ ((\A k \in 1..i : UsableKey(set[k])) /\ size[i] <= KeyBuf)
    <3>. SUFFICES ASSUME \A k \in 1..i : UsableKey(set[k]) PROVE ~ (size[i] <= KeyBuf)
      OBVIOUS
    <3>1. size[i - 1] \in Nat /\ size[i] \in Nat /\ size[i - 1] <= size[i]
      BY SizesGrow
    <3>2. ~ (size[i - 1] <= KeyBuf)
      BY <1>2
    <3>. HIDE DEF size
    <3>. QED
      BY <1>0, <3>1, <3>2
  <2>. QED
    BY <1>4, <2>1, <2>2 DEF KeysUpTo
<1>. QED
  BY <1>1, <1>2

Taken(set) == SubSeq(set, 1, Min({MaxKeys, Len(set)}))

LEMMA TakenIsPrefix ==
  ASSUME NEW set \in Seq(Jwks)
  PROVE  LET n == IF Len(set) < MaxKeys THEN Len(set) ELSE MaxKeys
         IN /\ Taken(set) \in Seq(Jwks) /\ Len(Taken(set)) = n /\ n \in 0..Len(set)
            /\ \A k \in 1..n : Taken(set)[k] = set[k]
<1> DEFINE n == IF Len(set) < MaxKeys THEN Len(set) ELSE MaxKeys
<1>1. MaxKeys \in Nat /\ Len(set) \in Nat
  BY KeySetAssumption
<1>2. Min({MaxKeys, Len(set)}) = n
  <2>1. n \in {MaxKeys, Len(set)} /\ \A y \in {MaxKeys, Len(set)} : n <= y
    BY <1>1
  <2>2. \A x \in {MaxKeys, Len(set)} : (\A y \in {MaxKeys, Len(set)} : x <= y) => x = n
    BY <1>1
  <2>. HIDE DEF n
  <2>. QED
    BY <2>1, <2>2 DEF Min
<1>3. n \in 0..Len(set)
  BY <1>1
<1>. HIDE DEF n
<1>4. Taken(set) = SubSeq(set, 1, n)
  BY <1>2 DEF Taken
<1>5. Taken(set) \in Seq(Jwks) /\ Len(Taken(set)) = n /\ \A k \in 1..n : Taken(set)[k] = set[k]
  BY <1>3, <1>4
<1>. QED
  BY <1>3, <1>5 DEF n

LEMMA KeysAreParsed ==
  ASSUME NEW set \in Seq(Jwks)
  PROVE  LET n == Len(Taken(set))
         IN \E run : /\ KeysUpTo(Taken(set), run, n)
                     /\ ParseKeys(set) = [err |-> run[n].err, keys |-> run[n].keys]
<1> DEFINE n == IF Len(set) < MaxKeys THEN Len(set) ELSE MaxKeys
           taken == Taken(set)
           Empty == [err |-> "OK", keys |-> <<>>, cursor |-> 0]
           Solves(g, m) == g = [i \in 0..m |-> IF i = 0 THEN Empty ELSE NextKey(g[i - 1], set[i])]
           S == {m \in Nat : \E g : Solves(g, m)}
<1>0. /\ taken \in Seq(Jwks) /\ Len(taken) = n /\ n \in Nat /\ n <= Len(set)
      /\ \A k \in 1..n : taken[k] = set[k]
  BY TakenIsPrefix
<1>1. 0 \in S
  <2> DEFINE g == [i \in 0..0 |-> Empty]
  <2>1. Solves(g, 0)
    <3>1. \A i \in 0..0 : i = 0
      OBVIOUS
    <3>. QED
      BY <3>1
  <2>. QED
    BY <2>1
<1>2. ASSUME NEW m \in Nat, m \in S PROVE m + 1 \in S
  <2>1. PICK g : Solves(g, m)
    BY <1>2
  <2> DEFINE h == [i \in 0..(m + 1) |-> IF i <= m THEN g[i] ELSE NextKey(g[m], set[m + 1])]
  <2>2. Solves(h, m + 1)
    <3>. HIDE DEF Empty
    <3>. QED
      BY <2>1
  <2>. HIDE DEF h, Solves
  <2>. QED
    BY <2>2
<1>3. \E g : Solves(g, n)
  <2>. HIDE DEF S, n
  <2>1. n \in S
    BY <1>0, <1>1, <1>2, Induction
  <2>. QED
    BY <2>1 DEF S
<1> DEFINE run[i \in 0..n] == IF i = 0 THEN Empty ELSE NextKey(run[i - 1], set[i])
<1>4. run = [i \in 0..n |-> IF i = 0 THEN Empty ELSE NextKey(run[i - 1], set[i])]
  <2>. HIDE DEF n, Empty
  <2>. QED
    BY <1>3
<1>5. ParseKeys(set) = [err |-> run[n].err, keys |-> run[n].keys]
  BY DEF ParseKeys
<1>. HIDE DEF run, S, n, Solves
<1>6. KeysUpTo(taken, run, n)
  <2> DEFINE T == {i \in 0..n : KeysUpTo(taken, run, i)}
  <2>1. 0 \in T
    <3>1. SizeUpTo(taken)[0] = 0 /\ KeyBuf \in Nat
      BY <1>0, SizesAdd, KeySetAssumption
    <3>2. run[0] = Empty
      BY <1>0, <1>4
    <3>. QED
      BY <1>0, <3>1, <3>2 DEF KeysUpTo
  <2>2. ASSUME NEW i \in 0..(n - 1), i \in T PROVE i + 1 \in T
    <3>1. run[i + 1] = NextKey(run[i], taken[i + 1]) /\ i + 1 \in 1..Len(taken) /\ (i + 1) - 1 = i
      <4>1. i + 1 \in 0..n /\ i + 1 \in 1..n /\ i + 1 # 0 /\ (i + 1) - 1 = i
        BY <1>0
      <4>. HIDE DEF T, Empty, taken
      <4>2. run[i + 1] = NextKey(run[i], set[i + 1])
        BY <1>4, <4>1
      <4>. QED
        BY <1>0, <4>1, <4>2
    <3>2. KeysUpTo(taken, run, i)
      BY <2>2
    <3>. HIDE DEF T, taken
    <3>3. KeysUpTo(taken, run, i + 1)
      BY <1>0, <3>1, <3>2, NextKeyFollows
    <3>. QED
      BY <1>0, <3>3 DEF T
  <2>. HIDE DEF T
  <2>3. n \in T
    BY <1>0, <2>1, <2>2, InductionUpTo
  <2>. QED
    BY <2>3 DEF T
<1>. QED
  BY <1>0, <1>5, <1>6

(* What parse_jwks answers.                                                *)
GoodKeys(doc) ==
  /\ doc.set # <<>> /\ (doc.shape = "array" => TokensOf(doc.set) <= SetToks)
  /\ \A k \in DOMAIN Taken(doc.set) : UsableKey(Taken(doc.set)[k])
  /\ SizeUpTo(Taken(doc.set))[Len(Taken(doc.set))] <= KeyBuf
KeysOf(taken) == [k \in 1..Len(taken) |-> KeyAt(taken[k], SizeUpTo(taken)[k - 1])]

LEMMA KeysAreAnswered ==
  ASSUME NEW doc, doc.shape \in {"object", "array"}, doc.set \in Seq(Jwks), doc.shape = "object" => Len(doc.set) = 1
  PROVE  IF GoodKeys(doc) THEN ParseJwks(doc).err = "OK" /\ ParseJwks(doc).keys = KeysOf(Taken(doc.set))
         ELSE ParseJwks(doc).err # "OK" /\ ParseJwks(doc).keys = <<>>
<1> DEFINE taken == Taken(doc.set)
<1>1. /\ taken \in Seq(Jwks) /\ DOMAIN taken = 1..Len(taken)
      /\ Len(taken) = (IF Len(doc.set) < MaxKeys THEN Len(doc.set) ELSE MaxKeys)
      /\ \A k \in 1..Len(taken) : taken[k] = doc.set[k]
  <2>1. doc.set \in Seq(Jwks)
    OBVIOUS
  <2>. QED
    BY <2>1, TakenIsPrefix
<1>2. CASE doc.shape = "object"
  <2>1. Len(taken) = 1 /\ doc.set # <<>> /\ doc.set[1] \in Jwks /\ taken[1] = doc.set[1]
    BY <1>1, <1>2, KeySetAssumption
  <2>2. SizeUpTo(taken)[0] = 0 /\ SizeUpTo(taken)[1] = 0 + KeySize(taken[1])
    BY <1>1, <2>1, SizesAdd
  <2>3. ParseJwks(doc) = ParseJwk(taken[1], 0)
    BY <1>2, <2>1 DEF ParseJwks
  <2>4. GoodKeys(doc) <=> UsableKey(taken[1]) /\ 0 + KeySize(taken[1]) <= KeyBuf
    BY <1>1, <1>2, <2>1, <2>2 DEF GoodKeys
  <2>5. KeysOf(taken) = <<KeyAt(taken[1], 0)>>
    BY <2>1, <2>2 DEF KeysOf
  <2>6. 0 \in Nat
    OBVIOUS
  <2>. HIDE DEF taken
  <2>7. CASE GoodKeys(doc)
    <3>1. ParseJwk(taken[1], 0) = [err |-> "OK", keys |-> <<KeyAt(taken[1], 0)>>]
      BY <2>1, <2>4, <2>6, <2>7, JwkIsParsed
    <3>. QED
      BY <2>3, <2>5, <2>7, <3>1 DEF taken
  <2>8. CASE ~ GoodKeys(doc)
    <3>1. ParseJwk(taken[1], 0) \in {Refusal("E_FORMAT"), Refusal("E_UNSUPPORTED_ALG")}
      BY <2>1, <2>4, <2>6, <2>8, JwkIsParsed
    <3>. QED
      BY <2>3, <2>8, <3>1 DEF Refusal
  <2>. QED
    BY <2>7, <2>8
<1>3. CASE doc.shape = "array"
  <2>0. TokensOf(doc.set) \in Nat /\ SetToks \in Nat
    <3>1. doc.set \in Seq(Jwks)
      OBVIOUS
    <3>. QED
      BY <3>1, TokensAreCounted, KeySetAssumption
  <2>1. CASE doc.set = <<>> \/ ~ (TokensOf(doc.set) <= SetToks)
    <3>1. ~ GoodKeys(doc)
      BY <1>3, <2>1 DEF GoodKeys
    <3>2. ParseJwks(doc) = Refusal("E_FORMAT")
      BY <1>3, <2>0, <2>1 DEF ParseJwks
    <3>. QED
      BY <3>1, <3>2 DEF Refusal
  <2>2. CASE doc.set # <<>> /\ TokensOf(doc.set) <= SetToks
    <3>1. PICK run : /\ KeysUpTo(taken, run, Len(taken))
                     /\ ParseKeys(doc.set) = [err |-> run[Len(taken)].err, keys |-> run[Len(taken)].keys]
      <4>1. doc.set \in Seq(Jwks)
        OBVIOUS
      <4>. QED
        BY <4>1, KeysAreParsed
    <3>2. ParseJwks(doc) = IF ParseKeys(doc.set).err = "OK" THEN ParseKeys(doc.set)
                           ELSE Refusal(ParseKeys(doc.set).err)
      BY <1>3, <2>2 DEF ParseJwks
    <3>3. GoodKeys(doc) <=> (\A k \in 1..Len(taken) : UsableKey(taken[k])) /\ SizeUpTo(taken)[Len(taken)] <= KeyBuf
      BY <1>1, <1>3, <2>2 DEF GoodKeys
    <3>. HIDE DEF taken
    <3>4. CASE GoodKeys(doc)
      BY <3>1, <3>2, <3>3, <3>4 DEF KeysUpTo, KeysOf, taken
    <3>5. CASE ~ GoodKeys(doc)
      <4>1. run[Len(taken)].err # "OK"
        BY <3>1, <3>3, <3>5 DEF KeysUpTo
      <4>. QED
        BY <3>1, <3>2, <3>5, <4>1 DEF Refusal
    <3>. QED
      BY <3>4, <3>5
  <2>. QED
    BY <2>1, <2>2
<1>. QED
  BY <1>2, <1>3

(* No byte of the key buffer belongs to two members, and none lies outside *)
(* of it.                                                                  *)
LEMMA SpansAreApart ==
  ASSUME NEW taken \in Seq(Jwks), \A k \in 1..Len(taken) : UsableKey(taken[k]),
         SizeUpTo(taken)[Len(taken)] <= KeyBuf
  PROVE  LET keys == KeysOf(taken)
             Where(p) == keys[p[1]].spans[p[2]]
         IN /\ \A p, q \in SpansOf(keys) : p # q => Bytes(Where(p)) \cap Bytes(Where(q)) = {}
            /\ \A p \in SpansOf(keys) : Bytes(Where(p)) \subseteq 0..(KeyBuf - 1)
<1> DEFINE keys == KeysOf(taken)
           Where(p) == keys[p[1]].spans[p[2]]
           size == SizeUpTo(taken)
           n == Len(taken)
<1>1. n \in Nat /\ KeyBuf \in Nat
  BY KeySetAssumption
<1>2. ASSUME NEW i \in 1..n
      PROVE  /\ size[i - 1] \in Nat /\ size[i] \in Nat
             /\ \A k \in 0..n : size[k] \in Nat
             /\ \A k, l \in 0..n : k <= l => size[k] <= size[l]
             /\ size[i] = size[i - 1] + KeySize(taken[i])
             /\ taken[i] \in Jwks /\ UsableKey(taken[i])
             /\ keys[i].spans = SpansAt(taken[i], size[i - 1])
  <2>1. n \in 1..Len(taken) /\ i - 1 \in 0..n /\ i \in 0..n
    OBVIOUS
  <2>2. keys[i].spans = SpansAt(taken[i], size[i - 1])
    BY DEF KeysOf, KeyAt
  <2>. QED
    BY <2>1, <2>2, SizesGrow
<1>. HIDE DEF keys, size, n
<1>3. ASSUME NEW p \in SpansOf(keys)
      PROVE  /\ p[1] \in 1..n /\ p[2] \in DOMAIN SpansAt(taken[p[1]], size[p[1] - 1])
             /\ p = <<p[1], p[2]>>
             /\ Where(p).at \in Nat /\ Where(p).len \in Nat
             /\ size[p[1] - 1] <= Where(p).at /\ Where(p).at + Where(p).len <= size[p[1]]
  <2>1. p \in (1..n) \X {1, 2} /\ p[2] \in DOMAIN keys[p[1]].spans
    BY DEF SpansOf, keys, KeysOf, n
  <2>2. p[1] \in 1..n /\ p = <<p[1], p[2]>>
    BY <2>1
  <2> DEFINE i == p[1]
             j == p[2]
  <2>3. Where(p) = SpansAt(taken[i], size[i - 1])[j] /\ j \in DOMAIN SpansAt(taken[i], size[i - 1])
    BY <1>2, <2>1, <2>2
  <2>4. /\ taken[i] \in Jwks /\ UsableKey(taken[i]) /\ size[i - 1] \in Nat
        /\ size[i] = size[i - 1] + KeySize(taken[i])
    BY <1>2, <2>2
  <2>. HIDE DEF i, j, Where
  <2>5. /\ Where(p).at \in Nat /\ Where(p).len \in Nat
        /\ size[i - 1] <= Where(p).at /\ Where(p).at + Where(p).len <= size[i - 1] + KeySize(taken[i])
    BY <2>3, <2>4, UsableSize
  <2>. QED
    BY <2>2, <2>3, <2>4, <2>5 DEF i, j
<1>4. ASSUME NEW p \in SpansOf(keys) PROVE Bytes(Where(p)) \subseteq 0..(KeyBuf - 1)
  <2>1. size[p[1]] <= size[n] /\ size[n] <= KeyBuf /\ size[p[1]] \in Nat /\ size[n] \in Nat
    <3>1. p[1] \in 1..n
      BY <1>3
    <3>2. p[1] \in 0..n /\ n \in 0..n /\ p[1] <= n
      BY <1>1, <3>1
    <3>. QED
      BY <1>2, <3>1, <3>2 DEF size, n
  <2>2. /\ Where(p).at \in Nat /\ Where(p).len \in Nat
        /\ Where(p).at + Where(p).len <= size[p[1]]
    BY <1>3
  <2>. HIDE DEF Where
  <2>. QED
    BY <1>1, <2>1, <2>2, SMTT(30) DEF Bytes
<1>5. ASSUME NEW p \in SpansOf(keys), NEW q \in SpansOf(keys), p[1] < q[1] \/ (p[1] = q[1] /\ p[2] < q[2])
      PROVE  /\ Bytes(Where(p)) \cap Bytes(Where(q)) = {} /\ Bytes(Where(q)) \cap Bytes(Where(p)) = {}
  <2>1. /\ p[1] \in 1..n /\ q[1] \in 1..n
        /\ Where(p).at \in Nat /\ Where(p).len \in Nat /\ Where(q).at \in Nat /\ Where(q).len \in Nat
    BY <1>3
  <2>2. Where(p).at + Where(p).len <= Where(q).at
    <3>1. CASE p[1] < q[1]
      <4>1. p[1] \in 0..n /\ q[1] - 1 \in 0..n /\ p[1] <= q[1] - 1
        BY <1>1, <2>1, <3>1
      <4>2. size[p[1]] <= size[q[1] - 1] /\ size[p[1]] \in Nat /\ size[q[1] - 1] \in Nat
        BY <1>2, <2>1, <4>1
      <4>3. Where(p).at + Where(p).len <= size[p[1]] /\ size[q[1] - 1] <= Where(q).at
        BY <1>3
      <4>. HIDE DEF Where
      <4>. QED
        BY <2>1, <4>2, <4>3
    <3>2. CASE p[1] = q[1] /\ p[2] < q[2]
      <4> DEFINE i == p[1]
                 spans == SpansAt(taken[i], size[i - 1])
      <4>1. Where(p) = spans[p[2]] /\ Where(q) = spans[q[2]]
        BY <1>2, <2>1, <3>2
      <4>2. p[2] \in DOMAIN spans /\ q[2] \in DOMAIN spans
        BY <1>3, <3>2
      <4>3. taken[i] \in Jwks /\ UsableKey(taken[i]) /\ size[i - 1] \in Nat
        BY <1>2, <2>1
      <4>. HIDE DEF Where, i
      <4>4. spans[p[2]].at + spans[p[2]].len <= spans[q[2]].at
        BY <3>2, <4>2, <4>3, UsableSize
      <4>. QED
        BY <4>1, <4>4
    <3>. QED
      BY <1>5, <3>1, <3>2
  <2>. HIDE DEF Where
  <2>. QED
    BY <2>1, <2>2, SMTT(30) DEF Bytes
<1>6. ASSUME NEW p \in SpansOf(keys), NEW q \in SpansOf(keys), p # q
      PROVE  Bytes(Where(p)) \cap Bytes(Where(q)) = {}
  <2>1. p[1] \in 1..n /\ q[1] \in 1..n /\ p = <<p[1], p[2]>> /\ q = <<q[1], q[2]>>
        /\ p[2] \in {1, 2} /\ q[2] \in {1, 2}
    <3>1. p[2] \in {1, 2} /\ q[2] \in {1, 2}
      BY DEF SpansOf
    <3>. QED
      BY <1>3, <3>1
  <2>2. \/ p[1] < q[1] \/ (p[1] = q[1] /\ p[2] < q[2])
        \/ q[1] < p[1] \/ (q[1] = p[1] /\ q[2] < p[2])
    BY <1>1, <1>6, <2>1
  <2>. HIDE DEF Where
  <2>. QED
    BY <1>5, <2>2
<1>. QED
  BY <1>4, <1>6 DEF keys

(***************************************************************************)
(* Installing a license.                                                   *)
(***************************************************************************)

Keys == [alg : Algs, id : STRING, health : Health]

(* The verdict of the loop over the keys.                                  *)
SignedByOneOf(keys, jws) ==
  \E i \in DOMAIN keys :
     /\ keys[i].alg = jws.header /\ keys[i].id = jws.signedBy /\ keys[i].health = "good"
     /\ \A j \in 1..(i - 1) : keys[j].alg = jws.header => keys[j].health # "noprovider"

LEMMA VerdictIsOk ==
  ASSUME NEW keys \in Seq(Keys), NEW jws
  PROVE  /\ KeyVerdict(keys, jws) \in {"OK", "E_UNSUPPORTED_ALG", "E_SIGNATURE"}
         /\ KeyVerdict(keys, jws) = "OK" <=> SignedByOneOf(keys, jws)
<1> DEFINE D(i) == Decides(keys, jws, i)
           deciding == {i \in DOMAIN keys : D(i) /\ \A j \in 1..(i - 1) : ~ D(j)}
           yes(i) == CryptoVerify(keys[i], jws) = "yes"
<1>1. DOMAIN keys = 1..Len(keys) /\ Len(keys) \in Nat /\ \A i \in DOMAIN keys : keys[i] \in Keys
  OBVIOUS
<1>2. \A i \in DOMAIN keys :
        /\ D(i) <=> keys[i].alg = jws.header /\ (keys[i].health = "noprovider" \/ (keys[i].health = "good" /\ jws.signedBy = keys[i].id))
        /\ D(i) => (yes(i) <=> keys[i].health = "good")
  BY <1>1 DEF Decides, CryptoVerify, Keys, Health
<1>3. \A i, j \in deciding : i = j
  BY <1>1
<1>4. (\E i \in DOMAIN keys : D(i)) => deciding # {}
  <2>. HIDE DEF D
  <2>1. SUFFICES ASSUME NEW i \in DOMAIN keys, D(i) PROVE deciding # {}
    OBVIOUS
  <2> DEFINE S == {k \in DOMAIN keys : D(k)}
  <2>2. S \in SUBSET Nat /\ S # {}
    BY <1>1, <2>1
  <2>. HIDE DEF S
  <2>3. PICK m \in S : \A n \in S : m <= n
    BY <2>2, LeastNumber
  <2>4. m \in deciding
    BY <1>1, <2>3 DEF S
  <2>. QED
    BY <2>4
<1>5. KeyVerdict(keys, jws) =
        CASE \A i \in DOMAIN keys : keys[i].alg # jws.header -> "E_UNSUPPORTED_ALG"
          [] \E i \in deciding : yes(i) -> "OK"
          [] \E i \in deciding : ~ yes(i) -> "E_UNSUPPORTED_ALG"
          [] OTHER -> "E_SIGNATURE"
  BY DEF KeyVerdict
<1>6. \A i \in deciding : i \in DOMAIN keys /\ D(i) /\ keys[i].alg = jws.header
  BY <1>2
<1>7. KeyVerdict(keys, jws) =
        IF \E i \in deciding : yes(i) THEN "OK"
        ELSE IF (\E i \in deciding : ~ yes(i)) \/ (\A i \in DOMAIN keys : keys[i].alg # jws.header)
             THEN "E_UNSUPPORTED_ALG" ELSE "E_SIGNATURE"
  <2>. HIDE DEF deciding, yes, D
  <2>1. ~ ((\E i \in deciding : yes(i)) /\ (\E i \in deciding : ~ yes(i)))
    BY <1>3
  <2>2. ~ ((\E i \in deciding : yes(i)) /\ (\A i \in DOMAIN keys : keys[i].alg # jws.header))
    BY <1>6
  <2>. QED
    BY <1>5, <2>1, <2>2
<1>8. (\E i \in deciding : yes(i)) <=> SignedByOneOf(keys, jws)
  <2>1. ASSUME NEW i \in deciding, yes(i) PROVE SignedByOneOf(keys, jws)
    <3>1. /\ i \in DOMAIN keys /\ keys[i].alg = jws.header /\ keys[i].health = "good" /\ jws.signedBy = keys[i].id
      BY <1>2, <1>6, <2>1
    <3>2. \A j \in 1..(i - 1) : keys[j].alg = jws.header => keys[j].health # "noprovider"
      <4>1. \A j \in 1..(i - 1) : ~ D(j) /\ j \in DOMAIN keys
        BY <1>1, <3>1
      <4>. QED
        BY <1>2, <4>1
    <3>. QED
      BY <3>1, <3>2 DEF SignedByOneOf
  <2>2. ASSUME SignedByOneOf(keys, jws) PROVE \E i \in deciding : yes(i)
    <3>1. PICK i \in DOMAIN keys :
             /\ keys[i].alg = jws.header /\ keys[i].id = jws.signedBy /\ keys[i].health = "good"
             /\ \A j \in 1..(i - 1) : keys[j].alg = jws.header => keys[j].health # "noprovider"
      BY <2>2 DEF SignedByOneOf
    <3>2. D(i)
      BY <1>2, <3>1
    <3>3. PICK m \in deciding : TRUE
      <4>. HIDE DEF D
      <4>. QED
        BY <1>4, <3>2
    <3>4. m \in DOMAIN keys /\ m <= i /\ D(m)
      <4>1. m \in DOMAIN keys /\ D(m) /\ \A j \in 1..(m - 1) : ~ D(j)
        BY <3>3
      <4>. HIDE DEF D
      <4>. QED
        BY <1>1, <3>2, <4>1
    <3>5. keys[m].alg = jws.header /\ (m = i \/ m \in 1..(i - 1))
      BY <1>1, <1>2, <3>4
    <3>6. keys[m].health # "noprovider"
      BY <3>1, <3>5
    <3>7. yes(m)
      BY <1>2, <3>4, <3>6
    <3>. QED
      BY <3>7
  <2>. QED
    BY <2>1, <2>2
<1>. HIDE DEF deciding, yes
<1>. QED
  BY <1>7, <1>8

(* A signature check that succeeds, or that passes on to the license.      *)
Verifiable(jws, cap) == /\ jws.parts = 3 /\ jws.empty \notin 1..3 /\ jws.sigDecodes
                        /\ jws.payloadDecodes /\ jws.payload <= cap

LEMMA JwsIsOk ==
  ASSUME NEW keys \in Seq(Keys), NEW jws, NEW cap \in Nat, jws.payload \in Nat
  PROVE  /\ JwsVerify(jws, keys, cap) \in {"OK", "E_ARG", "E_FORMAT", "E_UNSUPPORTED_ALG", "E_SIGNATURE", "E_BUFFER"}
         /\ JwsVerify(jws, keys, cap) = "OK" <=> SignedByOneOf(keys, jws) /\ Verifiable(jws, cap)
<1>1. SignedByOneOf(keys, jws) => keys # <<>> /\ jws.header \in Algs
  <2>1. \A i \in DOMAIN keys : keys[i] \in Keys
    OBVIOUS
  <2>. QED
    BY <2>1 DEF SignedByOneOf, Keys
<1>2. KeyVerdict(keys, jws) \in {"OK", "E_UNSUPPORTED_ALG", "E_SIGNATURE"}
      /\ (KeyVerdict(keys, jws) = "OK" <=> SignedByOneOf(keys, jws))
  BY VerdictIsOk
<1>3. JwsVerify(jws, keys, cap) =
        IF keys = <<>> THEN "E_ARG"
        ELSE IF jws.parts # 3 \/ jws.empty \in 1..3 \/ jws.header \in {"undecodable", "noalg"} THEN "E_FORMAT"
        ELSE IF jws.header \notin Algs THEN "E_UNSUPPORTED_ALG"
        ELSE IF ~ jws.sigDecodes THEN "E_FORMAT"
        ELSE IF KeyVerdict(keys, jws) = "OK" /\ (~ jws.payloadDecodes \/ jws.payload > cap) THEN "E_BUFFER"
        ELSE KeyVerdict(keys, jws)
  <2>1. CASE keys = <<>>
    BY <2>1 DEF JwsVerify
  <2>2. CASE keys # <<>> /\ (jws.parts # 3 \/ jws.empty \in 1..3)
    BY <2>2 DEF JwsVerify
  <2>3. CASE keys # <<>> /\ jws.parts = 3 /\ jws.empty \notin 1..3
    <3>1. JwsVerify(jws, keys, cap) =
           CASE jws.header \in {"undecodable", "noalg"}           -> "E_FORMAT"
             [] jws.header \notin Algs \cup {"undecodable", "noalg"} -> "E_UNSUPPORTED_ALG"
             [] jws.header \in Algs /\ ~ jws.sigDecodes           -> "E_FORMAT"
             [] jws.header \in Algs /\ jws.sigDecodes             ->
                  IF KeyVerdict(keys, jws) = "OK" /\ (~ jws.payloadDecodes \/ jws.payload > cap)
                     THEN "E_BUFFER" ELSE KeyVerdict(keys, jws)
      BY <2>3 DEF JwsVerify
    <3>2. ~ (jws.header \in {"undecodable", "noalg"} /\ jws.header \in Algs)
      BY JwsAssumption
    <3>. QED
      BY <2>3, <3>1, <3>2
  <2>. QED
    BY <2>1, <2>2, <2>3
<1>. QED
  <2>1. ~ (jws.header \in {"undecodable", "noalg"} /\ jws.header \in Algs)
    BY JwsAssumption
  <2>2. CASE SignedByOneOf(keys, jws)
    BY <1>1, <1>2, <1>3, <2>1, <2>2 DEF Verifiable
  <2>3. CASE ~ SignedByOneOf(keys, jws)
    BY <1>2, <1>3, <2>3
  <2>. QED
    BY <2>2, <2>3

(* What the routes hand over, and what is left of it after trimming.       *)
LEMMA TrimmedBlanks ==
  ASSUME NEW s \in Seq({"bom", "space", "nul"})
  PROVE  LET unmarked == IF s # <<>> /\ s[1] = "bom" THEN Tail(s) ELSE s
         IN /\ Unless(Blank, unmarked) = <<>> <=> \A i \in DOMAIN s : s[i] \in Blank \/ (i = 1 /\ s[i] = "bom")
            /\ Unless(Blank, s) = <<>> <=> \A i \in DOMAIN s : s[i] \in Blank
<1>1. \A u : u = <<>> => \A i \in DOMAIN u : FALSE
  OBVIOUS
<1>2. ASSUME NEW u PROVE Unless(Blank, u) = <<>> <=> \A i \in DOMAIN u : u[i] \in Blank
  BY <1>1 DEF Unless
<1>3. CASE s # <<>> /\ s[1] = "bom"
  <2>1. /\ DOMAIN s = 1..Len(s) /\ Len(s) \in Nat /\ DOMAIN Tail(s) = 1..(Len(s) - 1)
        /\ \A i \in 1..(Len(s) - 1) : Tail(s)[i] = s[i + 1]
    BY <1>3
  <2>2. (\A i \in DOMAIN Tail(s) : Tail(s)[i] \in Blank)
           <=> \A i \in DOMAIN s : s[i] \in Blank \/ (i = 1 /\ s[i] = "bom")
    <3>1. ASSUME \A i \in DOMAIN Tail(s) : Tail(s)[i] \in Blank, NEW i \in DOMAIN s, i # 1 PROVE s[i] \in Blank
      <4>1. i - 1 \in DOMAIN Tail(s) /\ Tail(s)[i - 1] = s[i]
        BY <2>1, <3>1
      <4>. QED
        BY <3>1, <4>1
    <3>2. ASSUME \A i \in DOMAIN s : s[i] \in Blank \/ (i = 1 /\ s[i] = "bom"), NEW i \in DOMAIN Tail(s)
          PROVE  Tail(s)[i] \in Blank
      <4>1. i + 1 \in DOMAIN s /\ i + 1 # 1 /\ Tail(s)[i] = s[i + 1]
        BY <2>1
      <4>. QED
        BY <3>2, <4>1
    <3>. QED
      BY <1>3, <3>1, <3>2
  <2>. QED
    BY <1>2, <1>3, <2>2
<1>4. CASE ~ (s # <<>> /\ s[1] = "bom")
  <2>1. \A i \in DOMAIN s : ~ (i = 1 /\ s[i] = "bom")
    BY <1>1, <1>4
  <2>. QED
    BY <1>2, <1>4, <2>1
<1>. QED
  BY <1>3, <1>4

LEMMA BlanksBeforeNul ==
  ASSUME NEW s \in Seq({"bom", "space", "nul"})
  PROVE  /\ BeforeNul(s) \in Seq({"bom", "space", "nul"})
         /\ (\A i \in DOMAIN BeforeNul(s) : BeforeNul(s)[i] \in Blank)
               <=> \A i \in DOMAIN s : s[i] \in Blank \/ \E k \in 1..(i - 1) : s[k] = "nul"
<1> DEFINE S == {i \in DOMAIN s : s[i] = "nul"} \cup {Len(s) + 1}
<1>1. DOMAIN s = 1..Len(s) /\ Len(s) \in Nat /\ S \in SUBSET Nat /\ S # {}
  OBVIOUS
<1>2. PICK m \in S : \A n \in S : m <= n
  <2>. HIDE DEF S
  <2>. QED
    BY <1>1, LeastNumber
<1>3. Min(S) = m
  <2>1. \A n \in S : (\A k \in S : n <= k) => n = m
    BY <1>1, <1>2
  <2>. HIDE DEF S
  <2>. QED
    BY <1>2, <2>1 DEF Min
<1>4. /\ m \in 1..(Len(s) + 1) /\ (m = Len(s) + 1 \/ s[m] = "nul")
      /\ \A k \in 1..(m - 1) : k \in DOMAIN s /\ s[k] # "nul"
  BY <1>1, <1>2
<1>. HIDE DEF S
<1>5. BeforeNul(s) = SubSeq(s, 1, m - 1)
  BY <1>3 DEF BeforeNul, S
<1>6. /\ BeforeNul(s) \in Seq({"bom", "space", "nul"}) /\ DOMAIN BeforeNul(s) = 1..(m - 1)
      /\ \A i \in 1..(m - 1) : BeforeNul(s)[i] = s[i]
  BY <1>1, <1>4, <1>5
<1>7. ASSUME \A i \in 1..(m - 1) : s[i] \in Blank, NEW i \in DOMAIN s
      PROVE  s[i] \in Blank \/ \E k \in 1..(i - 1) : s[k] = "nul"
  <2>1. CASE i <= m - 1
    BY <1>1, <1>4, <1>7, <2>1
  <2>2. CASE i = m
    BY <1>1, <1>4, <2>2 DEF Blank
  <2>3. CASE i > m
    BY <1>1, <1>4, <2>3
  <2>. QED
    BY <1>1, <1>4, <2>1, <2>2, <2>3
<1>8. ASSUME \A i \in DOMAIN s : s[i] \in Blank \/ \E k \in 1..(i - 1) : s[k] = "nul", NEW i \in 1..(m - 1)
      PROVE  s[i] \in Blank
  BY <1>1, <1>4, <1>8
<1>. QED
  BY <1>6, <1>7, <1>8

(* The check of a signed text against the host.                            *)
IsForHost(lic, me) ==
  /\ lic # Unreadable
  /\ LowerOf[lic.strings[<<"Product", "Id">>]] = LowerOf[me.product]
  /\ IsNamed(lic.strings[<<"Computer", "MacAddress">>], me)

LEMMA CheckIsOk ==
  ASSUME NEW keys \in Seq(Keys), NEW jws, jws.payload \in Nat, NEW me
  PROVE  LET check == CheckMachine(jws, keys, me)
             lic   == LicenseParse(jws.content)
         IN /\ check \in {"OK", "E_ARG", "E_FORMAT", "E_UNSUPPORTED_ALG", "E_SIGNATURE", "E_BUFFER",
                          "E_PRODUCT_MISMATCH", "E_COMPUTER_MISMATCH"}
            /\ check = "OK" <=> SignedByOneOf(keys, jws) /\ Verifiable(jws, WorkBuf) /\ IsForHost(lic, me)
            /\ check \in {"E_PRODUCT_MISMATCH", "E_COMPUTER_MISMATCH"} =>
                   lic # Unreadable /\ SignedByOneOf(keys, jws)
<1> DEFINE verdict == JwsVerify(jws, keys, WorkBuf)
           lic == LicenseParse(jws.content)
<1>1. /\ verdict \in {"OK", "E_ARG", "E_FORMAT", "E_UNSUPPORTED_ALG", "E_SIGNATURE", "E_BUFFER"}
      /\ verdict = "OK" <=> SignedByOneOf(keys, jws) /\ Verifiable(jws, WorkBuf)
  BY JwsIsOk, LicenseFileAssumption
<1>2. CheckMachine(jws, keys, me) = IF verdict = "OK" THEN Matches(lic, me) ELSE verdict
  BY DEF CheckMachine, CheckVerified
<1>. HIDE DEF verdict, lic
<1>3. /\ Matches(lic, me) \in {"OK", "E_FORMAT", "E_PRODUCT_MISMATCH", "E_COMPUTER_MISMATCH"}
      /\ Matches(lic, me) = "OK" <=> IsForHost(lic, me)
      /\ Matches(lic, me) \in {"E_PRODUCT_MISMATCH", "E_COMPUTER_MISMATCH"} => lic # Unreadable
  <2>1. CASE lic = Unreadable
    BY <2>1 DEF Matches, IsForHost
  <2>2. CASE lic # Unreadable
    <3>1. Matches(lic, me) =
            IF ~ SameText(lic.strings[<<"Product", "Id">>], me.product) THEN "E_PRODUCT_MISMATCH"
            ELSE IF IsMachine(lic.strings[<<"Computer", "MacAddress">>], me) THEN "OK" ELSE "E_COMPUTER_MISMATCH"
      BY <2>2 DEF Matches
    <3>2. IsMachine(lic.strings[<<"Computer", "MacAddress">>], me) <=> IsNamed(lic.strings[<<"Computer", "MacAddress">>], me)
      BY DEF IsMachine, IsNamed, SameText
    <3>. QED
      BY <2>2, <3>1, <3>2 DEF IsForHost, SameText
  <2>. QED
    BY <2>1, <2>2
<1>. QED
  BY <1>1, <1>2, <1>3 DEF lic

Around == Seq({"bom", "space", "nul"})
Documents(content) ==
  UNION {[before : Around, after : Around,
          jws : [parts : {n}, empty : 0..n, header : STRING, sigDecodes : BOOLEAN,
                 signedBy : STRING, payload : Nat, payloadDecodes : BOOLEAN, content : {content}],
          foreign : BOOLEAN, length : Nat] : n \in Nat}

Whole(doc) == ~ doc.foreign /\ doc.jws.parts = 3 /\ doc.jws.empty = 0
Bare(doc, route) == IF route = "document" THEN OnlyBlanksAround(doc) ELSE Unhidden(doc)

LEMMA HandedLooksLikeJws ==
  ASSUME NEW content, NEW doc \in Documents(content), NEW route
  PROVE  LET t == Trimmed(Handed(doc, route))
         IN /\ LooksLikeJws(t) <=> Whole(doc) /\ Bare(doc, route)
            /\ LooksLikeJws(t) => t.jws = doc.jws /\ t.length = doc.length /\ t.before = <<>> /\ t.after = <<>>
<1>0. /\ doc.before \in Around /\ doc.after \in Around /\ doc.foreign \in BOOLEAN
      /\ DOMAIN doc = {"before", "after", "jws", "foreign", "length"}
      /\ "parts" \in DOMAIN doc.jws
      /\ doc.jws.parts = 3 => (doc.jws.empty = 0 <=> doc.jws.empty \notin 1..3)
  <2>1. PICK n \in Nat : doc \in [before : Around, after : Around,
          jws : [parts : {n}, empty : 0..n, header : STRING, sigDecodes : BOOLEAN,
                 signedBy : STRING, payload : Nat, payloadDecodes : BOOLEAN, content : {content}],
          foreign : BOOLEAN, length : Nat]
    BY DEF Documents
  <2>2. /\ doc.jws.parts = n /\ doc.jws.empty \in 0..n /\ "parts" \in DOMAIN doc.jws
        /\ doc.before \in Around /\ doc.after \in Around /\ doc.foreign \in BOOLEAN
        /\ DOMAIN doc = {"before", "after", "jws", "foreign", "length"}
    BY <2>1
  <2>. QED
    BY <2>2
<1>1. ASSUME NEW d, d.before \in Around, d.after \in Around, {"before", "after", "jws", "foreign", "length"} \subseteq DOMAIN d
      PROVE  LET t == Trimmed(d)
             IN /\ LooksLikeJws(t) <=> OnlyBlanksAround(d) /\ ~ d.foreign /\ d.jws.parts = 3 /\ d.jws.empty \notin 1..3
                /\ t.jws = d.jws /\ t.length = d.length
                /\ LooksLikeJws(t) => t.before = <<>> /\ t.after = <<>>
  <2> DEFINE unmarked == IF d.before # <<>> /\ d.before[1] = "bom" THEN Tail(d.before) ELSE d.before
             t == Trimmed(d)
  <2>1. Trimmed(d) = [d EXCEPT !.before = Unless(Blank, unmarked), !.after = Unless(Blank, d.after)]
    BY DEF Trimmed
  <2>. HIDE DEF unmarked
  <2>2. /\ t.before = Unless(Blank, unmarked) /\ t.after = Unless(Blank, d.after)
        /\ t.jws = d.jws /\ t.length = d.length /\ t.foreign = d.foreign
    BY <1>1, <2>1
  <2>3. Unless(Blank, unmarked) = <<>> /\ Unless(Blank, d.after) = <<>> <=> OnlyBlanksAround(d)
    BY <1>1, TrimmedBlanks DEF OnlyBlanksAround, unmarked, Around
  <2>. HIDE DEF t
  <2>. QED
    BY <2>2, <2>3 DEF LooksLikeJws, t
<1>2. CASE route = "document"
  BY <1>0, <1>1, <1>2 DEF Handed, Whole, Bare
<1>3. CASE route # "document" /\ HasNul(doc.before)
  <2> DEFINE d == [doc EXCEPT !.before = BeforeNul(@), !.jws.parts = 0, !.after = <<>>]
  <2>1. Handed(doc, route) = d
    BY <1>3 DEF Handed, UpToNul
  <2>2. d.before = BeforeNul(doc.before) /\ d.after = <<>> /\ d.jws.parts = 0
        /\ {"before", "after", "jws", "foreign", "length"} \subseteq DOMAIN d
    BY <1>0
  <2>3. d.before \in Around /\ d.after \in Around
    BY <1>0, <2>2, BlanksBeforeNul DEF Around
  <2>. HIDE DEF d
  <2>4. ~ LooksLikeJws(Trimmed(d))
    BY <1>1, <2>2, <2>3
  <2>5. ~ Unhidden(doc)
    BY <1>3 DEF Unhidden, HasNul
  <2>. QED
    BY <1>3, <2>1, <2>4, <2>5 DEF Bare
<1>4. CASE route # "document" /\ ~ HasNul(doc.before)
  <2> DEFINE d == [doc EXCEPT !.after = BeforeNul(@)]
  <2>1. Handed(doc, route) = d
    BY <1>4 DEF Handed, UpToNul
  <2>2. /\ d.before = doc.before /\ d.after = BeforeNul(doc.after) /\ d.jws = doc.jws /\ d.foreign = doc.foreign
        /\ d.length = doc.length /\ {"before", "after", "jws", "foreign", "length"} \subseteq DOMAIN d
    BY <1>0
  <2>3. d.before \in Around /\ d.after \in Around
    BY <1>0, <2>2, BlanksBeforeNul DEF Around
  <2>. HIDE DEF d
  <2>4. OnlyBlanksAround(d) <=> Unhidden(doc)
    <3>1. \A i \in DOMAIN doc.before : doc.before[i] \in {"bom", "space", "nul"} /\ doc.before[i] # "nul"
      BY <1>0, <1>4 DEF HasNul, Around
    <3>2. (\A i \in DOMAIN BeforeNul(doc.after) : BeforeNul(doc.after)[i] \in Blank)
             <=> \A i \in DOMAIN doc.after : doc.after[i] \in Blank \/ \E k \in 1..(i - 1) : doc.after[k] = "nul"
      BY <1>0, BlanksBeforeNul DEF Around
    <3>3. (\A i \in DOMAIN doc.before : doc.before[i] \in Blank \/ (i = 1 /\ doc.before[i] = "bom"))
             <=> \A i \in DOMAIN doc.before : doc.before[i] \in {"space"} \/ (i = 1 /\ doc.before[i] = "bom")
      BY <3>1 DEF Blank
    <3>. QED
      BY <2>2, <3>2, <3>3 DEF OnlyBlanksAround, Unhidden
  <2>. QED
    BY <1>0, <1>1, <1>4, <2>1, <2>2, <2>3, <2>4 DEF Bare, Whole
<1>. QED
  BY <1>2, <1>3, <1>4

(* What an import answers, by every route.                                 *)
LEMMA ImportIsDecided ==
  ASSUME NEW j \in ImportJobs
  PROVE  LET doc    == j.document
             result == Imports(doc, j.route, j.keys, j.me, j.store)
             read   == Unread(doc, j.route, j.store) = "read"
         IN /\ result.outcome \in {"Installed", "SignatureInvalid", "WrongProduct", "WrongComputer", "NotALicenseFile",
                                   "NoPublicKey", "WriteFailed", "E_ARG"}
            /\ result.outcome = "Installed" <=>
                  /\ Genuine(doc, j.keys, j.me) /\ HandedOver(doc, j.route)
                  /\ j.store.writes /\ j.store.writable
            /\ result.outcome = "Installed" =>
                  /\ result.stored.jws = doc.jws
                  /\ OfflineLaunch(result.stored, j.keys, j.me) = IF doc.length < WorkBuf - 1 THEN "OK" ELSE "E_BUFFER"
            /\ result.outcome # "Installed" => result.stored = j.store.content
            /\ result.outcome \in {"WrongProduct", "WrongComputer"} =>
                  LicenseParse(doc.jws.content) # Unreadable /\ SignedByOneOf(j.keys, doc.jws)
            /\ ~ read => result.outcome = "NotALicenseFile" /\ Unread(doc, j.route, j.store) # "unchanged"
<1> DEFINE doc == j.document
           handed == Handed(doc, j.route)
           t == Trimmed(handed)
           check == CheckMachine(doc.jws, j.keys, j.me)
           lic == LicenseParse(doc.jws.content)
<1>0. /\ j.route \in {"document", "text", "file"} /\ doc \in Documents(doc.jws.content) /\ j.keys \in Seq(Keys)
      /\ j.store.writes \in BOOLEAN /\ j.store.writable \in BOOLEAN
      /\ doc.jws.payload \in Nat /\ doc.length \in Nat /\ WorkBuf \in Nat /\ doc.jws.parts \in Nat
  <2>1. /\ j.route \in {"document", "text", "file"} /\ j.keys \in Seq(Keys)
        /\ {j.store.writes, j.store.writable} \subseteq BOOLEAN
        /\ doc \in [before : Around, after : Around,
                    jws : [parts : Nat, empty : 0..doc.jws.parts, header : STRING, sigDecodes : BOOLEAN,
                           signedBy : STRING, payload : Nat, payloadDecodes : BOOLEAN, content : {doc.jws.content}],
                    foreign : BOOLEAN, length : Nat]
    BY ImportJobsAssumption DEF Around, Keys
  <2>. HIDE DEF doc
  <2>2. doc.jws.payload \in Nat /\ doc.length \in Nat /\ doc.jws.parts \in Nat
    BY <2>1
  <2> DEFINE n == doc.jws.parts
  <2>3. doc \in [before : Around, after : Around,
                 jws : [parts : {n}, empty : 0..n, header : STRING, sigDecodes : BOOLEAN,
                        signedBy : STRING, payload : Nat, payloadDecodes : BOOLEAN, content : {doc.jws.content}],
                 foreign : BOOLEAN, length : Nat]
    BY <2>1
  <2>. HIDE DEF n
  <2>4. n \in Nat
    BY <2>2 DEF n
  <2>5. doc \in Documents(doc.jws.content)
    BY <2>3, <2>4 DEF Documents
  <2>. QED
    BY <2>1, <2>2, <2>5, LicenseFileAssumption
<1>a. doc.length \in Nat /\ WorkBuf \in Nat
  BY <1>0
<1>1. /\ LooksLikeJws(t) <=> Whole(doc) /\ Bare(doc, j.route)
      /\ LooksLikeJws(t) => t.jws = doc.jws /\ t.length = doc.length /\ t.before = <<>> /\ t.after = <<>>
  BY <1>0, HandedLooksLikeJws
<1>2. /\ check \in {"OK", "E_ARG", "E_FORMAT", "E_UNSUPPORTED_ALG", "E_SIGNATURE", "E_BUFFER",
                    "E_PRODUCT_MISMATCH", "E_COMPUTER_MISMATCH"}
      /\ check = "OK" <=> SignedByOneOf(j.keys, doc.jws) /\ Verifiable(doc.jws, WorkBuf) /\ IsForHost(lic, j.me)
      /\ check \in {"E_PRODUCT_MISMATCH", "E_COMPUTER_MISMATCH"} =>
             lic # Unreadable /\ SignedByOneOf(j.keys, doc.jws)
  BY <1>0, CheckIsOk
<1>3. Genuine(doc, j.keys, j.me) <=> Whole(doc) /\ check = "OK"
  <2>1. Genuine(doc, j.keys, j.me) <=>
           /\ SignedByOneOf(j.keys, doc.jws) /\ Whole(doc)
           /\ doc.jws.sigDecodes /\ doc.jws.payloadDecodes /\ doc.jws.payload <= WorkBuf /\ IsForHost(lic, j.me)
    BY DEF Genuine, SignedByOneOf, Whole, IsForHost
  <2>2. Whole(doc) => (Verifiable(doc.jws, WorkBuf) <=>
                          doc.jws.sigDecodes /\ doc.jws.payloadDecodes /\ doc.jws.payload <= WorkBuf)
    BY DEF Whole, Verifiable
  <2>. QED
    BY <1>2, <2>1, <2>2
<1>4. SignedByOneOf(j.keys, doc.jws) => j.keys # <<>>
  BY DEF SignedByOneOf
<1>. HIDE DEF doc, handed, t, check, lic
<1>5. LET result == LicenseImport(handed, j.keys, j.me, j.store)
      IN /\ result.outcome \in {"Installed", "SignatureInvalid", "WrongProduct", "WrongComputer", "NotALicenseFile",
                                "NoPublicKey", "WriteFailed", "E_ARG"}
         /\ result.outcome = "Installed" <=>
               /\ Whole(doc) /\ check = "OK" /\ Bare(doc, j.route) /\ j.store.writes /\ j.store.writable
         /\ result.outcome = "Installed" => result.stored = t
         /\ result.outcome # "Installed" => result.stored = j.store.content
         /\ result.outcome \in {"WrongProduct", "WrongComputer"} => lic # Unreadable /\ SignedByOneOf(j.keys, doc.jws)
  <2>1. CASE ~ j.store.writes
    BY <2>1 DEF LicenseImport, Refused
  <2>2. CASE j.store.writes /\ ~ LooksLikeJws(t)
    BY <1>1, <2>2 DEF LicenseImport, Imported, Refused, t
  <2>3. CASE j.store.writes /\ LooksLikeJws(t) /\ j.keys = <<>>
    BY <1>1, <1>2, <1>4, <2>3 DEF LicenseImport, Imported, Refused, t
  <2>4. CASE j.store.writes /\ LooksLikeJws(t) /\ j.keys # <<>>
    <3>1. LicenseImport(handed, j.keys, j.me, j.store) = Checked(check, t, j.store)
      BY <1>1, <2>4 DEF LicenseImport, Imported, t, check
    <3>2. CASE check = "OK"
      <4>1. Checked(check, t, j.store) = IF j.store.writable THEN [outcome |-> "Installed", stored |-> t]
                                         ELSE Refused("WriteFailed", j.store)
        BY <1>0, <3>2 DEF Checked
      <4>. QED
        BY <1>1, <2>4, <3>1, <3>2, <4>1 DEF Refused
    <3>3. CASE check # "OK"
      <4>1. Checked(check, t, j.store) = Refused(ImportOutcome(check), j.store)
        BY <3>3 DEF Checked
      <4>2. ImportOutcome(check) \in {"SignatureInvalid", "WrongProduct", "WrongComputer", "NotALicenseFile"}
            /\ (ImportOutcome(check) \in {"WrongProduct", "WrongComputer"} =>
                    check \in {"E_PRODUCT_MISMATCH", "E_COMPUTER_MISMATCH"})
        BY <1>2, <3>3 DEF ImportOutcome
      <4>. QED
        BY <1>2, <3>1, <3>3, <4>1, <4>2 DEF Refused
    <3>. QED
      BY <3>2, <3>3
  <2>. QED
    BY <1>0, <2>1, <2>2, <2>3, <2>4
<1>6. j.store.writes /\ LooksLikeJws(t) /\ check = "OK" =>
        OfflineLaunch(t, j.keys, j.me) = IF doc.length < WorkBuf - 1 THEN "OK" ELSE "E_BUFFER"
  <2>1. Unless({"space"}, <<>>) = <<>>
    BY DEF Unless
  <2>. SUFFICES ASSUME j.store.writes, LooksLikeJws(t), check = "OK"
                PROVE  OfflineLaunch(t, j.keys, j.me) = IF doc.length < WorkBuf - 1 THEN "OK" ELSE "E_BUFFER"
    OBVIOUS
  <2>2. /\ t.length = doc.length
        /\ Unless({"space"}, t.before) = <<>> /\ Unless({"space"}, t.after) = <<>>
        /\ CheckMachine(t.jws, j.keys, j.me) = "OK"
    BY <1>1, <2>1 DEF check
  <2>3. CASE doc.length < WorkBuf - 1
    <3>1. t.length < WorkBuf - 1 /\ ~ (t.length >= WorkBuf - 1)
      BY <1>a, <2>2, <2>3
    <3>. QED
      BY <2>2, <2>3, <3>1 DEF OfflineLaunch
  <2>4. CASE ~ (doc.length < WorkBuf - 1)
    <3>1. ~ (t.length < WorkBuf - 1) /\ t.length >= WorkBuf - 1
      BY <1>a, <2>2, <2>4
    <3>. QED
      BY <2>4, <3>1 DEF OfflineLaunch
  <2>. QED
    BY <2>3, <2>4
<1>7. Imports(doc, j.route, j.keys, j.me, j.store) =
        IF Unread(doc, j.route, j.store) = "read" THEN LicenseImport(handed, j.keys, j.me, j.store)
        ELSE Refused("NotALicenseFile", j.store)
  BY DEF Imports, handed
<1>8. /\ Unread(doc, j.route, j.store) = "read" <=>
           j.route # "file" \/ ~ j.store.writes \/ doc.length \in 1..(WorkBuf - 2)
      /\ Unread(doc, j.route, j.store) # "unchanged"
  <2>1. CASE j.route # "file" \/ ~ j.store.writes
    BY <2>1 DEF Unread
  <2>2. CASE j.route = "file" /\ j.store.writes
    <3>1. \/ doc.length >= WorkBuf - 1 /\ doc.length # 0 /\ doc.length \notin 1..(WorkBuf - 2)
          \/ doc.length = 0 /\ ~ (doc.length >= WorkBuf - 1) /\ doc.length \notin 1..(WorkBuf - 2)
          \/ doc.length = 0 /\ doc.length >= WorkBuf - 1 /\ doc.length \notin 1..(WorkBuf - 2)
          \/ doc.length # 0 /\ ~ (doc.length >= WorkBuf - 1) /\ doc.length \in 1..(WorkBuf - 2)
      BY <1>a
    <3>2. Unread(doc, j.route, j.store) =
            CASE doc.length >= WorkBuf - 1 -> "too large"
              [] doc.length = 0            -> "could not be read"
              [] OTHER                     -> "read"
      BY <2>2 DEF Unread
    <3>. QED
      BY <2>2, <3>1, <3>2
  <2>. QED
    BY <2>1, <2>2
<1>9. HandedOver(doc, j.route) <=> Bare(doc, j.route) /\ (j.route = "file" => doc.length \in 1..(WorkBuf - 2))
  BY <1>0 DEF HandedOver, Bare
<1>10. CASE Unread(doc, j.route, j.store) = "read"
  BY <1>1, <1>3, <1>5, <1>6, <1>7, <1>8, <1>9, <1>10 DEF doc, lic
<1>11. CASE Unread(doc, j.route, j.store) # "read"
  BY <1>7, <1>8, <1>9, <1>11 DEF doc, Refused
<1>. QED
  BY <1>10, <1>11 DEF doc

(***************************************************************************)
(* Trusted time.                                                           *)
(***************************************************************************)

(* What a host with the right time answers, or Lost.     The top bit tells *)
(* the era apart only for times up to one era after the middle of the      *)
(* first: from 1968 to 2104.                                               *)
Telling(t) == t + UnixOffset \in (EraSeconds \div 2)..(EraSeconds + EraSeconds \div 2 - 1)
Honest(t) == {Lost, (t + UnixOffset) % EraSeconds}

(* The era is found back from the low part of the count.                   *)
LEMMA ReplyIsTheTime ==
  ASSUME NEW t \in Int, Telling(t)
  PROVE  ParseReply((t + UnixOffset) % EraSeconds) = t
<1> DEFINE n == t + UnixOffset
<1>1. EraSeconds \in Nat \ {0} /\ UnixOffset \in Nat /\ n \in Nat
  BY TrustedTimeAssumption DEF Telling
<1>2. CASE n < EraSeconds
  <2>1. n % EraSeconds = n
    BY <1>1, <1>2
  <2>. QED
    BY <1>1, <2>1 DEF Telling, ParseReply
<1>3. CASE n >= EraSeconds
  <2>1. n % EraSeconds = n - EraSeconds
    <3>1. n = EraSeconds * 1 + (n - EraSeconds) /\ n - EraSeconds \in 0..(EraSeconds - 1)
      BY <1>1, <1>3 DEF Telling
    <3>. QED
      BY <1>1, <3>1
  <2>2. n - EraSeconds < EraSeconds \div 2
    BY <1>1 DEF Telling
  <2>. QED
    BY <1>1, <2>1, <2>2 DEF ParseReply
<1>. QED
  BY <1>1, <1>2, <1>3

Near(a, t) == a \in Int /\ a - t \in (1 - MaxDrift)..(MaxDrift - 1)

LEMMA ArbitrateIsNear ==
  ASSUME NEW t \in Int, Telling(t), NEW local \in Int, NEW secs, secs = (t + UnixOffset) % EraSeconds
  PROVE  Near(Arbitrate(local, secs).now, t) /\ Near(Answer(ParseReply(secs)).now, t)
<1>1. ParseReply(secs) = t
  BY ReplyIsTheTime
<1>2. MaxDrift \in Nat \ {0}
  BY TrustedTimeAssumption
<1>. QED
  BY <1>1, <1>2 DEF Arbitrate, Answer, Near

(* hlm_timesync's two ports, for an honest pool and an honest vendor host: *)
(* they answer exactly if they were answered, and then with a time less    *)
(* than MaxDrift from the true one, however far the local clock is off.    *)
LEMMA TrustedNowIsNear ==
  ASSUME NEW j \in TimeJobs
  PROVE  LET ask   == j.ask
             heard == {ask.pool} \cup (IF ask.windows /\ ask.kept THEN {ask.vendor} ELSE {})
         IN IF heard \subseteq {Lost, 0} THEN TrustedNow(ask) = NoAnswer
            ELSE TrustedNow(ask) # NoAnswer /\ Near(TrustedNow(ask).now, j.true)
<1> DEFINE ask == j.ask
           heard == {ask.pool} \cup (IF ask.windows /\ ask.kept THEN {ask.vendor} ELSE {})
<1>1. /\ j.true \in Int /\ Telling(j.true) /\ ask.local \in Int
      /\ ask.windows \in BOOLEAN /\ ask.kept \in BOOLEAN
      /\ ask.pool \in Honest(j.true) /\ ask.vendor \in Honest(j.true)
  BY TimeJobsAssumption DEF Telling, Honest
<1>2. \A secs \in {ask.pool, ask.vendor} : Answered(secs) <=> secs \notin {Lost, 0}
  BY DEF Answered
<1>3. \A secs \in {ask.pool, ask.vendor} : Answered(secs) =>
         /\ Near(Arbitrate(ask.local, secs).now, j.true) /\ Near(Answer(ParseReply(secs)).now, j.true)
  <2>1. SUFFICES ASSUME NEW secs \in {ask.pool, ask.vendor}, Answered(secs)
                 PROVE  secs = (j.true + UnixOffset) % EraSeconds
    BY <1>1, ArbitrateIsNear
  <2>. QED
    BY <1>1, <2>1 DEF Answered, Honest
<1>4. \A local, secs : Arbitrate(local, secs) # NoAnswer /\ Answer(ParseReply(secs)) # NoAnswer
  BY DEF Arbitrate, Answer, NoAnswer
<1>5. CASE ask.windows /\ ask.kept /\ Answered(ask.vendor)
  <2>1. TrustedNow(ask) = Arbitrate(ask.local, ask.vendor)
    BY <1>5 DEF TrustedNow, WindowsNow
  <2>2. ~ (heard \subseteq {Lost, 0})
    BY <1>2, <1>5
  <2>. QED
    BY <1>3, <1>4, <1>5, <2>1, <2>2
<1>6. CASE ~ (ask.windows /\ ask.kept /\ Answered(ask.vendor)) /\ Answered(ask.pool)
  <2>1. TrustedNow(ask) \in {Arbitrate(ask.local, ask.pool), Answer(ParseReply(ask.pool))}
    BY <1>1, <1>6 DEF TrustedNow, WindowsNow, PosixNow
  <2>2. ~ (heard \subseteq {Lost, 0})
    BY <1>2, <1>6
  <2>. QED
    BY <1>3, <1>4, <1>6, <2>1, <2>2
<1>7. CASE ~ (ask.windows /\ ask.kept /\ Answered(ask.vendor)) /\ ~ Answered(ask.pool)
  <2>1. TrustedNow(ask) = NoAnswer
    BY <1>1, <1>7 DEF TrustedNow, WindowsNow, PosixNow
  <2>2. heard \subseteq {Lost, 0}
    BY <1>2, <1>7
  <2>. QED
    BY <2>1, <2>2
<1>. QED
  BY <1>5, <1>6, <1>7

(***************************************************************************)
(* Hashing: the length counter.                                            *)
(***************************************************************************)

(* The counter after n bytes: SHA-256 keeps the bits below 2^64, SHA-512   *)
(* all of them in two words.                                               *)
BitsCounted(h, hi, lo, n) ==
  LET base == WordBase(h)
  IN /\ hi \in Nat /\ lo \in Nat
     /\ lo = (8 * n) % base
     /\ h = "sha512" => hi = (8 * n) \div base

LEMMA ParametersOk ==
  ASSUME NEW h \in Hashes
  PROVE  /\ BlockSize[h] \in Nat \ {0} /\ LengthBytes[h] \in Nat \ {0} /\ WordBits[h] \in Nat \ {0}
         /\ LengthBytes[h] < BlockSize[h] /\ WordBits[h] > 3
         /\ LengthBytes[h] = CounterWords(h) * WordBytes(h) /\ WordBits[h] = ByteWidth(h) * WordBytes(h)
         /\ CounterWords(h) \in {1, 2} /\ WordBytes(h) \in Nat \ {0} /\ ByteWidth(h) \in Nat \ {0}
         /\ WordBase(h) \in Nat \ {0} /\ WordBase(h) = 8 * TwoTo(WordBits[h] - 3)
         /\ h = "sha256" <=> CounterWords(h) = 1
<1>1. /\ BlockSize[h] \in Nat \ {0} /\ LengthBytes[h] \in Nat \ {0} /\ WordBits[h] \in Nat \ {0}
      /\ LengthBytes[h] < BlockSize[h] /\ WordBits[h] > 3
      /\ LengthBytes[h] = CounterWords(h) * WordBytes(h) /\ WordBits[h] = ByteWidth(h) * WordBytes(h)
  BY ShaAssumption
<1>2. CounterWords(h) \in {1, 2} /\ (h = "sha256" <=> CounterWords(h) = 1)
  BY DEF CounterWords
<1>3. WordBytes(h) \in Int
  BY <1>1, <1>2 DEF WordBytes
<1>4. WordBytes(h) \in Nat \ {0}
  BY <1>1, <1>2, <1>3
<1>5. ByteWidth(h) \in Int
  BY <1>1, <1>4 DEF ByteWidth
<1>6. ByteWidth(h) \in Nat \ {0}
  <2>1. ByteWidth(h) * WordBytes(h) > 0
    BY <1>1
  <2>. QED
    BY <1>4, <1>5, <2>1
<1>7. WordBase(h) \in Nat \ {0}
  BY <1>1, PowerPositive DEF WordBase
<1>8. WordBase(h) = 8 * TwoTo(WordBits[h] - 3)
  <2>1. WordBits[h] - 3 \in Nat /\ (WordBits[h] - 3) + 3 = WordBits[h] /\ 3 \in Nat
    BY <1>1
  <2>2. TwoTo(WordBits[h]) = TwoTo(WordBits[h] - 3) * TwoTo(3)
    BY <2>1, PowerAdds
  <2>3. TwoTo(0 + 1) = 2 * TwoTo(0) /\ TwoTo(1 + 1) = 2 * TwoTo(1) /\ TwoTo(2 + 1) = 2 * TwoTo(2)
    BY PowerStep
  <2>4. TwoTo(3) = 8
    BY <2>3, PowerStep
  <2>. QED
    BY <2>1, <2>2, <2>4, PowerPositive DEF WordBase
<1>. QED
  BY <1>1, <1>2, <1>4, <1>6, <1>7, <1>8

(* CountBits carries from one word to the next.                            *)
LEMMA CountStep ==
  ASSUME NEW h \in Hashes, NEW n \in Nat, NEW len \in Nat, NEW hi, NEW lo, BitsCounted(h, hi, lo, n),
         NEW hi2, NEW lo2,
         lo2 = (lo + ((8 * len) % WordBase(h))) % WordBase(h),
         hi2 = IF h = "sha256" THEN 0
               ELSE hi + (IF lo2 < (8 * len) % WordBase(h) THEN 1 ELSE 0) + (len \div TwoTo(WordBits[h] - 3))
  PROVE  BitsCounted(h, hi2, lo2, n + len)
<1> DEFINE base == WordBase(h)
           add  == (8 * len) % base
           k    == (8 * n) \div base
           j    == (8 * len) \div base
<1>0. base \in Nat \ {0}
  BY ParametersOk
<1>1. len \div TwoTo(WordBits[h] - 3) = j
  <2> DEFINE e == TwoTo(WordBits[h] - 3)
  <2>1. e \in Nat \ {0} /\ base = e * 8
    <3>1. WordBits[h] - 3 \in Nat
      BY ParametersOk
    <3>2. e \in Nat
      BY <3>1, PowerPositive
    <3>3. base = 8 * e
      BY ParametersOk
    <3>4. e \in Nat \ {0}
      BY <3>1, PowerPositive
    <3>. QED
      BY <3>2, <3>3, <3>4
  <2>. HIDE DEF e
  <2>2. ((8 * len) \div 8) \div e = (8 * len) \div (8 * e)
    <3>1. 8 * len \in Nat /\ 8 \in Nat \ {0}
      OBVIOUS
    <3>. QED
      BY <2>1, <3>1, DividesTwice
  <2>3. (8 * len) \div 8 = len
    OBVIOUS
  <2>4. e * 8 = 8 * e
    BY <2>1
  <2>. QED
    BY <2>1, <2>2, <2>3, <2>4 DEF e
<1>2. lo \in Nat /\ hi \in Nat /\ lo = (8 * n) % base /\ (h = "sha512" => hi = k)
  BY DEF BitsCounted
<1>3. lo2 = (lo + add) % base
  BY Zenon
<1>4. h = "sha512" => hi2 = hi + (IF lo2 < add THEN 1 ELSE 0) + j
  BY <1>1
<1>5. h = "sha256" => hi2 = 0
  OBVIOUS
<1>. HIDE DEF base
<1>6. 8 * n = k * base + lo /\ k \in Nat /\ 0 <= lo /\ lo < base
  <2>1. 8 * n \in Nat
    OBVIOUS
  <2>2. 8 * n = k * base + ((8 * n) % base) /\ k \in Nat /\ (8 * n) % base \in Nat /\ (8 * n) % base < base
    BY <1>0, <2>1, Division
  <2>. QED
    BY <1>2, <2>2
<1>7. 8 * len = j * base + add /\ j \in Nat /\ add \in Nat /\ add < base
  <2>1. 8 * len \in Nat
    OBVIOUS
  <2>. QED
    BY <1>0, <2>1, Division
<1>. HIDE DEF k, j, add
<1> DEFINE c == IF lo + add < base THEN 0 ELSE 1
           low == lo + add - c * base
<1>8. c \in {0, 1} /\ low \in Nat /\ low < base /\ lo + add = c * base + low /\ (c = 1 <=> low < add)
  BY <1>0, <1>2, <1>6, <1>7
<1>. HIDE DEF c, low
<1>9. lo2 = low
  <2>1. c \in Int /\ low \in Int /\ 0 <= low
    BY <1>8
  <2>2. (c * base + low) % base = low
    BY <1>0, <1>8, <2>1, DivisionIs
  <2>. QED
    BY <1>3, <1>8, <2>2
<1>10. 8 * (n + len) = (k + j + c) * base + low
  <2>1. (k + j + c) * base = k * base + j * base + c * base
    BY <1>0, <1>6, <1>7, <1>8
  <2>2. k * base \in Int /\ j * base \in Int /\ c * base \in Int
    BY <1>0, <1>6, <1>7, <1>8
  <2>. QED
    BY <1>2, <1>6, <1>7, <1>8, <2>1, <2>2
<1>11. (8 * (n + len)) \div base = k + j + c /\ (8 * (n + len)) % base = low
  <2>1. k + j + c \in Int /\ low \in Int /\ 0 <= low
    BY <1>6, <1>7, <1>8
  <2>. QED
    BY <1>0, <1>8, <1>10, <2>1, DivisionIs
<1>12. h = "sha512" => hi2 = k + j + c
  <2>1. (IF lo2 < add THEN 1 ELSE 0) = c
    BY <1>8, <1>9
  <2>. QED
    BY <1>2, <1>4, <1>6, <1>7, <1>8, <2>1
<1>13. hi2 \in Nat
  BY <1>5, <1>6, <1>7, <1>8, <1>12 DEF Hashes
<1>. QED
  BY <1>8, <1>9, <1>11, <1>12, <1>13 DEF BitsCounted, base

LEMMA LowByte ==
  ASSUME NEW n \in Nat, NEW width \in Nat, NEW per \in Nat, NEW j \in 0..(per - 1)
  PROVE  ((n % TwoTo(width * per)) \div TwoTo(width * j)) % TwoTo(width) = (n \div TwoTo(width * j)) % TwoTo(width)
<1> DEFINE a == width * j
           b == width * (per - 1 - j)
<1>1. a \in Nat /\ b \in Nat /\ a + width \in Nat
  <2>1. per - 1 - j \in Nat /\ j \in Nat
    OBVIOUS
  <2>2. \A x \in Nat : width * x \in Nat
    OBVIOUS
  <2>. QED
    BY <2>1, <2>2
<1>2. width * per = (a + width) + b
  OBVIOUS
<1>. HIDE DEF a, b
<1>3. TwoTo(a + width) = TwoTo(a) * TwoTo(width) /\ TwoTo((a + width) + b) = TwoTo(a + width) * TwoTo(b)
  BY <1>1, PowerAdds
<1>4. TwoTo(width * per) = (TwoTo(a) * TwoTo(width)) * TwoTo(b)
  BY <1>2, <1>3
<1>5. TwoTo(a) \in Nat \ {0} /\ TwoTo(b) \in Nat \ {0} /\ TwoTo(width) \in Nat \ {0}
  BY <1>1, PowerPositive
<1>6. ((n % TwoTo(width * per)) \div TwoTo(a)) % TwoTo(width) = (n \div TwoTo(a)) % TwoTo(width)
  <2> DEFINE p == TwoTo(a)
             c == TwoTo(width)
             q == TwoTo(b)
             m == TwoTo(width * per)
  <2>1. m = (p * c) * q /\ p \in Nat \ {0} /\ c \in Nat \ {0} /\ q \in Nat \ {0}
    BY <1>4, <1>5
  <2>. SUFFICES ((n % m) \div p) % c = (n \div p) % c
    OBVIOUS
  <2>. HIDE DEF p, c, q, m
  <2>2. SameDigit(n, p, c, q)
    BY <2>1, DigitKept
  <2>. QED
    BY <2>1, <2>2 DEF SameDigit
<1>. QED
  BY <1>6 DEF a

HighIs(n, width, per, j) ==
  (n \div TwoTo(width * per)) \div TwoTo(width * j) = n \div TwoTo(width * (per + j))

LEMMA HighByte ==
  ASSUME NEW n \in Nat, NEW width \in Nat, NEW per \in Nat, NEW j \in Nat
  PROVE  HighIs(n, width, per, j)
<1> DEFINE a == width * per
           b == width * j
<1>1. a \in Nat /\ b \in Nat
  OBVIOUS
<1>2. width * (per + j) = a + b
  OBVIOUS
<1>. HIDE DEF a, b
<1>3. TwoTo(a + b) = TwoTo(a) * TwoTo(b) /\ TwoTo(a) \in Nat \ {0} /\ TwoTo(b) \in Nat \ {0}
  BY <1>1, PowerAdds, PowerPositive
<1>4. (n \div TwoTo(a)) \div TwoTo(b) = n \div TwoTo(a + b)
  BY <1>3, DividesTwice
<1>. QED
  BY <1>2, <1>4 DEF a, b, HighIs

(* The length field is the number of bits, most significant byte first.    *)
LEMMA LengthIsWritten ==
  ASSUME NEW h \in Hashes, NEW n \in Nat, NEW ctx, ctx.hash = h, BitsCounted(h, ctx.hi, ctx.lo, n)
  PROVE  LengthField(ctx) = [i \in 1..LengthBytes[h] |->
                                ((8 * n) \div TwoTo(ByteWidth(h) * (LengthBytes[h] - i))) % TwoTo(ByteWidth(h))]
<1> DEFINE words == IF h = "sha256" THEN <<ctx.lo>> ELSE <<ctx.hi, ctx.lo>>
           per   == WordBytes(h)
           width == ByteWidth(h)
           size  == LengthBytes[h]
           bits  == 8 * n
           Byte(i) == (words[((i - 1) \div per) + 1] \div TwoTo(width * (per - 1 - ((i - 1) % per)))) % TwoTo(width)
           Meant(i) == (bits \div TwoTo(width * (size - i))) % TwoTo(width)
<1>0. LengthField(ctx) = [i \in 1..size |-> Byte(i)]
  BY DEF LengthField
<1>1. /\ per \in Nat \ {0} /\ width \in Nat \ {0} /\ size \in Nat \ {0} /\ bits \in Nat
      /\ size = CounterWords(h) * per /\ CounterWords(h) \in {1, 2} /\ (h = "sha256" <=> CounterWords(h) = 1)
      /\ WordBits[h] = width * per
  BY ParametersOk
<1>a. per \in Nat \ {0} /\ width \in Nat \ {0} /\ size \in Nat \ {0} /\ bits \in Nat
  BY <1>1
<1>2. WordBase(h) = TwoTo(width * per)
  BY <1>1 DEF WordBase
<1>3. ctx.lo = bits % TwoTo(width * per) /\ (h = "sha512" => ctx.hi = bits \div TwoTo(width * per))
  BY <1>2 DEF BitsCounted
<1>. HIDE DEF per, width, size, bits
<1>4. ASSUME NEW i \in 1..size PROVE Byte(i) = Meant(i)
  <2>1. CASE i > size - per
    <3> DEFINE q == CounterWords(h) - 1
               r == i - 1 - (size - per)
    <3>0. \/ CounterWords(h) = 1 /\ size = per /\ q = 0
          \/ CounterWords(h) = 2 /\ size = per + per /\ q = 1
      BY <1>1
    <3>1. r \in Int /\ 0 <= r /\ r < per /\ i - 1 = (size - per) + r /\ r = (i - 1) - (size - per)
      BY <1>a, <2>1
    <3>4. words[q + 1] = ctx.lo
      BY <1>1
    <3>. HIDE DEF q, r, words
    <3>2. (i - 1) \div per = q /\ (i - 1) % per = r
      <4>1. q \in Int /\ i - 1 = q * per + r
        BY <1>1, <3>0, <3>1
      <4>2. (q * per + r) \div per = q /\ (q * per + r) % per = r
        BY <1>1, <3>1, <4>1, DivisionIs
      <4>. QED
        BY <4>1, <4>2
    <3>3. per - 1 - r = size - i /\ size - i \in 0..(per - 1)
      BY <1>a, <2>1, <3>1
    <3>5. Byte(i) = (ctx.lo \div TwoTo(width * (size - i))) % TwoTo(width)
      BY <3>2, <3>3, <3>4
    <3>6. size - i \in 0..(per - 1) /\ width \in Nat /\ per \in Nat
      BY <1>1, <3>3
    <3>7. ((bits % TwoTo(width * per)) \div TwoTo(width * (size - i))) % TwoTo(width)
             = (bits \div TwoTo(width * (size - i))) % TwoTo(width)
      BY <1>1, <3>6, LowByte
    <3>. QED
      BY <1>3, <3>5, <3>7
  <2>2. CASE ~ (i > size - per)
    <3>1. h = "sha512" /\ CounterWords(h) = 2 /\ size = per + per /\ i - 1 \in Int /\ 0 <= i - 1 /\ i - 1 < per
          /\ i - 1 = 0 * per + (i - 1) /\ 0 \in Int
      BY <1>1, <2>2 DEF Hashes
    <3>2. (i - 1) \div per = 0 /\ (i - 1) % per = i - 1
      BY <1>1, <3>1, DivisionIs
    <3>3. per - 1 - (i - 1) = per - i /\ per - i \in Nat /\ per + (per - i) = size - i
      BY <1>1, <3>1
    <3>4. words[0 + 1] = ctx.hi
      BY <3>1
    <3>. HIDE DEF words
    <3>5. Byte(i) = (ctx.hi \div TwoTo(width * (per - i))) % TwoTo(width)
      BY <3>2, <3>3, <3>4
    <3>6. (bits \div TwoTo(width * per)) \div TwoTo(width * (per - i)) = bits \div TwoTo(width * (per + (per - i)))
      <4> DEFINE j == per - i
      <4>1. width \in Nat /\ per \in Nat /\ j \in Nat /\ bits \in Nat
        BY <1>a, <3>3
      <4>. HIDE DEF j
      <4>2. HighIs(bits, width, per, j)
        BY <4>1, HighByte
      <4>. QED
        BY <4>2 DEF j, HighIs
    <3>. QED
      BY <1>3, <3>1, <3>3, <3>5, <3>6
  <2>. QED
    BY <2>1, <2>2
<1>. QED
  BY <1>0, <1>4 DEF size, bits, width

(***************************************************************************)
(* A message cut into blocks and a rest.                                   *)
(***************************************************************************)
LEMMA PartOfFront ==
  ASSUME NEW d \in Seq(Int), NEW e \in Seq(Int), NEW a \in Nat \ {0}, NEW b \in Nat, b <= Len(d)
  PROVE  SubSeq(d \o e, a, b) = SubSeq(d, a, b)
OBVIOUS

LEMMA PartToEnd ==
  ASSUME NEW d \in Seq(Int), NEW e \in Seq(Int), NEW a \in 1..(Len(d) + 1)
  PROVE  SubSeq(d \o e, a, Len(d \o e)) = SubSeq(d, a, Len(d)) \o e
<1> DEFINE w == d \o e
           s == SubSeq(w, a, Len(w))
           f == SubSeq(d, a, Len(d))
           t == f \o e
<1>0. Len(d) \in Nat /\ Len(e) \in Nat
  OBVIOUS
<1>1. w \in Seq(Int) /\ Len(w) = Len(d) + Len(e)
      /\ \A i \in 1..(Len(d) + Len(e)) : w[i] = IF i <= Len(d) THEN d[i] ELSE e[i - Len(d)]
  BY ConcatProperties
<1>2. f \in Seq(Int) /\ Len(f) = Len(d) - a + 1 /\ \A i \in 1..(Len(d) - a + 1) : f[i] = d[a + i - 1]
  BY <1>0
<1>. HIDE DEF w, f
<1>3. t \in Seq(Int) /\ Len(t) = Len(f) + Len(e)
      /\ \A i \in 1..(Len(f) + Len(e)) : t[i] = IF i <= Len(f) THEN f[i] ELSE e[i - Len(f)]
  BY <1>2, ConcatProperties
<1>4. s \in Seq(Int) /\ Len(s) = Len(d) + Len(e) - a + 1
      /\ \A i \in 1..(Len(d) + Len(e) - a + 1) : s[i] = w[a + i - 1]
  BY <1>0, <1>1
<1>. HIDE DEF s, t
<1>5. ASSUME NEW i \in 1..Len(s) PROVE s[i] = t[i]
  <2>1. s[i] = w[a + i - 1] /\ a + i - 1 \in 1..(Len(d) + Len(e)) /\ i \in 1..(Len(f) + Len(e))
    BY <1>0, <1>2, <1>4
  <2>2. CASE i <= Len(f)
    <3>1. a + i - 1 <= Len(d) /\ i \in 1..(Len(d) - a + 1)
      BY <1>0, <1>2, <2>2
    <3>. QED
      BY <1>1, <1>2, <1>3, <2>1, <2>2, <3>1
  <2>3. CASE ~ (i <= Len(f))
    <3>1. ~ (a + i - 1 <= Len(d)) /\ a + i - 1 - Len(d) = i - Len(f)
      BY <1>0, <1>2, <2>3
    <3>2. t[i] = e[i - Len(f)]
      BY <1>3, <2>1, <2>3
    <3> DEFINE j == a + i - 1
    <3>3. j \in 1..(Len(d) + Len(e)) /\ ~ (j <= Len(d)) /\ s[i] = w[j] /\ j - Len(d) = i - Len(f)
      BY <2>1, <3>1
    <3>. HIDE DEF j
    <3>4. w[j] = e[j - Len(d)]
      BY <1>1, <3>3
    <3>. QED
      BY <3>2, <3>3, <3>4
  <2>. QED
    BY <2>2, <2>3
<1>6. Len(s) = Len(t)
  BY <1>0, <1>2, <1>3, <1>4
<1>7. s = t
  BY <1>3, <1>4, <1>5, <1>6, SeqEqual
<1>. QED
  BY <1>7 DEF s, t, f, w

LEMMA PartsJoin ==
  ASSUME NEW d \in Seq(Int), NEW a \in 0..Len(d), NEW b \in a..Len(d)
  PROVE  SubSeq(d, 1, a) \o SubSeq(d, a + 1, b) = SubSeq(d, 1, b)
OBVIOUS

CutInto(blocks, buf, size, d) ==
  /\ Len(d) = Len(blocks) * size + Len(buf) /\ Len(buf) < size
  /\ \A i \in 1..Len(blocks) : blocks[i] = SubSeq(d, (i - 1) * size + 1, i * size)
  /\ buf = SubSeq(d, Len(blocks) * size + 1, Len(d))

LEMMA Multiples ==
  ASSUME NEW n \in Nat, NEW size \in Nat, NEW i \in 0..n
  PROVE  i * size \in Nat /\ n * size \in Nat /\ i * size <= n * size /\ (i + 1) * size = i * size + size
<1>1. n - i \in Nat /\ i \in Nat
  OBVIOUS
<1>2. (n - i) * size \in Nat /\ i * size \in Nat /\ n * size \in Nat
  BY <1>1
<1>3. (n - i) * size = n * size - i * size
  BY <1>1
<1>. QED
  BY <1>1, <1>2, <1>3

(* Blocks already cut stay when the message goes on.                       *)
StillCut(blocks, buf, x, size, d) ==
  /\ \A i \in 1..Len(blocks) : blocks[i] = SubSeq(d \o x, (i - 1) * size + 1, i * size)
  /\ buf \o x = SubSeq(d \o x, Len(blocks) * size + 1, Len(d \o x))
  /\ Len(blocks) * size \in Nat
  /\ Len(d \o x) = Len(blocks) * size + Len(buf \o x)

LEMMA BlocksStay ==
  ASSUME NEW blocks \in Seq(Seq(Int)), NEW buf \in Seq(Int), NEW size \in Nat \ {0}, NEW d \in Seq(Int),
         NEW x \in Seq(Int), CutInto(blocks, buf, size, d)
  PROVE  StillCut(blocks, buf, x, size, d)
<1> DEFINE n == Len(blocks)
<1>0. n \in Nat /\ n * size \in Nat /\ Len(d) \in Nat /\ Len(buf) \in Nat
  <2>1. n \in Nat
    OBVIOUS
  <2>. HIDE DEF n
  <2>. QED
    BY <2>1
<1>1. Len(d) = n * size + Len(buf) /\ buf = SubSeq(d, n * size + 1, Len(d))
  BY DEF CutInto
<1>2. ASSUME NEW i \in 1..n PROVE blocks[i] = SubSeq(d \o x, (i - 1) * size + 1, i * size)
  <2> DEFINE a == (i - 1) * size + 1
             b == i * size
  <2>1. blocks[i] = SubSeq(d, a, b)
    BY DEF CutInto
  <2>2. a \in Nat \ {0} /\ b \in Nat /\ b <= Len(d)
    <3>1. i - 1 \in 0..n /\ i \in 0..n
      BY <1>0
    <3>. HIDE DEF n
    <3>2. (i - 1) * size \in Nat /\ i * size \in Nat /\ i * size <= n * size
      BY <1>0, <3>1, Multiples
    <3> DEFINE p == (i - 1) * size
               q == i * size
               m == n * size
    <3>3. p \in Nat /\ q \in Nat /\ q <= m /\ m \in Nat /\ Len(d) = m + Len(buf) /\ Len(buf) \in Nat
      BY <1>0, <1>1, <3>2
    <3>. SUFFICES p + 1 \in Nat \ {0} /\ q \in Nat /\ q <= Len(d)
      OBVIOUS
    <3>. HIDE DEF p, q, m
    <3>. QED
      BY <3>3
  <2>. HIDE DEF a, b
  <2>3. SubSeq(d \o x, a, b) = SubSeq(d, a, b)
    BY <2>2, PartOfFront
  <2>. QED
    BY <2>1, <2>3 DEF a, b
<1>3. n * size + 1 \in 1..(Len(d) + 1)
  <2> DEFINE m == n * size
  <2>1. m \in Nat /\ Len(d) = m + Len(buf)
    BY <1>0, <1>1
  <2>. HIDE DEF m
  <2>2. m + 1 \in 1..(Len(d) + 1)
    BY <1>0, <2>1
  <2>. QED
    BY <2>2 DEF m
<1>4. buf \o x = SubSeq(d \o x, n * size + 1, Len(d \o x))
  BY <1>1, <1>3, PartToEnd
<1>5. Len(d \o x) = n * size + Len(buf \o x)
  <2> DEFINE m == n * size
  <2>1. m \in Nat /\ Len(d) = m + Len(buf) /\ Len(x) \in Nat
    BY <1>0, <1>1
  <2>2. Len(d \o x) = Len(d) + Len(x) /\ Len(buf \o x) = Len(buf) + Len(x)
    OBVIOUS
  <2>. HIDE DEF m
  <2>3. Len(d \o x) = m + Len(buf \o x)
    BY <1>0, <2>1, <2>2
  <2>. QED
    BY <2>3 DEF m
<1>. QED
  BY <1>0, <1>2, <1>4, <1>5 DEF StillCut

LEMMA RestGrows ==
  ASSUME NEW blocks \in Seq(Seq(Int)), NEW buf \in Seq(Int), NEW size \in Nat \ {0}, NEW d \in Seq(Int),
         NEW x \in Seq(Int), CutInto(blocks, buf, size, d), Len(buf \o x) < size
  PROVE  CutInto(blocks, buf \o x, size, d \o x)
<1>1. StillCut(blocks, buf, x, size, d)
  BY BlocksStay
<1>. QED
  BY <1>1, Zenon DEF CutInto, StillCut

LEMMA BlockCompleted ==
  ASSUME NEW blocks \in Seq(Seq(Int)), NEW buf \in Seq(Int), NEW size \in Nat \ {0}, NEW d \in Seq(Int),
         NEW x \in Seq(Int), CutInto(blocks, buf, size, d), Len(buf \o x) = size
  PROVE  CutInto(Append(blocks, buf \o x), <<>>, size, d \o x)
<1> DEFINE n == Len(blocks)
           all == Append(blocks, buf \o x)
           e == d \o x
<1>1. /\ \A i \in 1..n : blocks[i] = SubSeq(e, (i - 1) * size + 1, i * size)
      /\ buf \o x = SubSeq(e, n * size + 1, Len(e))
      /\ n * size \in Nat
      /\ Len(e) = n * size + size
  <2>1. StillCut(blocks, buf, x, size, d)
    BY BlocksStay
  <2>. QED
    BY <2>1, Zenon DEF StillCut
<1>2. Len(all) = n + 1 /\ n \in Nat /\ all[n + 1] = buf \o x /\ \A i \in 1..n : all[i] = blocks[i]
  <2>1. buf \o x \in Seq(Int)
    OBVIOUS
  <2>. QED
    BY <2>1
<1>3. (n + 1) * size = n * size + size /\ (n + 1) - 1 = n
  BY <1>2
<1>. HIDE DEF n, all
<1>. SUFFICES CutInto(all, <<>>, size, e)
  BY DEF all
<1>4. e \in Seq(Int)
  OBVIOUS
<1>. HIDE DEF e
<1>5. ASSUME NEW i \in 1..Len(all) PROVE all[i] = SubSeq(e, (i - 1) * size + 1, i * size)
  <2>1. CASE i = n + 1
    BY <1>1, <1>2, <1>3, <2>1
  <2>2. CASE i # n + 1
    <3>1. i \in 1..n
      BY <1>2, <2>2
    <3>. QED
      BY <1>1, <1>2, <3>1
  <2>. QED
    BY <2>1, <2>2
<1>6. Len(all) * size = Len(e)
  BY <1>1, <1>2, <1>3
<1>7. <<>> = SubSeq(e, Len(all) * size + 1, Len(e))
  <2>1. SubSeq(e, Len(e) + 1, Len(e)) = <<>>
    BY <1>4
  <2>. QED
    BY <1>6, <2>1
<1>8. Len(e) = Len(all) * size + Len(<<>>) /\ Len(<<>>) < size
  <2>1. Len(<<>>) = 0 /\ Len(e) \in Nat
    BY <1>4
  <2>. QED
    BY <1>6, <2>1
<1>. QED
  BY <1>5, <1>7, <1>8, Zenon DEF CutInto

(***************************************************************************)
(* What a context holds of the bytes it was fed.                           *)
(***************************************************************************)
Contexts == [hash : Hashes, blocks : Seq(Seq(Int)), buf : Seq(Int), hi : Int, lo : Int]

Holds(ctx, h, d) ==
  /\ ctx \in Contexts /\ ctx.hash = h /\ d \in Seq(Int)
  /\ CutInto(ctx.blocks, ctx.buf, BlockSize[h], d)

SameCount(ctx, c) == c.hi = ctx.hi /\ c.lo = ctx.lo

LEMMA HoldsMore ==
  ASSUME NEW h \in Hashes, NEW ctx, NEW d, Holds(ctx, h, d), NEW x \in Seq(Int), Len(ctx.buf \o x) < BlockSize[h]
  PROVE  Holds([ctx EXCEPT !.buf = ctx.buf \o x], h, d \o x) /\ SameCount(ctx, [ctx EXCEPT !.buf = ctx.buf \o x])
<1> DEFINE c == [ctx EXCEPT !.buf = ctx.buf \o x]
<1>1. /\ ctx \in Contexts /\ ctx.hash = h /\ d \in Seq(Int) /\ ctx.blocks \in Seq(Seq(Int)) /\ ctx.buf \in Seq(Int)
      /\ CutInto(ctx.blocks, ctx.buf, BlockSize[h], d)
  BY DEF Holds, Contexts
<1>2. BlockSize[h] \in Nat \ {0}
  BY ParametersOk
<1>3. CutInto(ctx.blocks, ctx.buf \o x, BlockSize[h], d \o x)
  BY <1>1, <1>2, RestGrows
<1>4. ctx.buf \o x \in Seq(Int) /\ d \o x \in Seq(Int)
  BY <1>1
<1>5. c.blocks = ctx.blocks /\ c.buf = ctx.buf \o x /\ c.hash = ctx.hash /\ c.hi = ctx.hi /\ c.lo = ctx.lo
  BY <1>1 DEF Contexts
<1>6. c \in Contexts
  BY <1>1, <1>4 DEF Contexts
<1>. HIDE DEF c
<1>7. Holds(c, h, d \o x) /\ SameCount(ctx, c)
  BY <1>1, <1>3, <1>4, <1>5, <1>6 DEF Holds, SameCount
<1>. QED
  BY <1>7 DEF c

LEMMA HoldsBlock ==
  ASSUME NEW h \in Hashes, NEW ctx, NEW d, Holds(ctx, h, d), NEW x \in Seq(Int), Len(ctx.buf \o x) = BlockSize[h],
         NEW c, c \in {[Compress(ctx, ctx.buf \o x) EXCEPT !.buf = <<>>],
                       IF ctx.buf = <<>> THEN Compress(ctx, x) ELSE [Compress(ctx, ctx.buf \o x) EXCEPT !.buf = <<>>]}
  PROVE  Holds(c, h, d \o x) /\ SameCount(ctx, c) /\ c.buf = <<>>
<1> DEFINE block == ctx.buf \o x
<1>1. /\ ctx \in Contexts /\ ctx.hash = h /\ d \in Seq(Int) /\ ctx.blocks \in Seq(Seq(Int)) /\ ctx.buf \in Seq(Int)
      /\ CutInto(ctx.blocks, ctx.buf, BlockSize[h], d)
  BY DEF Holds, Contexts
<1>2. BlockSize[h] \in Nat \ {0}
  BY ParametersOk
<1>3. CutInto(Append(ctx.blocks, block), <<>>, BlockSize[h], d \o x)
  BY <1>1, <1>2, BlockCompleted
<1>4. block \in Seq(Int) /\ d \o x \in Seq(Int)
  BY <1>1
<1>5. ctx.buf = <<>> => block = x
  BY <1>1
<1>. HIDE DEF block
<1>6. c = [ctx EXCEPT !.blocks = Append(ctx.blocks, block), !.buf = <<>>]
  <2>1. c = [Compress(ctx, block) EXCEPT !.buf = <<>>] \/ (ctx.buf = <<>> /\ c = Compress(ctx, block))
    BY <1>5 DEF block
  <2>. QED
    BY <1>1, <2>1 DEF Compress, Contexts
<1>7. Append(ctx.blocks, block) \in Seq(Seq(Int)) /\ <<>> \in Seq(Int)
  BY <1>1, <1>4
<1>8. c.blocks = Append(ctx.blocks, block) /\ c.buf = <<>> /\ c.hash = ctx.hash /\ c.hi = ctx.hi /\ c.lo = ctx.lo
  BY <1>1, <1>6 DEF Contexts
<1>9. c \in Contexts
  BY <1>1, <1>6, <1>7 DEF Contexts
<1>. QED
  BY <1>1, <1>3, <1>4, <1>8, <1>9 DEF Holds, SameCount

(* FillBuffer takes k bytes of the data.                                   *)
Filled(r, ctx, h, d, data, k) ==
  /\ Holds(r.ctx, h, d \o SubSeq(data, 1, k))
  /\ SameCount(ctx, r.ctx)
  /\ r.rest = SubSeq(data, k + 1, Len(data))
  /\ r.rest # <<>> => r.ctx.buf = <<>>

LEMMA BufferIsFilled ==
  ASSUME NEW h \in Hashes, NEW ctx, NEW d, Holds(ctx, h, d), NEW data \in Seq(Int)
  PROVE  \E k \in 0..Len(data) : Filled(FillBuffer(ctx, data), ctx, h, d, data, k)
<1>0. ctx \in Contexts /\ ctx.hash = h /\ d \in Seq(Int) /\ ctx.buf \in Seq(Int) /\ Len(ctx.buf) < BlockSize[h]
  BY DEF Holds, Contexts, CutInto
<1>1. BlockSize[h] \in Nat \ {0} /\ Len(data) \in Nat /\ Len(ctx.buf) \in Nat
  BY <1>0, ParametersOk
<1>2. CASE ctx.buf = <<>>
  <2>1. FillBuffer(ctx, data) = [ctx |-> ctx, rest |-> data]
    BY <1>2 DEF FillBuffer
  <2>2. SubSeq(data, 1, 0) = <<>> /\ SubSeq(data, 0 + 1, Len(data)) = data /\ d \o <<>> = d /\ 0 \in 0..Len(data)
    BY <1>0, <1>1
  <2>3. Filled(FillBuffer(ctx, data), ctx, h, d, data, 0)
    <3> DEFINE r == FillBuffer(ctx, data)
    <3>1. r.ctx = ctx /\ r.rest = data
      BY <2>1
    <3>. HIDE DEF r
    <3>2. Filled(r, ctx, h, d, data, 0)
      BY <1>2, <2>2, <3>1 DEF Filled, SameCount
    <3>. QED
      BY <3>2 DEF r
  <2>. QED
    BY <2>2, <2>3
<1>3. CASE ctx.buf # <<>>
  <2> DEFINE size == BlockSize[h]
             room == size - Len(ctx.buf)
             fill == IF room > Len(data) THEN Len(data) ELSE room
             x    == SubSeq(data, 1, fill)
             buf  == ctx.buf \o x
             rest == SubSeq(data, fill + 1, Len(data))
             c    == IF Len(buf) = size THEN [Compress(ctx, buf) EXCEPT !.buf = <<>>] ELSE [ctx EXCEPT !.buf = buf]
  <2>1. FillBuffer(ctx, data) = [ctx |-> c, rest |-> rest]
    BY <1>0, <1>3 DEF FillBuffer
  <2>2. fill \in 0..Len(data) /\ fill <= room /\ (fill < room => fill = Len(data)) /\ room \in Nat
    BY <1>0, <1>1
  <2>. HIDE DEF fill
  <2>3. x \in Seq(Int) /\ Len(x) = fill
    BY <2>2
  <2>4. Len(buf) = Len(ctx.buf) + fill
    BY <1>0, <2>3
  <2>5. CASE Len(buf) = size
    <3>1. Holds(c, h, d \o x) /\ SameCount(ctx, c) /\ c.buf = <<>>
      BY <2>3, <2>5, HoldsBlock
    <3>. HIDE DEF c, x, rest
    <3>2. Filled(FillBuffer(ctx, data), ctx, h, d, data, fill)
      <4> DEFINE r == FillBuffer(ctx, data)
      <4>1. r.ctx = c /\ r.rest = rest
        BY <2>1
      <4>. HIDE DEF r
      <4>2. Filled(r, ctx, h, d, data, fill)
        BY <3>1, <4>1, Zenon DEF Filled, x, rest
      <4>. QED
        BY <4>2 DEF r
    <3>. QED
      BY <2>2, <3>2
  <2>6. CASE Len(buf) # size
    <3>1. fill = Len(data) /\ Len(buf) < size
      <4>1. fill # room
        BY <1>1, <2>4, <2>6
      <4>2. fill = Len(data) /\ fill < room
        BY <1>1, <2>2, <4>1
      <4>. HIDE DEF buf
      <4>. QED
        BY <1>1, <2>4, <4>2
    <3>2. Holds(c, h, d \o x) /\ SameCount(ctx, c)
      BY <2>3, <2>6, <3>1, HoldsMore
    <3>3. rest = <<>>
      BY <3>1
    <3>. HIDE DEF c, x, rest
    <3>4. Filled(FillBuffer(ctx, data), ctx, h, d, data, fill)
      <4> DEFINE r == FillBuffer(ctx, data)
      <4>1. r.ctx = c /\ r.rest = rest
        BY <2>1
      <4>. HIDE DEF r
      <4>2. Filled(r, ctx, h, d, data, fill)
        BY <3>2, <3>3, <4>1, Zenon DEF Filled, x, rest
      <4>. QED
        BY <4>2 DEF r
    <3>. QED
      BY <2>2, <3>4
  <2>. QED
    BY <2>5, <2>6
<1>. QED
  BY <1>2, <1>3

(***************************************************************************)
(* Any piece of a message goes on where the last one ended.                *)
(***************************************************************************)
Regrouped(a, b, c) == (a \o b) \o c = a \o (b \o c)

Glued(z, a, b) ==
  /\ z \in Seq(Int) /\ Len(a) \in Nat /\ Len(b) \in Nat /\ Len(z) = Len(a) + Len(b)
  /\ \A i \in 1..(Len(a) + Len(b)) : z[i] = IF i <= Len(a) THEN a[i] ELSE b[i - Len(a)]

LEMMA Glues ==
  ASSUME NEW a \in Seq(Int), NEW b \in Seq(Int)
  PROVE  Glued(a \o b, a, b)
BY ConcatProperties DEF Glued

LEMMA Regroups ==
  ASSUME NEW a \in Seq(Int), NEW b \in Seq(Int), NEW c \in Seq(Int)
  PROVE  Regrouped(a, b, c)
<1> DEFINE ab == a \o b
           bc == b \o c
           u == ab \o c
           v == a \o bc
<1>1. Glued(ab, a, b) /\ Glued(bc, b, c)
  BY Glues
<1>. HIDE DEF ab, bc
<1>2. Glued(u, ab, c) /\ Glued(v, a, bc)
  BY <1>1, Glues DEF Glued
<1>. HIDE DEF u, v
<1>3. u \in Seq(Int) /\ v \in Seq(Int) /\ Len(u) = Len(v)
  BY <1>1, <1>2 DEF Glued
<1>4. ASSUME NEW i \in 1..Len(u) PROVE u[i] = v[i]
  <2> DEFINE n == Len(a)
             m == Len(b)
             l == Len(c)
             j == i - n
  <2>1. n \in Nat /\ m \in Nat /\ l \in Nat /\ Len(ab) = n + m /\ Len(bc) = m + l /\ Len(u) = (n + m) + l
    BY <1>1, <1>2 DEF Glued
  <2>2. \A k \in 1..(n + m) : ab[k] = IF k <= n THEN a[k] ELSE b[k - n]
    BY <1>1 DEF Glued
  <2>3. \A k \in 1..(m + l) : bc[k] = IF k <= m THEN b[k] ELSE c[k - m]
    BY <1>1 DEF Glued
  <2>4. \A k \in 1..((n + m) + l) : u[k] = IF k <= n + m THEN ab[k] ELSE c[k - (n + m)]
    BY <1>2, <2>1 DEF Glued
  <2>5. \A k \in 1..(n + (m + l)) : v[k] = IF k <= n THEN a[k] ELSE bc[k - n]
    BY <1>2, <2>1 DEF Glued
  <2>. HIDE DEF n, m, l
  <2>6. i \in 1..((n + m) + l) /\ i \in 1..(n + (m + l))
    BY <2>1
  <2>7. CASE i <= n
    <3>1. i \in 1..(n + m) /\ i <= n + m
      BY <2>1, <2>6, <2>7
    <3>2. u[i] = ab[i] /\ v[i] = a[i]
      BY <2>4, <2>5, <2>6, <2>7, <3>1
    <3>. QED
      BY <2>2, <2>7, <3>1, <3>2
  <2>8. CASE ~ (i <= n) /\ i <= n + m
    <3>1. j \in 1..(m + l) /\ j <= m /\ i \in 1..(n + m)
      BY <2>1, <2>6, <2>8
    <3>2. u[i] = b[j]
      BY <2>2, <2>4, <2>6, <2>8, <3>1
    <3>3. v[i] = bc[j]
      BY <2>5, <2>6, <2>8
    <3>. HIDE DEF j
    <3>. QED
      BY <2>3, <3>1, <3>2, <3>3
  <2>9. CASE ~ (i <= n + m)
    <3>1. j \in 1..(m + l) /\ ~ (j <= m) /\ i - (n + m) = j - m /\ ~ (i <= n)
      BY <2>1, <2>6, <2>9
    <3>2. u[i] = c[j - m]
      <4>1. u[i] = c[i - (n + m)]
        BY <2>4, <2>6, <2>9
      <4>. QED
        BY <3>1, <4>1
    <3>3. v[i] = bc[j]
      BY <2>5, <2>6, <3>1
    <3>. HIDE DEF j
    <3>. QED
      BY <2>3, <3>1, <3>2, <3>3
  <2>. QED
    BY <2>7, <2>8, <2>9
<1>5. u = v
  BY <1>3, <1>4, SeqEqual
<1>. QED
  BY <1>5 DEF u, v, ab, bc, Regrouped

IsGiven(g, c, f, n) == g = [i \in 0..n |-> IF i = 0 THEN c ELSE Compress(g[i - 1], f[i])]

LEMMA GivenExists ==
  ASSUME NEW c, NEW f, NEW n \in Nat
  PROVE  \E g : IsGiven(g, c, f, n)
<1> DEFINE S == {m \in Nat : \E g : IsGiven(g, c, f, m)}
<1>1. 0 \in S
  <2> DEFINE g == [i \in 0..0 |-> c]
  <2>1. IsGiven(g, c, f, 0)
    <3>1. \A i \in 0..0 : i = 0
      OBVIOUS
    <3>. QED
      BY <3>1 DEF IsGiven
  <2>. QED
    BY <2>1
<1>2. ASSUME NEW m \in Nat, m \in S PROVE m + 1 \in S
  <2>1. PICK g : IsGiven(g, c, f, m)
    BY <1>2
  <2> DEFINE h == [i \in 0..(m + 1) |-> IF i = m + 1 THEN Compress(g[m], f[m + 1]) ELSE g[i]]
  <2>2. \A i \in 0..m : h[i] = g[i]
    OBVIOUS
  <2>3. ASSUME NEW i \in 0..(m + 1) PROVE h[i] = IF i = 0 THEN c ELSE Compress(h[i - 1], f[i])
    <3>1. CASE i = m + 1
      BY <2>2, <3>1
    <3>2. CASE i # m + 1
      <4>1. i \in 0..m /\ (i # 0 => i - 1 \in 0..m)
        BY <3>2
      <4>2. g[i] = IF i = 0 THEN c ELSE Compress(g[i - 1], f[i])
        BY <2>1, <4>1 DEF IsGiven
      <4>. QED
        BY <2>2, <4>1, <4>2
    <3>. QED
      BY <3>1, <3>2
  <2>4. IsGiven(h, c, f, m + 1)
    BY <2>3 DEF IsGiven
  <2>. QED
    BY <2>4
<1>. HIDE DEF S
<1>3. Nat \subseteq S
  BY <1>1, <1>2, Induction
<1>. QED
  BY <1>3 DEF S

(* The blocks that lie whole in the data.                                  *)
BlocksOf(rest, size, n) == [i \in 1..n |-> SubSeq(rest, (i - 1) * size + 1, i * size)]

Went(c, c0, h, e, rest, upto) ==
  /\ Holds(c, h, e \o SubSeq(rest, 1, upto)) /\ SameCount(c0, c)
  /\ rest # <<>> => c.buf = <<>>

LEMMA WholeBlocksGo ==
  ASSUME NEW h \in Hashes, NEW c0, NEW e, Holds(c0, h, e), NEW rest \in Seq(Int), rest # <<>> => c0.buf = <<>>,
         NEW n \in Nat, n * BlockSize[h] <= Len(rest), NEW g, IsGiven(g, c0, BlocksOf(rest, BlockSize[h], n), n)
  PROVE  Went(g[n], c0, h, e, rest, n * BlockSize[h])
<1> DEFINE size == BlockSize[h]
           S == {i \in 0..n : Went(g[i], c0, h, e, rest, i * size)}
<1>0. size \in Nat \ {0} /\ e \in Seq(Int) /\ Len(rest) \in Nat
  BY ParametersOk DEF Holds
<1>1. 0 \in S
  <2>1. g[0] = c0 /\ 0 * size = 0 /\ SubSeq(rest, 1, 0) = <<>> /\ e \o <<>> = e
    BY <1>0 DEF IsGiven
  <2>2. Went(c0, c0, h, e, rest, 0)
    BY <2>1 DEF Went, SameCount
  <2>. QED
    BY <2>1, <2>2
<1>2. ASSUME NEW i \in 0..(n - 1), i \in S PROVE i + 1 \in S
  <2> DEFINE p == i * size
             q == (i + 1) * size
             x == SubSeq(rest, p + 1, q)
  <2>1. p \in Nat /\ q = p + size /\ q \in Nat /\ q <= Len(rest)
    <3>1. n \in Nat /\ i \in 0..n /\ i + 1 \in 0..n /\ size \in Nat
      BY <1>0
    <3>2. p \in Nat /\ q = p + size
      BY <3>1, Multiples
    <3>3. q \in Nat /\ n * size \in Nat /\ q <= n * size
      BY <3>1, Multiples
    <3> DEFINE m == n * size
    <3>4. m \in Nat /\ q <= m /\ m <= Len(rest)
      BY <3>3
    <3>. HIDE DEF p, q, m, size
    <3>. QED
      BY <1>0, <3>2, <3>3, <3>4
  <2>2. g[i + 1] = Compress(g[i], x)
    <3>1. i + 1 \in 0..n /\ i + 1 # 0 /\ (i + 1) - 1 = i /\ i + 1 \in 1..n
      OBVIOUS
    <3>2. g[i + 1] = Compress(g[i], BlocksOf(rest, size, n)[i + 1])
      BY <3>1 DEF IsGiven
    <3>3. BlocksOf(rest, size, n)[i + 1] = SubSeq(rest, ((i + 1) - 1) * size + 1, (i + 1) * size)
      BY <3>1 DEF BlocksOf
    <3>. QED
      BY <3>1, <3>2, <3>3
  <2>3. Went(g[i], c0, h, e, rest, p)
    BY <1>2
  <2>. HIDE DEF p, q, size
  <2>4. x \in Seq(Int) /\ Len(x) = size /\ rest # <<>>
    BY <1>0, <2>1
  <2>5. SubSeq(rest, 1, p) \in Seq(Int) /\ SubSeq(rest, 1, p) \o x = SubSeq(rest, 1, q)
    <3>1. p \in 0..Len(rest) /\ q \in p..Len(rest)
      BY <1>0, <2>1
    <3>. QED
      BY <3>1, PartsJoin
  <2>. HIDE DEF x
  <2> DEFINE y == e \o SubSeq(rest, 1, p)
             c == g[i + 1]
  <2>6. Holds(g[i], h, y) /\ SameCount(c0, g[i]) /\ g[i].buf = <<>>
    BY <2>3, <2>4 DEF Went
  <2>7. c = IF g[i].buf = <<>> THEN Compress(g[i], x) ELSE [Compress(g[i], g[i].buf \o x) EXCEPT !.buf = <<>>]
    BY <2>2, <2>6
  <2>8. Len(g[i].buf \o x) = BlockSize[h]
    BY <2>4, <2>6 DEF size
  <2>9. y \o x = e \o SubSeq(rest, 1, q)
    <3> DEFINE v == SubSeq(rest, 1, p)
    <3>1. v \in Seq(Int) /\ v \o x = SubSeq(rest, 1, q)
      BY <2>5
    <3>. HIDE DEF v
    <3>2. Regrouped(e, v, x)
      BY <1>0, <2>4, <3>1, Regroups
    <3>. QED
      BY <3>1, <3>2 DEF v, Regrouped
  <2>. HIDE DEF c, y
  <2>10. Holds(c, h, y \o x) /\ SameCount(g[i], c) /\ c.buf = <<>>
    BY <2>4, <2>6, <2>7, <2>8, HoldsBlock
  <2>11. Went(c, c0, h, e, rest, q)
    BY <2>6, <2>9, <2>10 DEF Went, SameCount
  <2>. QED
    BY <2>11 DEF c, q, size
<1>3. 0..n \subseteq S
  <2>. HIDE DEF S
  <2>. QED
    BY <1>1, <1>2, InductionUpTo
<1>. QED
  BY <1>3

CountsAs(c, ctx, len) == SameCount(CountBits(ctx, len), c)

LEMMA CountingHolds ==
  ASSUME NEW h \in Hashes, NEW ctx, NEW d, Holds(ctx, h, d), NEW len \in Nat
  PROVE  Holds(CountBits(ctx, len), h, d)
<1> DEFINE base == WordBase(h)
           add  == (8 * len) % base
           lo   == (ctx.lo + add) % base
           hi   == IF h = "sha256" THEN 0
                   ELSE ctx.hi + (IF lo < add THEN 1 ELSE 0) + (len \div TwoTo(WordBits[h] - 3))
           c    == CountBits(ctx, len)
<1>1. ctx \in Contexts /\ ctx.hash = h
  BY DEF Holds
<1>2. c = [ctx EXCEPT !.lo = lo, !.hi = hi]
  BY <1>1 DEF CountBits, Contexts
<1>3. base \in Nat \ {0} /\ WordBits[h] - 3 \in Nat
  BY ParametersOk
<1>4. TwoTo(WordBits[h] - 3) \in Nat \ {0}
  BY <1>3, PowerPositive
<1>. HIDE DEF base
<1>5. add \in Int /\ lo \in Int
  BY <1>1, <1>3 DEF Contexts
<1>6. len \div TwoTo(WordBits[h] - 3) \in Int
  BY <1>4
<1>. HIDE DEF add, lo
<1>7. hi \in Int
  BY <1>1, <1>6 DEF Contexts
<1>. HIDE DEF hi, c
<1>8. c \in Contexts /\ c.hash = ctx.hash /\ c.blocks = ctx.blocks /\ c.buf = ctx.buf
  BY <1>1, <1>2, <1>5, <1>7 DEF Contexts
<1>9. Holds(c, h, d)
  BY <1>8 DEF Holds
<1>. QED
  BY <1>9 DEF c

(* ShaUpdate, for pieces of any length.                                    *)
LEMMA UpdateHolds ==
  ASSUME NEW h \in Hashes, NEW ctx, NEW d, Holds(ctx, h, d), NEW data \in Seq(Int)
  PROVE  Holds(ShaUpdate(ctx, data), h, d \o data) /\ CountsAs(ShaUpdate(ctx, data), ctx, Len(data))
<1> DEFINE c0    == CountBits(ctx, Len(data))
           start == FillBuffer(c0, data)
           size  == BlockSize[h]
           rest  == start.rest
           whole == Len(rest) \div size
           left  == SubSeq(rest, whole * size + 1, Len(rest))
           done[i \in 0..whole] ==
             IF i = 0 THEN start.ctx
             ELSE Compress(done[i - 1], SubSeq(rest, (i - 1) * size + 1, i * size))
           result == IF left = <<>> THEN done[whole] ELSE [done[whole] EXCEPT !.buf = left]
<1>0. ctx.hash = h /\ ctx \in Contexts /\ d \in Seq(Int) /\ Len(data) \in Nat
  BY DEF Holds
<1>1. ShaUpdate(ctx, data) = result
  BY <1>0 DEF ShaUpdate, WholeBlocks
<1>2. Holds(c0, h, d)
  BY <1>0, CountingHolds
<1>. HIDE DEF c0
<1>3. PICK k \in 0..Len(data) : Filled(start, c0, h, d, data, k)
  BY <1>2, BufferIsFilled
<1> DEFINE front == SubSeq(data, 1, k)
           e == d \o front
<1>. HIDE DEF start
<1>4. Holds(start.ctx, h, e) /\ SameCount(c0, start.ctx) /\ (rest # <<>> => start.ctx.buf = <<>>)
      /\ rest = SubSeq(data, k + 1, Len(data))
  BY <1>3 DEF Filled
<1>5. rest \in Seq(Int) /\ Len(rest) \in Nat /\ front \in Seq(Int) /\ front \o rest = data
  <2>1. k \in 0..Len(data) /\ Len(data) \in k..Len(data)
    BY <1>0
  <2>2. SubSeq(data, k + 1, Len(data)) \in Seq(Int) /\ front \in Seq(Int)
    BY <2>1
  <2>3. SubSeq(data, 1, k) \o SubSeq(data, k + 1, Len(data)) = SubSeq(data, 1, Len(data))
    BY <2>1, PartsJoin
  <2>4. SubSeq(data, 1, Len(data)) = data
    OBVIOUS
  <2> DEFINE tail == SubSeq(data, k + 1, Len(data))
  <2>5. rest = tail /\ tail \in Seq(Int) /\ Len(tail) \in Nat /\ front \o tail = data
    <3>1. rest = tail
      BY <1>4
    <3>2. tail \in Seq(Int) /\ Len(tail) \in Nat
      BY <2>2
    <3>3. front \o tail = data
      BY <2>3, <2>4
    <3>. QED
      BY <3>1, <3>2, <3>3
  <2>. HIDE DEF rest, tail, front
  <2>. QED
    BY <2>2, <2>5 DEF front
<1>6. size \in Nat \ {0}
  BY ParametersOk
<1>7. IsGiven(done, start.ctx, BlocksOf(rest, size, whole), whole) /\ whole \in Nat
  <2>0. whole \in Nat
    BY <1>5, <1>6, Division
  <2>. HIDE DEF rest, whole
  <2>1. \A i \in 1..whole : BlocksOf(rest, size, whole)[i] = SubSeq(rest, (i - 1) * size + 1, i * size)
    BY DEF BlocksOf
  <2>2. PICK g : IsGiven(g, start.ctx, BlocksOf(rest, size, whole), whole)
    BY <2>0, GivenExists
  <2>3. \A i \in 0..whole : i = 0 \/ i \in 1..whole
    BY <2>0
  <2>4. g = [i \in 0..whole |-> IF i = 0 THEN start.ctx
                                ELSE Compress(g[i - 1], SubSeq(rest, (i - 1) * size + 1, i * size))]
    BY <2>1, <2>2, <2>3 DEF IsGiven
  <2>5. done = [i \in 0..whole |-> IF i = 0 THEN start.ctx
                                ELSE Compress(done[i - 1], SubSeq(rest, (i - 1) * size + 1, i * size))]
    BY <2>4
  <2>. HIDE DEF done
  <2>6. IsGiven(done, start.ctx, BlocksOf(rest, size, whole), whole)
    BY <2>1, <2>3, <2>5 DEF IsGiven
  <2>. QED
    BY <2>0, <2>6
<1>8. Len(rest) = whole * size + (Len(rest) % size) /\ Len(rest) % size \in Nat /\ Len(rest) % size < size
  BY <1>5, <1>6, Division
<1>. HIDE DEF done
<1> DEFINE m == whole * size
<1>9. m \in Nat /\ m <= Len(rest) /\ Len(rest) - m < size
  <2>1. m \in Nat
    BY <1>6, <1>7, Multiples
  <2>. HIDE DEF whole
  <2>. QED
    BY <1>5, <1>6, <1>8, <2>1
<1>. HIDE DEF whole, rest, front, e
<1>10. Went(done[whole], start.ctx, h, e, rest, m)
  BY <1>4, <1>5, <1>7, <1>9, WholeBlocksGo
<1> DEFINE c == done[whole]
           v == SubSeq(rest, 1, m)
<1>11. /\ Holds(c, h, e \o v) /\ SameCount(start.ctx, c) /\ (rest # <<>> => c.buf = <<>>)
  BY <1>10 DEF Went
<1>. HIDE DEF m, c
<1>12. left \in Seq(Int) /\ Len(left) = Len(rest) - m /\ v \in Seq(Int) /\ v \o left = rest
  <2>1. m \in 0..Len(rest) /\ Len(rest) \in m..Len(rest) /\ left = SubSeq(rest, m + 1, Len(rest))
    BY <1>5, <1>9 DEF m
  <2>2. SubSeq(rest, 1, m) \o SubSeq(rest, m + 1, Len(rest)) = SubSeq(rest, 1, Len(rest))
    BY <1>5, <2>1, PartsJoin
  <2>3. SubSeq(rest, 1, Len(rest)) = rest
    BY <1>5
  <2>4. SubSeq(rest, 1, m) \in Seq(Int)
    BY <1>5, <2>1
  <2> DEFINE a == m + 1
  <2>5. a \in 1..(Len(rest) + 1) /\ Len(rest) - a + 1 = Len(rest) - m
    BY <1>5, <1>9
  <2>. HIDE DEF a
  <2> DEFINE b == Len(rest)
  <2>7. b \in Nat /\ a \in 1..(b + 1) /\ b - a + 1 = Len(rest) - m
    BY <1>5, <2>5
  <2>. HIDE DEF b
  <2>8. SubSeq(rest, a, b) \in Seq(Int) /\ Len(SubSeq(rest, a, b)) = b - a + 1
    BY <1>5, <2>7 DEF b
  <2>6. SubSeq(rest, a, Len(rest)) \in Seq(Int) /\ Len(SubSeq(rest, a, Len(rest))) = Len(rest) - m
    BY <2>7, <2>8 DEF b
  <2>. QED
    BY <2>1, <2>2, <2>3, <2>4, <2>6 DEF a
<1>. HIDE DEF left, v
<1>13. Holds(result, h, (e \o v) \o left) /\ SameCount(c, result)
  <2>1. CASE left = <<>>
    <3>1. result = c
      BY <2>1 DEF c
    <3>2. e \o v \in Seq(Int)
      BY <1>11 DEF Holds
    <3>3. (e \o v) \o left = e \o v
      BY <2>1, <3>2
    <3>. QED
      BY <1>11, <3>1, <3>3 DEF SameCount
  <2>2. CASE left # <<>>
    <3>1. rest # <<>>
      BY <1>5, <1>9, <1>12, <2>2
    <3>2. c.buf = <<>>
      BY <1>11, <3>1
    <3>3. c.buf \o left = left
      BY <1>12, <3>2
    <3>4. result = [c EXCEPT !.buf = c.buf \o left]
      BY <2>2, <3>3 DEF c
    <3>5. Len(c.buf \o left) < BlockSize[h]
      BY <1>9, <1>12, <3>3
    <3>. HIDE DEF result
    <3>. QED
      BY <1>11, <1>12, <3>4, <3>5, HoldsMore
  <2>. QED
    BY <2>1, <2>2
<1>14. (e \o v) \o left = d \o data
  <2>1. e \in Seq(Int) /\ e = d \o front
    BY <1>0, <1>5 DEF e
  <2>2. Regrouped(e, v, left)
    BY <1>12, <2>1, Regroups
  <2>3. Regrouped(d, front, rest)
    BY <1>0, <1>5, Regroups
  <2>. QED
    BY <1>5, <1>12, <2>1, <2>2, <2>3 DEF Regrouped
<1>15. SameCount(c0, result)
  BY <1>4, <1>11, <1>13 DEF SameCount
<1>. HIDE DEF result
<1>. QED
  BY <1>1, <1>13, <1>14, <1>15 DEF CountsAs, c0

(***************************************************************************)
(* The padding: one end mark, and zeros until only the length is missing.  *)
(***************************************************************************)
IsPadded(g, c, target, n) ==
  g = [k \in 0..n |-> IF k = 0 THEN c
                      ELSE IF Len(g[k - 1].buf) = target THEN g[k - 1] ELSE ShaUpdate(g[k - 1], <<0>>)]

LEMMA PaddedExists ==
  ASSUME NEW c, NEW target, NEW n \in Nat
  PROVE  \E g : IsPadded(g, c, target, n)
<1> DEFINE S == {m \in Nat : \E g : IsPadded(g, c, target, m)}
           Next1(x) == IF Len(x.buf) = target THEN x ELSE ShaUpdate(x, <<0>>)
<1>0. \A g, m : IsPadded(g, c, target, m) <=> g = [k \in 0..m |-> IF k = 0 THEN c ELSE Next1(g[k - 1])]
  BY DEF IsPadded
<1>. HIDE DEF Next1
<1>1. 0 \in S
  <2> DEFINE g == [i \in 0..0 |-> c]
  <2>1. IsPadded(g, c, target, 0)
    <3>1. \A i \in 0..0 : i = 0
      OBVIOUS
    <3>2. g = [k \in 0..0 |-> IF k = 0 THEN c ELSE Next1(g[k - 1])]
      BY <3>1
    <3>. QED
      BY <1>0, <3>2
  <2>. QED
    BY <2>1
<1>2. ASSUME NEW m \in Nat, m \in S PROVE m + 1 \in S
  <2>1. PICK g : IsPadded(g, c, target, m)
    BY <1>2
  <2>2. g = [k \in 0..m |-> IF k = 0 THEN c ELSE Next1(g[k - 1])]
    BY <1>0, <2>1
  <2> DEFINE h == [i \in 0..(m + 1) |-> IF i = m + 1 THEN Next1(g[m]) ELSE g[i]]
  <2>3. \A i \in 0..m : h[i] = g[i]
    OBVIOUS
  <2>4. ASSUME NEW i \in 0..(m + 1) PROVE h[i] = IF i = 0 THEN c ELSE Next1(h[i - 1])
    <3>1. CASE i = m + 1
      BY <2>3, <3>1
    <3>2. CASE i # m + 1
      <4>1. i \in 0..m /\ (i # 0 => i - 1 \in 0..m)
        BY <3>2
      <4>2. g[i] = IF i = 0 THEN c ELSE Next1(g[i - 1])
        BY <2>2, <4>1
      <4>. QED
        BY <2>3, <4>1, <4>2
    <3>. QED
      BY <3>1, <3>2
  <2>5. h = [k \in 0..(m + 1) |-> IF k = 0 THEN c ELSE Next1(h[k - 1])]
    BY <2>4
  <2>6. IsPadded(h, c, target, m + 1)
    BY <1>0, <2>5
  <2>. QED
    BY <2>6
<1>. HIDE DEF S
<1>3. Nat \subseteq S
  BY <1>1, <1>2, Induction
<1>. QED
  BY <1>3 DEF S

(* How many zeros fill a block: no fewer leave room for the length only.   *)
ZerosFor(w, len, size) == (size - ((w + len) % size)) % size

LEMMA NoMultipleBetween ==
  ASSUME NEW x \in Int, NEW size \in Nat \ {0}, x * size < size, x * size > -size
  PROVE  x = 0
<1>1. CASE x >= 1
  <2>1. x - 1 \in Nat
    BY <1>1
  <2>2. (x - 1) * size \in Nat
    BY <2>1
  <2>3. (x - 1) * size = x * size - size
    BY <2>1
  <2> DEFINE p == x * size
  <2>4. p \in Int /\ p - size \in Nat /\ p < size
    BY <2>2, <2>3
  <2>. HIDE DEF p
  <2>. QED
    BY <2>4
<1>2. CASE x <= -1
  <2>1. -x - 1 \in Nat
    BY <1>2
  <2>2. (-x - 1) * size \in Nat
    BY <2>1
  <2>3. (-x - 1) * size = -(x * size) - size
    BY <2>1
  <2> DEFINE p == x * size
  <2>4. p \in Int /\ -p - size \in Nat /\ p > -size
    BY <2>2, <2>3
  <2>. HIDE DEF p
  <2>. QED
    BY <2>4
<1>. QED
  BY <1>1, <1>2

LEMMA ZerosFill ==
  ASSUME NEW size \in Nat \ {0}, NEW w \in Nat, NEW len \in Nat
  PROVE  /\ ZerosFor(w, len, size) \in 0..(size - 1)
         /\ \E p \in Nat : w + len + ZerosFor(w, len, size) = p * size
<1> DEFINE used == w + len
           q == used \div size
           r == used % size
           z == (size - r) % size
<1>1. q \in Nat /\ r \in Nat /\ r < size /\ used = q * size + r
  <2>1. used \in Nat
    OBVIOUS
  <2>. HIDE DEF used
  <2>. QED
    BY <2>1, Division
<1>2. ZerosFor(w, len, size) = z
  BY DEF ZerosFor
<1>. HIDE DEF used, q, r
<1>3. CASE r = 0
  <2>1. z = 0
    <3>1. size - r = 1 * size + 0
      BY <1>3
    <3>2. (1 * size + 0) % size = 0
      OBVIOUS
    <3>. QED
      BY <3>1, <3>2
  <2>. HIDE DEF z
  <2>2. used = q * size /\ q * size \in Nat
    BY <1>1, <1>3
  <2> DEFINE m == q * size
  <2>3. m = q * size
    OBVIOUS
  <2>. HIDE DEF m
  <2>4. w + len + z = m
    BY <2>1, <2>2, <2>3 DEF used
  <2>5. 0 \in 0..(size - 1)
    OBVIOUS
  <2>. QED
    BY <1>1, <1>2, <2>1, <2>3, <2>4, <2>5
<1>4. CASE r # 0
  <2>1. z = size - r
    <3> DEFINE t == size - r
    <3>1. t \in Nat /\ t < size
      BY <1>1, <1>4
    <3>. HIDE DEF t
    <3>2. t % size = t
      BY <3>1
    <3>. QED
      BY <3>2 DEF t
  <2>. HIDE DEF z
  <2>2. (q + 1) * size = q * size + size /\ q * size \in Nat
    BY <1>1
  <2> DEFINE m == q * size
             n == (q + 1) * size
  <2>3. n = m + size /\ m \in Nat /\ used = m + r
    BY <1>1, <2>2
  <2>. HIDE DEF m, n
  <2>4. w + len + z = n /\ z \in 0..(size - 1)
    BY <1>1, <1>4, <2>1, <2>3 DEF used
  <2>5. q + 1 \in Nat
    BY <1>1
  <2>. QED
    BY <1>2, <2>4, <2>5 DEF n
<1>. QED
  BY <1>3, <1>4

(* Full means room for the length only, and comes with the last zero.      *)
FullAt(w, len, size, m, k, b) == b = size - len <=> m = ZerosFor(w, len, size)

LEMMA LastZeroFills ==
  ASSUME NEW size \in Nat \ {0}, NEW w \in Nat, NEW len \in Nat \ {0}, len < size,
         NEW m \in 0..ZerosFor(w, len, size), NEW k \in Nat, NEW b \in Nat, b < size, w + m = k * size + b
  PROVE  FullAt(w, len, size, m, k, b)
<1> DEFINE z == ZerosFor(w, len, size)
<1>1. PICK p \in Nat : w + len + z = p * size
  BY ZerosFill
<1>2. z \in 0..(size - 1)
  BY ZerosFill
<1>. HIDE DEF z
<1> DEFINE ps == p * size
           ks == k * size
<1>3. ps \in Nat /\ ks \in Nat /\ w + len + z = ps /\ w + m = ks + b /\ m \in 0..z
  BY <1>1 DEF z
<1>4. p - k - 1 \in Int /\ (p - k - 1) * size = ps - ks - size
  <2>1. p - k - 1 \in Int
    OBVIOUS
  <2>2. (p - k - 1) * size = p * size - k * size - size
    OBVIOUS
  <2>. QED
    BY <2>1, <2>2
<1> DEFINE x == p - k - 1
           xs == x * size
<1>5. xs = ps - ks - size /\ x \in Int /\ xs \in Int
  BY <1>3, <1>4
<1>6. xs < size /\ xs > -size => x = 0
  <2>. HIDE DEF x
  <2>. QED
    BY <1>5, NoMultipleBetween
<1>7. x = 0 => xs = 0
  <2>. HIDE DEF x
  <2>. QED
    OBVIOUS
<1>. HIDE DEF ps, ks, x, xs
<1>8. ASSUME b = size - len PROVE m = z
  <2>1. xs = z - m
    BY <1>2, <1>3, <1>5, <1>8
  <2>2. xs < size /\ xs > -size
    BY <1>2, <1>3, <2>1
  <2>. QED
    BY <1>2, <1>3, <1>6, <1>7, <2>1, <2>2
<1>9. ASSUME m = z PROVE b = size - len
  <2>1. xs = b + len - size
    BY <1>2, <1>3, <1>5, <1>9
  <2>2. xs < size /\ xs > -size
    BY <2>1
  <2>. QED
    BY <1>6, <1>7, <2>1, <2>2
<1>. QED
  BY <1>8, <1>9 DEF FullAt, z

Zeros(n) == [i \in 1..n |-> 0]

LEMMA OneMoreZero ==
  ASSUME NEW n \in Nat
  PROVE  Zeros(n) \in Seq(Int) /\ Len(Zeros(n)) = n /\ Zeros(n) \o <<0>> = Zeros(n + 1)
<1>1. Zeros(n) \in Seq(Int) /\ Len(Zeros(n)) = n /\ Zeros(n + 1) \in Seq(Int) /\ Len(Zeros(n + 1)) = n + 1
  BY DEF Zeros
<1>2. \A i \in 1..n : Zeros(n)[i] = 0
  BY DEF Zeros
<1>3. \A i \in 1..(n + 1) : Zeros(n + 1)[i] = 0
  BY DEF Zeros
<1> DEFINE a == Zeros(n)
           b == Zeros(n + 1)
           c == a \o <<0>>
<1>. HIDE DEF a, b
<1>4. c \in Seq(Int) /\ Len(c) = n + 1 /\ \A i \in 1..(n + 1) : c[i] = IF i <= n THEN a[i] ELSE 0
  BY <1>1 DEF a
<1>. HIDE DEF c
<1>5. \A i \in 1..(n + 1) : c[i] = b[i]
  <2>1. \A i \in 1..(n + 1) : i <= n => i \in 1..n
    OBVIOUS
  <2>. QED
    BY <1>2, <1>3, <1>4, <2>1 DEF a, b
<1>6. c = b
  BY <1>1, <1>4, <1>5, SeqEqual DEF b
<1>. QED
  BY <1>1, <1>6 DEF a, b, c

(* How much is held decides how full the buffer is.                        *)
LEMMA HeldFills ==
  ASSUME NEW h \in Hashes, NEW c, NEW d, Holds(c, h, d)
  PROVE  /\ Len(c.blocks) \in Nat /\ Len(c.buf) \in Nat /\ Len(c.buf) < BlockSize[h]
         /\ Len(d) = Len(c.blocks) * BlockSize[h] + Len(c.buf)
<1>1. c.blocks \in Seq(Seq(Int)) /\ c.buf \in Seq(Int)
  BY DEF Holds, Contexts
<1>. QED
  BY <1>1 DEF Holds, CutInto

PaddedWith(c, h, e, m) == Holds(c, h, e \o Zeros(m))

(* One turn of the padding loop.                                           *)
LEMMA PadTurn ==
  ASSUME NEW h \in Hashes, NEW e \in Seq(Int), NEW z, z = ZerosFor(Len(e), LengthBytes[h], BlockSize[h]),
         NEW m \in 0..z, NEW c, PaddedWith(c, h, e, m)
  PROVE  /\ Len(c.buf) = BlockSize[h] - LengthBytes[h] <=> m = z
         /\ PaddedWith(ShaUpdate(c, <<0>>), h, e, m + 1)
<1> DEFINE size == BlockSize[h]
           len  == LengthBytes[h]
           w    == Len(e)
           y    == e \o Zeros(m)
<1>1. size \in Nat \ {0} /\ len \in Nat \ {0} /\ len < size /\ w \in Nat
  BY ParametersOk
<1>2. z \in 0..(size - 1)
  BY <1>1, ZerosFill
<1>3. m \in Nat
  BY <1>2
<1>4. Zeros(m) \in Seq(Int) /\ Len(Zeros(m)) = m /\ Zeros(m) \o <<0>> = Zeros(m + 1)
  BY <1>3, OneMoreZero
<1>5. y \in Seq(Int) /\ Len(y) = w + m
  BY <1>4
<1>6. Holds(c, h, y)
  BY DEF PaddedWith
<1>. HIDE DEF y
<1> DEFINE k == Len(c.blocks)
           b == Len(c.buf)
<1>7. k \in Nat /\ b \in Nat /\ b < size /\ Len(y) = k * size + b
  BY <1>6, HeldFills
<1>. HIDE DEF k, b, size, len, w
<1>8. FullAt(w, len, size, m, k, b)
  <2>1. w + m = k * size + b
    BY <1>5, <1>7
  <2>2. m \in 0..ZerosFor(w, len, size)
    BY DEF w, len, size
  <2>. QED
    BY <1>1, <1>7, <2>1, <2>2, LastZeroFills
<1>9. b = size - len <=> m = z
  BY <1>8 DEF FullAt, w, len, size
<1> DEFINE zero == <<0>>
<1>0. zero \in Seq(Int)
  OBVIOUS
<1>. HIDE DEF zero
<1>10. Holds(ShaUpdate(c, zero), h, y \o zero)
  BY <1>0, <1>6, UpdateHolds
<1>11. y \o zero = e \o Zeros(m + 1)
  <2>1. Regrouped(e, Zeros(m), zero)
    BY <1>0, <1>4, Regroups
  <2>. QED
    BY <1>4, <2>1 DEF Regrouped, y, zero
<1>. QED
  BY <1>9, <1>10, <1>11 DEF PaddedWith, b, size, len, zero

(* The whole loop.                                                         *)
LEMMA PaddingEnds ==
  ASSUME NEW h \in Hashes, NEW e \in Seq(Int), NEW c, Holds(c, h, e), NEW target,
         target = BlockSize[h] - LengthBytes[h], NEW g, IsPadded(g, c, target, BlockSize[h])
  PROVE  PaddedWith(g[BlockSize[h]], h, e, ZerosFor(Len(e), LengthBytes[h], BlockSize[h]))
<1> DEFINE size == BlockSize[h]
           z    == ZerosFor(Len(e), LengthBytes[h], BlockSize[h])
           S    == {k \in 0..size : \E m \in 0..z : PaddedWith(g[k], h, e, m) /\ (m = k \/ m = z)}
<1>1. size \in Nat \ {0} /\ LengthBytes[h] \in Nat \ {0} /\ Len(e) \in Nat
  BY ParametersOk
<1>2. z \in 0..(size - 1)
  BY <1>1, ZerosFill
<1>. HIDE DEF z, size
<1>3. 0 \in S
  <2>1. e \o Zeros(0) = e
    BY DEF Zeros
  <2>2. g[0] = c
    BY <1>1 DEF IsPadded, size
  <2>3. PaddedWith(g[0], h, e, 0)
    BY <2>1, <2>2 DEF PaddedWith
  <2>. QED
    BY <1>1, <1>2, <2>3
<1>4. ASSUME NEW k \in 0..(size - 1), k \in S PROVE k + 1 \in S
  <2>1. PICK m \in 0..z : PaddedWith(g[k], h, e, m) /\ (m = k \/ m = z)
    BY <1>4
  <2>2. Len(g[k].buf) = target <=> m = z
    BY <2>1, PadTurn DEF z
  <2>3. PaddedWith(ShaUpdate(g[k], <<0>>), h, e, m + 1)
    BY <2>1, PadTurn DEF z
  <2>4. g[k + 1] = IF Len(g[k].buf) = target THEN g[k] ELSE ShaUpdate(g[k], <<0>>)
    <3>1. k + 1 \in 0..size /\ k + 1 # 0 /\ (k + 1) - 1 = k
      BY <1>1
    <3>. QED
      BY <3>1 DEF IsPadded, size
  <2>5. CASE m = z
    <3>1. g[k + 1] = g[k]
      BY <2>2, <2>4, <2>5
    <3>2. k + 1 \in 0..size
      BY <1>1
    <3>. QED
      BY <2>1, <2>5, <3>1, <3>2
  <2>6. CASE m # z
    <3>1. g[k + 1] = ShaUpdate(g[k], <<0>>)
      BY <2>2, <2>4, <2>6
    <3>2. m + 1 \in 0..z /\ m = k /\ k + 1 \in 0..size
      BY <1>1, <1>2, <2>1, <2>6
    <3>. QED
      BY <2>3, <3>1, <3>2
  <2>. QED
    BY <2>5, <2>6
<1>5. 0..size \subseteq S
  <2>. HIDE DEF S
  <2>1. size \in Nat
    BY <1>1
  <2>. QED
    BY <1>3, <1>4, <2>1, InductionUpTo
<1>6. PICK m \in 0..z : PaddedWith(g[size], h, e, m) /\ (m = size \/ m = z)
  <2>1. size \in 0..size
    BY <1>1
  <2>. QED
    BY <1>5, <2>1
<1>7. m = z
  BY <1>1, <1>2, <1>6
<1>. QED
  BY <1>6, <1>7 DEF z, size

LEMMA NothingHeld ==
  ASSUME NEW h \in Hashes
  PROVE  Holds(ShaInit(h), h, <<>>) /\ BitsCounted(h, ShaInit(h).hi, ShaInit(h).lo, 0)
<1>1. BlockSize[h] \in Nat \ {0} /\ WordBase(h) \in Nat \ {0}
  BY ParametersOk
<1>2. <<>> \in Seq(Int) /\ <<>> \in Seq(Seq(Int)) /\ Len(<<>>) = 0
  OBVIOUS
<1>3. ShaInit(h) \in Contexts
  BY <1>2 DEF ShaInit, Contexts
<1>4. CutInto(<<>>, <<>>, BlockSize[h], <<>>)
  <2>1. Len(<<>>) * BlockSize[h] = 0
    BY <1>1, <1>2
  <2>2. <<>> = SubSeq(<<>>, 0 + 1, 0)
    BY <1>2
  <2>. QED
    BY <1>1, <1>2, <2>1, <2>2 DEF CutInto
<1>5. Holds(ShaInit(h), h, <<>>)
  BY <1>2, <1>3, <1>4 DEF Holds, ShaInit
<1>6. (8 * 0) % WordBase(h) = 0 /\ (8 * 0) \div WordBase(h) = 0
  <2>1. 8 * 0 = 0
    OBVIOUS
  <2>2. \A a \in Nat \ {0} : 0 % a = 0 /\ 0 \div a = 0
    OBVIOUS
  <2>. QED
    BY <1>1, <2>1, <2>2
<1>7. BitsCounted(h, 0, 0, 0)
  BY <1>6 DEF BitsCounted
<1>. QED
  BY <1>5, <1>7 DEF ShaInit

(* What is compressed when nothing is left over.                           *)
BlocksAre(blocks, d, size) ==
  blocks = [i \in 1..(Len(d) \div size) |-> SubSeq(d, (i - 1) * size + 1, i * size)]

LEMMA AllCut ==
  ASSUME NEW h \in Hashes, NEW c, NEW d, Holds(c, h, d), NEW p \in Nat, Len(d) = p * BlockSize[h]
  PROVE  BlocksAre(c.blocks, d, BlockSize[h])
<1> DEFINE size == BlockSize[h]
           k == Len(c.blocks)
           b == Len(c.buf)
<1>0. size \in Nat \ {0}
  BY ParametersOk
<1>1. k \in Nat /\ b \in Nat /\ b < size /\ Len(d) = k * size + b
  BY HeldFills
<1>2. c.blocks \in Seq(Seq(Int)) /\ CutInto(c.blocks, c.buf, size, d)
  BY DEF Holds, Contexts
<1>. HIDE DEF b, size
<1>3. p = k /\ b = 0
  <2>. HIDE DEF k
  <2> DEFINE x == p - k
             ps == p * size
             ks == k * size
  <2>1. x * size = ps - ks /\ x \in Int /\ ps \in Nat /\ ks \in Nat /\ ps = ks + b
    <3>1. (p - k) * size = p * size - k * size
      BY <1>0, <1>1
    <3>2. p * size \in Nat /\ k * size \in Nat /\ p - k \in Int
      BY <1>0, <1>1
    <3>3. p * size = k * size + b
      BY <1>1 DEF size
    <3>. QED
      BY <3>1, <3>2, <3>3
  <2> DEFINE xs == x * size
  <2>2. xs < size /\ xs > -size => x = 0
    <3>. HIDE DEF x
    <3>. QED
      BY <1>0, <2>1, NoMultipleBetween
  <2>3. xs = b
    <3>1. xs = ps - ks
      BY <2>1
    <3>. HIDE DEF xs, ps, ks
    <3>. QED
      BY <1>1, <2>1, <3>1
  <2>. HIDE DEF xs
  <2>4. x = 0
    BY <1>0, <1>1, <2>2, <2>3
  <2>5. p = k
    BY <1>1, <2>4
  <2>6. ps = ks
    BY <2>5
  <2>. HIDE DEF ps, ks
  <2>. QED
    BY <1>1, <2>1, <2>5, <2>6
<1>4. Len(d) \div size = k
  <2>1. Len(d) = k * size + 0
    BY <1>3 DEF size
  <2>. HIDE DEF k
  <2>2. (k * size + 0) \div size = k
    BY <1>0, <1>1, DivisionIs
  <2>. QED
    BY <2>1, <2>2
<1>5. c.blocks = [i \in 1..k |-> SubSeq(d, (i - 1) * size + 1, i * size)]
  <2>1. \A i \in 1..k : c.blocks[i] = SubSeq(d, (i - 1) * size + 1, i * size)
    BY <1>2 DEF CutInto
  <2> DEFINE blocks == c.blocks
  <2>3. blocks \in Seq(Seq(Int)) /\ k = Len(blocks)
    BY <1>2
  <2>. HIDE DEF blocks
  <2>4. blocks = [i \in 1..Len(blocks) |-> blocks[i]]
    BY <2>3
  <2>2. c.blocks = [i \in 1..k |-> c.blocks[i]]
    BY <2>3, <2>4 DEF blocks
  <2>. HIDE DEF k
  <2>. QED
    BY <2>1, <2>2
<1>. HIDE DEF k
<1>. QED
  BY <1>4, <1>5 DEF BlocksAre, size

LEMMA LengthFieldBytes ==
  ASSUME NEW h \in Hashes, NEW n \in Nat, NEW f,
         f = [i \in 1..LengthBytes[h] |-> ((8 * n) \div TwoTo(ByteWidth(h) * (LengthBytes[h] - i))) % TwoTo(ByteWidth(h))]
  PROVE  f \in Seq(Int) /\ Len(f) = LengthBytes[h]
<1> DEFINE size == LengthBytes[h]
           width == ByteWidth(h)
           Byte(i) == ((8 * n) \div TwoTo(width * (size - i))) % TwoTo(width)
<1>1. size \in Nat /\ width \in Nat
  BY ParametersOk
<1>2. f = [i \in 1..size |-> Byte(i)]
  OBVIOUS
<1>. HIDE DEF size, width
<1>3. ASSUME NEW i \in 1..size PROVE Byte(i) \in Int
  <2>1. size - i \in Nat
    BY <1>1
  <2> DEFINE e == width * (size - i)
  <2>2. e \in Nat
    BY <1>1, <2>1
  <2>. HIDE DEF e
  <2>3. TwoTo(e) \in Nat \ {0} /\ TwoTo(width) \in Nat \ {0}
    BY <1>1, <2>2, PowerPositive
  <2> DEFINE a == TwoTo(e)
             b == TwoTo(width)
             m == 8 * n
  <2>4. a \in Nat \ {0} /\ b \in Nat \ {0} /\ m \in Nat
    BY <2>3
  <2>. HIDE DEF a, b, m
  <2>5. m \div a \in Int
    BY <2>4
  <2> DEFINE q == m \div a
  <2>. HIDE DEF q
  <2>6. q % b \in Int
    BY <2>4, <2>5 DEF q
  <2>. QED
    BY <2>6 DEF q, m, a, b, e
<1>. HIDE DEF Byte
<1>4. [i \in 1..size |-> Byte(i)] \in Seq(Int) /\ Len([i \in 1..size |-> Byte(i)]) = size
  BY <1>1, <1>3
<1>. QED
  BY <1>2, <1>4 DEF size

(* ShaFinal on a context that holds the message and counts its bits.       *)
LEMMA FinalCutsThePaddedMessage ==
  ASSUME NEW h \in Hashes, NEW message \in Seq(Int), NEW ctx, Holds(ctx, h, message),
         BitsCounted(h, ctx.hi, ctx.lo, Len(message))
  PROVE  BlocksAre(ShaFinal(ctx), PaddedMessage(h, message), BlockSize[h])
<1> DEFINE size   == BlockSize[h]
           target == size - LengthBytes[h]
           c      == ShaUpdate(ctx, <<PadByte>>)
           e      == message \o <<PadByte>>
           field  == LengthField(ctx)
           padded[k \in 0..size] ==
             IF k = 0 THEN c
             ELSE LET d == padded[k - 1] IN IF Len(d.buf) = target THEN d ELSE ShaUpdate(d, <<0>>)
           z      == ZerosFor(Len(e), LengthBytes[h], size)
           y      == e \o Zeros(z)
           last   == ShaUpdate(padded[size], field)
           bits   == 8 * Len(message)
           bytes  == [i \in 1..LengthBytes[h] |-> (bits \div TwoTo(ByteWidth(h) * (LengthBytes[h] - i))) % TwoTo(ByteWidth(h))]
<1>0. ctx.hash = h
  BY DEF Holds
<1>1. ShaFinal(ctx) = last.blocks
  BY <1>0 DEF ShaFinal
<1>2. Len(message) \in Nat /\ size \in Nat \ {0} /\ LengthBytes[h] \in Nat \ {0}
  BY ParametersOk
<1>3. IsPadded(padded, c, target, size)
  <2>. HIDE DEF c, target
  <2>0. size \in Nat
    BY <1>2
  <2>. HIDE DEF size
  <2>1. PICK g : IsPadded(g, c, target, size)
    BY <2>0, PaddedExists
  <2>2. g = [k \in 0..size |-> IF k = 0 THEN c
                ELSE LET d == g[k - 1] IN IF Len(d.buf) = target THEN d ELSE ShaUpdate(d, <<0>>)]
    BY <2>1 DEF IsPadded
  <2>3. padded = [k \in 0..size |-> IF k = 0 THEN c
                ELSE LET d == padded[k - 1] IN IF Len(d.buf) = target THEN d ELSE ShaUpdate(d, <<0>>)]
    BY <2>2
  <2>. HIDE DEF padded
  <2>. QED
    BY <2>3 DEF IsPadded
<1>4. e \in Seq(Int) /\ Len(e) = Len(message) + 1
  BY DEF PadByte
<1>5. Holds(c, h, e)
  <2> DEFINE mark == <<PadByte>>
  <2>1. mark \in Seq(Int)
    BY DEF PadByte
  <2>. HIDE DEF mark
  <2>2. Holds(ShaUpdate(ctx, mark), h, message \o mark)
    BY <2>1, UpdateHolds
  <2>. QED
    BY <2>2 DEF mark
<1>6. field = bytes
  BY <1>0, <1>2, LengthIsWritten
<1>7. bytes \in Seq(Int) /\ Len(bytes) = LengthBytes[h]
  BY <1>2, LengthFieldBytes
<1>. HIDE DEF padded, c, field, bytes, e
<1>8. PaddedWith(padded[size], h, e, z)
  BY <1>3, <1>4, <1>5, PaddingEnds
<1>9. z \in 0..(size - 1) /\ \E p \in Nat : Len(e) + LengthBytes[h] + z = p * size
  <2> DEFINE w == Len(e)
             len == LengthBytes[h]
  <2>1. w \in Nat /\ len \in Nat /\ size \in Nat \ {0}
    BY <1>2, <1>4
  <2>. HIDE DEF w, len, size
  <2>2. ZerosFor(w, len, size) \in 0..(size - 1) /\ \E p \in Nat : w + len + ZerosFor(w, len, size) = p * size
    BY <2>1, ZerosFill
  <2>. QED
    BY <2>2 DEF w, len, size
<1>. HIDE DEF z
<1>10. Zeros(z) \in Seq(Int) /\ Len(Zeros(z)) = z
  <2>1. z \in Nat
    BY <1>2, <1>9
  <2>. QED
    BY <2>1, OneMoreZero
<1>11. y \in Seq(Int) /\ Len(y) = Len(e) + z
  <2> DEFINE zs == Zeros(z)
  <2>1. zs \in Seq(Int) /\ Len(zs) = z
    BY <1>10
  <2>. HIDE DEF zs
  <2>2. e \o zs \in Seq(Int) /\ Len(e \o zs) = Len(e) + Len(zs)
    <3>1. Glued(e \o zs, e, zs)
      BY <1>4, <2>1, Glues
    <3>. QED
      BY <3>1 DEF Glued
  <2>. QED
    BY <2>1, <2>2 DEF zs
<1>. HIDE DEF y
<1>12. Holds(last, h, y \o field)
  BY <1>6, <1>7, <1>8, UpdateHolds DEF PaddedWith, y
<1>13. PaddedMessage(h, message) = y \o field
  <2>1. (size - ((Len(message) + 1 + LengthBytes[h]) % size)) % size = z
    BY <1>4 DEF z, ZerosFor
  <2>. HIDE DEF size
  <2>. QED
    BY <1>6, <2>1 DEF PaddedMessage, Zeros, y, e, bytes, size
<1>14. PICK p \in Nat : Len(e) + LengthBytes[h] + z = p * size
  BY <1>9
<1>15. Len(y \o field) = p * size
  <2>0. field \in Seq(Int)
    BY <1>6, <1>7
  <2>1. Len(y \o field) = Len(y) + Len(field)
    <3>1. Glued(y \o field, y, field)
      BY <1>11, <2>0, Glues
    <3>. QED
      BY <3>1 DEF Glued
  <2> DEFINE m == p * size
  <2>2. Len(e) + LengthBytes[h] + z = m
    BY <1>14
  <2>3. Len(y \o field) = m
    <3> DEFINE l == Len(e)
               f == LengthBytes[h]
               t == Len(y \o field)
    <3>1. l \in Nat /\ f \in Nat /\ t = (l + z) + f /\ l + f + z = m
      BY <1>2, <1>4, <1>6, <1>7, <1>11, <2>1, <2>2
    <3>2. z \in Nat
      BY <1>2, <1>9
    <3>. HIDE DEF m, l, f, t
    <3>3. t = m
      BY <3>1, <3>2
    <3>. QED
      BY <3>3 DEF t
  <2>. QED
    BY <2>3
<1>. HIDE DEF last
<1>16. BlocksAre(last.blocks, y \o field, size)
  BY <1>12, <1>15, AllCut
<1>. QED
  BY <1>1, <1>13, <1>16

(* What a hash job has done with the message so far.                       *)
HashFed(j, fed, ctx) ==
  /\ fed \in 0..Len(j.message)
  /\ Holds(ctx, j.hash, SubSeq(j.message, 1, fed))
  /\ BitsCounted(j.hash, ctx.hi, ctx.lo, fed)

HashedTo(j, blocks) == BlocksAre(blocks, PaddedMessage(j.hash, j.message), BlockSize[j.hash])

LEMMA HashJobsOk ==
  ASSUME NEW j \in HashJobs
  PROVE  j.hash \in Hashes /\ j.message \in Seq(Int) /\ Len(j.message) \in Nat
<1>1. j.hash \in Hashes /\ j.message \in Seq(Nat)
  BY HashJobsAssumption
<1> DEFINE m == j.message
           Small == Nat
           Big == Int
<1>2. m \in Seq(Small) /\ Small \subseteq Big
  BY <1>1
<1>. HIDE DEF m, Small, Big
<1>3. m \in Seq(Big)
  BY <1>2
<1>. QED
  BY <1>1, <1>3 DEF m, Big

LEMMA HashStarts ==
  ASSUME NEW j \in HashJobs
  PROVE  HashFed(j, 0, ShaInit(j.hash))
<1>1. j.hash \in Hashes /\ j.message \in Seq(Int) /\ Len(j.message) \in Nat
  BY HashJobsOk
<1>2. SubSeq(j.message, 1, 0) = <<>>
  BY <1>1
<1>3. Holds(ShaInit(j.hash), j.hash, <<>>) /\ BitsCounted(j.hash, ShaInit(j.hash).hi, ShaInit(j.hash).lo, 0)
  BY <1>1, NothingHeld
<1>4. 0 \in 0..Len(j.message)
  BY <1>1
<1>. QED
  BY <1>2, <1>3, <1>4, Zenon DEF HashFed

LEMMA HashGoesOn ==
  ASSUME NEW j \in HashJobs, NEW fed, NEW ctx, HashFed(j, fed, ctx), NEW n \in (fed + 1)..Len(j.message)
  PROVE  HashFed(j, n, ShaUpdate(ctx, SubSeq(j.message, fed + 1, n)))
<1> DEFINE h == j.hash
           message == j.message
           data == SubSeq(message, fed + 1, n)
           front == SubSeq(message, 1, fed)
           len == n - fed
           c == ShaUpdate(ctx, data)
<1>1. h \in Hashes /\ message \in Seq(Int) /\ Len(message) \in Nat
  BY HashJobsOk
<1>2. fed \in 0..Len(message) /\ Holds(ctx, h, front) /\ BitsCounted(h, ctx.hi, ctx.lo, fed)
  BY DEF HashFed
<1>3. ctx \in Contexts /\ ctx.hash = h
  BY <1>2 DEF Holds
<1>. HIDE DEF h, message
<1>4. fed \in Nat /\ n \in Nat /\ n \in fed..Len(message) /\ len \in Nat /\ n \in 0..Len(message) /\ fed + len = n
  BY <1>1, <1>2 DEF message
<1>5. data \in Seq(Int) /\ Len(data) = len
  <2> DEFINE a == fed + 1
  <2>1. a \in 1..(Len(message) + 1) /\ n \in (a - 1)..Len(message) /\ n - a + 1 = len
    BY <1>1, <1>4
  <2>. HIDE DEF a
  <2>2. SubSeq(message, a, n) \in Seq(Int) /\ Len(SubSeq(message, a, n)) = n - a + 1
    BY <1>1, <1>4, <2>1
  <2>. QED
    BY <2>1, <2>2 DEF a
<1>6. front \o data = SubSeq(message, 1, n)
  BY <1>1, <1>2, <1>4, PartsJoin
<1>. HIDE DEF data, front, len
<1>7. Holds(c, h, front \o data) /\ CountsAs(c, ctx, Len(data))
  BY <1>1, <1>2, <1>5, UpdateHolds
<1>8. BitsCounted(h, c.hi, c.lo, fed + len)
  <2> DEFINE d == CountBits(ctx, len)
             lo2 == (ctx.lo + ((8 * len) % WordBase(h))) % WordBase(h)
             hi2 == IF h = "sha256" THEN 0
                    ELSE ctx.hi + (IF lo2 < (8 * len) % WordBase(h) THEN 1 ELSE 0) + (len \div TwoTo(WordBits[h] - 3))
  <2>1. c.hi = d.hi /\ c.lo = d.lo
    BY <1>5, <1>7 DEF CountsAs, SameCount
  <2>2. d.hi = hi2 /\ d.lo = lo2
    BY <1>3 DEF CountBits, Contexts
  <2>3. BitsCounted(h, hi2, lo2, fed + len)
    <3>. HIDE DEF hi2, lo2
    <3>1. lo2 = (ctx.lo + ((8 * len) % WordBase(h))) % WordBase(h)
      BY DEF lo2
    <3>2. hi2 = IF h = "sha256" THEN 0
                ELSE ctx.hi + (IF lo2 < (8 * len) % WordBase(h) THEN 1 ELSE 0) + (len \div TwoTo(WordBits[h] - 3))
      BY DEF hi2
    <3>. QED
      BY <1>1, <1>2, <1>4, <3>1, <3>2, CountStep
  <2>. HIDE DEF d, hi2, lo2
  <2>. QED
    BY <2>1, <2>2, <2>3
<1>. HIDE DEF c
<1>9. HashFed(j, n, c)
  BY <1>4, <1>6, <1>7, <1>8 DEF HashFed, h, message
<1>. QED
  BY <1>9 DEF c, data, message

LEMMA HashEnds ==
  ASSUME NEW j \in HashJobs, NEW ctx, HashFed(j, Len(j.message), ctx)
  PROVE  HashedTo(j, ShaFinal(ctx))
<1> DEFINE h == j.hash
           message == j.message
<1>1. h \in Hashes /\ message \in Seq(Int)
  BY HashJobsOk
<1>2. SubSeq(message, 1, Len(message)) = message
  BY <1>1
<1>3. Holds(ctx, h, message) /\ BitsCounted(h, ctx.hi, ctx.lo, Len(message))
  BY <1>2 DEF HashFed
<1>. HIDE DEF h, message
<1>4. BlocksAre(ShaFinal(ctx), PaddedMessage(h, message), BlockSize[h])
  BY <1>1, <1>3, FinalCutsThePaddedMessage
<1>. QED
  BY <1>4 DEF HashedTo, h, message

(***************************************************************************)
(* The bits of a number.                                                   *)
(***************************************************************************)
Bit(x, j) == (x \div TwoTo(j)) % 2

PartBit(x, r, w, j) == Bit((x \div TwoTo(r)) % TwoTo(w), j) = Bit(x, r + j)

LEMMA BitOfPart ==
  ASSUME NEW x \in Nat, NEW r \in Nat, NEW w \in Nat, NEW j \in 0..(w - 1)
  PROVE  PartBit(x, r, w, j)
<1> DEFINE k == w - 1 - j
           p == TwoTo(j)
           q == TwoTo(k)
           a == TwoTo(r)
           y == x \div a
<1>1. k \in Nat /\ j \in Nat /\ (j + 1) + k = w /\ j + 1 \in Nat
  OBVIOUS
<1>2. TwoTo(w) = (p * 2) * q
  <2>. HIDE DEF k
  <2>1. TwoTo((j + 1) + k) = TwoTo(j + 1) * TwoTo(k)
    BY <1>1, PowerAdds
  <2>2. TwoTo(j + 1) = p * 2
    <3>1. TwoTo(j + 1) = 2 * TwoTo(j) /\ TwoTo(j) \in Nat
      BY <1>1, PowerStep, PowerPositive
    <3>. QED
      BY <3>1
  <2>. QED
    BY <1>1, <2>1, <2>2
<1>3. p \in Nat \ {0} /\ q \in Nat \ {0} /\ a \in Nat \ {0}
  BY <1>1, PowerPositive
<1>4. TwoTo(r + j) = a * p
  BY <1>1, PowerAdds
<1>. HIDE DEF p, q, a
<1>5. y \in Nat
  BY <1>3, Division
<1>6. y \div p = x \div (a * p)
  BY <1>3, DividesTwice
<1>. HIDE DEF y
<1>7. SameDigit(y, p, 2, q)
  BY <1>3, <1>5, DigitKept
<1>8. ((y % TwoTo(w)) \div p) % 2 = (y \div p) % 2
  BY <1>2, <1>7 DEF SameDigit
<1>. QED
  BY <1>4, <1>6, <1>8 DEF PartBit, Bit, y, a, p

(* A number with v below and x above.                                      *)
OverBits(x, v, w) == /\ \A j \in 0..(w - 1) : Bit(x * TwoTo(w) + v, j) = Bit(v, j)
                     /\ \A j \in Nat : Bit(x * TwoTo(w) + v, w + j) = Bit(x, j)

LEMMA BitsOver ==
  ASSUME NEW x \in Nat, NEW w \in Nat, NEW v \in 0..(TwoTo(w) - 1)
  PROVE  OverBits(x, v, w) /\ x * TwoTo(w) + v \in Nat
<1> DEFINE a == TwoTo(w)
           n == x * a + v
<1>1. a \in Nat \ {0}
  BY PowerPositive
<1>2. v \in Nat /\ v < a
  BY <1>1
<1>. HIDE DEF a
<1>3. n \div a = x /\ n % a = v
  BY <1>1, <1>2, DivisionIs
<1>4. n \in Nat
  <2>1. x * a \in Nat
    BY <1>1
  <2>. QED
    BY <1>2, <2>1
<1>. HIDE DEF n
<1>5. ASSUME NEW j \in 0..(w - 1) PROVE Bit(n, j) = Bit(v, j)
  <2>1. PartBit(n, 0, w, j)
    BY <1>4, BitOfPart
  <2>2. n \div TwoTo(0) = n
    <3>1. TwoTo(0) = 1
      BY PowerStep
    <3>2. n \div 1 = n
      BY <1>4
    <3>. QED
      BY <3>1, <3>2
  <2>3. Bit(n % TwoTo(w), j) = Bit(n, 0 + j)
    BY <2>1, <2>2 DEF PartBit
  <2>. QED
    BY <1>3, <2>3 DEF a
<1>6. ASSUME NEW j \in Nat PROVE Bit(n, w + j) = Bit(x, j)
  <2>1. TwoTo(w + j) = a * TwoTo(j) /\ TwoTo(j) \in Nat \ {0}
    BY PowerAdds, PowerPositive DEF a
  <2> DEFINE b == TwoTo(j)
  <2>. HIDE DEF b
  <2>2. (n \div a) \div b = n \div (a * b)
    BY <1>1, <1>4, <2>1, DividesTwice DEF b
  <2>. QED
    BY <1>3, <2>1, <2>2 DEF Bit, b
<1>. QED
  BY <1>4, <1>5, <1>6 DEF OverBits, n, a

LEMMA BitOfHalf ==
  ASSUME NEW x \in Nat, NEW j \in Nat
  PROVE  Bit(x \div 2, j) = Bit(x, j + 1)
<1> DEFINE a == 2
           b == TwoTo(j)
<1>1. TwoTo(j + 1) = a * b /\ b \in Nat \ {0} /\ a \in Nat \ {0}
  BY PowerStep, PowerPositive
<1>. HIDE DEF a, b
<1>2. (x \div a) \div b = x \div (a * b)
  BY <1>1, DividesTwice
<1>3. ((x \div a) \div TwoTo(j)) % 2 = (x \div TwoTo(j + 1)) % 2
  BY <1>1, <1>2 DEF b
<1>. QED
  BY <1>3 DEF Bit, a

LEMMA BitsDecide ==
  ASSUME NEW w \in Nat, NEW x \in 0..(TwoTo(w) - 1), NEW y \in 0..(TwoTo(w) - 1),
         \A j \in 0..(w - 1) : Bit(x, j) = Bit(y, j)
  PROVE  x = y
<1> DEFINE S == {n \in Nat : \A s, t \in 0..(TwoTo(n) - 1) : (\A j \in 0..(n - 1) : Bit(s, j) = Bit(t, j)) => s = t}
<1>1. 0 \in S
  <2>1. TwoTo(0) = 1
    BY PowerStep
  <2>. QED
    BY <2>1
<1>2. ASSUME NEW n \in Nat, n \in S PROVE n + 1 \in S
  <2>. SUFFICES ASSUME NEW s \in 0..(TwoTo(n + 1) - 1), NEW t \in 0..(TwoTo(n + 1) - 1),
                       \A j \in 0..((n + 1) - 1) : Bit(s, j) = Bit(t, j)
                PROVE  s = t
    BY DEF S
  <2>1. TwoTo(n + 1) = 2 * TwoTo(n) /\ TwoTo(n) \in Nat \ {0}
    BY PowerStep, PowerPositive
  <2> DEFINE a == TwoTo(n)
             s2 == s \div 2
             t2 == t \div 2
  <2>2. s \in Nat /\ t \in Nat /\ s < 2 * a /\ t < 2 * a /\ a \in Nat
    BY <2>1
  <2>. HIDE DEF a
  <2>3. s2 \in 0..(a - 1) /\ t2 \in 0..(a - 1) /\ s = 2 * s2 + (s % 2) /\ t = 2 * t2 + (t % 2)
    BY <2>2
  <2>4. s % 2 = t % 2
    <3>1. Bit(s, 0) = Bit(t, 0)
      <4>1. 0 \in 0..((n + 1) - 1)
        OBVIOUS
      <4>. QED
        BY <4>1
    <3>2. TwoTo(0) = 1 /\ s \div 1 = s /\ t \div 1 = t
      BY <2>2, PowerStep
    <3>. QED
      BY <3>1, <3>2 DEF Bit
  <2>5. ASSUME NEW j \in 0..(n - 1) PROVE Bit(s2, j) = Bit(t2, j)
    <3>1. j + 1 \in 0..((n + 1) - 1) /\ j \in Nat
      OBVIOUS
    <3>2. Bit(s, j + 1) = Bit(t, j + 1)
      BY <3>1
    <3>3. Bit(s2, j) = Bit(s, j + 1) /\ Bit(t2, j) = Bit(t, j + 1)
      BY <2>2, <3>1, BitOfHalf
    <3>. QED
      BY <3>2, <3>3
  <2>. HIDE DEF s2, t2
  <2>6. s2 = t2
    <3>1. \A u, v \in 0..(TwoTo(n) - 1) : (\A j \in 0..(n - 1) : Bit(u, j) = Bit(v, j)) => u = v
      BY <1>2
    <3>. QED
      BY <2>3, <2>5, <3>1 DEF a
  <2>. QED
    BY <2>3, <2>4, <2>6
<1>. HIDE DEF S
<1>3. Nat \subseteq S
  BY <1>1, <1>2, Induction
<1>. QED
  BY <1>3 DEF S

LEMMA ZeroHasNoBits == \A j \in Nat : Bit(0, j) = 0
<1>. SUFFICES ASSUME NEW j \in Nat PROVE Bit(0, j) = 0
  OBVIOUS
<1>1. TwoTo(j) \in Nat \ {0}
  BY PowerPositive
<1>2. 0 \div TwoTo(j) = 0
  BY <1>1
<1>. QED
  BY <1>2 DEF Bit

LEMMA LowBitsAreZero ==
  ASSUME NEW x \in Nat, NEW b \in Nat
  PROVE  x % TwoTo(b) = 0 <=> \A j \in 0..(b - 1) : Bit(x, j) = 0
<1> DEFINE a == TwoTo(b)
           y == x % a
<1>1. a \in Nat \ {0}
  BY PowerPositive
<1>. HIDE DEF a
<1>2. y \in 0..(a - 1)
  BY <1>1, Division
<1>3. ASSUME NEW j \in 0..(b - 1) PROVE Bit(y, j) = Bit(x, j) /\ Bit(0, j) = 0
  <2>1. PartBit(x, 0, b, j)
    BY BitOfPart
  <2>2. x \div TwoTo(0) = x
    <3>1. TwoTo(0) = 1
      BY PowerStep
    <3>2. x \div 1 = x
      OBVIOUS
    <3>. QED
      BY <3>1, <3>2
  <2>. QED
    BY <2>1, <2>2, ZeroHasNoBits DEF PartBit, y, a
<1>. HIDE DEF y
<1>4. ASSUME \A j \in 0..(b - 1) : Bit(x, j) = 0 PROVE y = 0
  <2>1. 0 \in 0..(a - 1)
    BY <1>1
  <2>2. \A j \in 0..(b - 1) : Bit(y, j) = Bit(0, j)
    BY <1>3, <1>4
  <2>. QED
    BY <1>2, <2>1, <2>2, BitsDecide DEF a
<1>5. ASSUME y = 0 PROVE \A j \in 0..(b - 1) : Bit(x, j) = 0
  BY <1>3, <1>5
<1>. QED
  BY <1>4, <1>5 DEF y, a

BitIs(seq, w, i, q) == BitOf(seq, w, w * i + q) = Bit(seq[i + 1], w - 1 - q)

LEMMA BitOfIs ==
  ASSUME NEW seq, NEW w \in Nat \ {0}, NEW i \in Nat, NEW q \in 0..(w - 1)
  PROVE  BitIs(seq, w, i, q)
<1> DEFINE k == w * i + q
<1>1. k = i * w + q
  OBVIOUS
<1>2. q \in Int /\ 0 <= q /\ q < w
  OBVIOUS
<1>3. (i * w + q) \div w = i /\ (i * w + q) % w = q
  BY <1>2, DivisionIs
<1>4. k \div w = i /\ k % w = q
  BY <1>1, <1>3
<1>. HIDE DEF k
<1>5. BitOf(seq, w, k) = Bit(seq[i + 1], w - 1 - q)
  BY <1>4 DEF BitOf, Bit
<1>. QED
  BY <1>5 DEF BitIs, k

(***************************************************************************)
(* The number that digits of w bits write.                                 *)
(***************************************************************************)
DigitsOf(w) == 0..(TwoTo(w) - 1)

IsWritten(g, s, w, n) == g = [i \in 0..n |-> IF i = 0 THEN 0 ELSE g[i - 1] * TwoTo(w) + s[i]]

LEMMA WrittenExists ==
  ASSUME NEW s, NEW w, NEW n \in Nat
  PROVE  \E g : IsWritten(g, s, w, n)
<1> DEFINE S == {m \in Nat : \E g : IsWritten(g, s, w, m)}
<1>1. 0 \in S
  <2> DEFINE g == [i \in 0..0 |-> 0]
  <2>1. IsWritten(g, s, w, 0)
    <3>1. \A i \in 0..0 : i = 0
      OBVIOUS
    <3>. QED
      BY <3>1 DEF IsWritten
  <2>. QED
    BY <2>1
<1>2. ASSUME NEW m \in Nat, m \in S PROVE m + 1 \in S
  <2>1. PICK g : IsWritten(g, s, w, m)
    BY <1>2
  <2> DEFINE h == [i \in 0..(m + 1) |-> IF i = m + 1 THEN g[m] * TwoTo(w) + s[m + 1] ELSE g[i]]
  <2>2. \A i \in 0..m : h[i] = g[i]
    OBVIOUS
  <2>3. ASSUME NEW i \in 0..(m + 1) PROVE h[i] = IF i = 0 THEN 0 ELSE h[i - 1] * TwoTo(w) + s[i]
    <3>1. CASE i = m + 1
      <4>1. h[i - 1] = g[m] /\ i # 0 /\ i - 1 = m
        BY <2>2, <3>1
      <4>. QED
        BY <3>1, <4>1
    <3>2. CASE i # m + 1
      <4>1. i \in 0..m /\ (i # 0 => i - 1 \in 0..m)
        BY <3>2
      <4>2. g[i] = IF i = 0 THEN 0 ELSE g[i - 1] * TwoTo(w) + s[i]
        BY <2>1, <4>1 DEF IsWritten
      <4>. QED
        BY <2>2, <4>1, <4>2
    <3>. QED
      BY <3>1, <3>2
  <2>4. IsWritten(h, s, w, m + 1)
    BY <2>3 DEF IsWritten
  <2>. QED
    BY <2>4
<1>. HIDE DEF S
<1>3. Nat \subseteq S
  BY <1>1, <1>2, Induction
<1>. QED
  BY <1>3 DEF S

(* The bits of the number are those of its digits, from the first on.      *)
HasBits(x, s, w, n) == x \in Nat /\ \A k \in 0..(w * n - 1) : Bit(x, w * n - 1 - k) = BitOf(s, w, k)

LEMMA OneDigitMore ==
  ASSUME NEW s, NEW w \in Nat \ {0}, NEW n \in Nat, NEW x, HasBits(x, s, w, n), s[n + 1] \in DigitsOf(w)
  PROVE  HasBits(x * TwoTo(w) + s[n + 1], s, w, n + 1)
<1> DEFINE v == s[n + 1]
           y == x * TwoTo(w) + v
           m == w * n
           t == w * (n + 1)
<1>1. x \in Nat /\ \A k \in 0..(m - 1) : Bit(x, m - 1 - k) = BitOf(s, w, k)
  BY DEF HasBits
<1>2. m \in Nat /\ t = m + w
  OBVIOUS
<1>3. v \in 0..(TwoTo(w) - 1)
  BY DEF DigitsOf
<1>. HIDE DEF v
<1>4. OverBits(x, v, w) /\ y \in Nat
  BY <1>1, <1>3, BitsOver
<1>5. (\A j \in 0..(w - 1) : Bit(y, j) = Bit(v, j)) /\ (\A j \in Nat : Bit(y, w + j) = Bit(x, j))
  BY <1>4 DEF OverBits
<1>. HIDE DEF y, t
<1>6. ASSUME NEW k \in 0..(t - 1) PROVE Bit(y, t - 1 - k) = BitOf(s, w, k)
  <2>1. CASE k < m
    <3> DEFINE j == m - 1 - k
    <3>1. k \in 0..(m - 1) /\ j \in Nat /\ t - 1 - k = w + j
      BY <1>2, <2>1
    <3>2. Bit(x, j) = BitOf(s, w, k)
      BY <1>1, <3>1
    <3>. HIDE DEF j, m
    <3>. QED
      BY <1>5, <3>1, <3>2
  <2>2. CASE ~ (k < m)
    <3> DEFINE q == k - m
               j == w - 1 - q
    <3>1. q \in 0..(w - 1) /\ j \in 0..(w - 1) /\ t - 1 - k = j /\ k = m + q
      BY <1>2, <2>2
    <3>. HIDE DEF q
    <3>2. BitIs(s, w, n, q)
      BY <3>1, BitOfIs
    <3>3. BitOf(s, w, k) = Bit(v, j)
      BY <3>1, <3>2 DEF BitIs, v
    <3>. HIDE DEF j, m
    <3>. QED
      BY <1>5, <3>1, <3>3
  <2>. QED
    BY <2>1, <2>2
<1>. QED
  BY <1>4, <1>6 DEF HasBits, y, v, t

LEMMA WrittenHasBits ==
  ASSUME NEW s, NEW w \in Nat \ {0}, NEW n \in Nat, NEW g, IsWritten(g, s, w, n), NEW m \in 0..n,
         \A i \in 1..m : s[i] \in DigitsOf(w)
  PROVE  HasBits(g[m], s, w, m)
<1> DEFINE S == {i \in 0..m : HasBits(g[i], s, w, i)}
<1>1. 0 \in S
  <2>1. g[0] = 0 /\ w * 0 = 0
    BY DEF IsWritten
  <2>2. HasBits(g[0], s, w, 0)
    BY <2>1 DEF HasBits
  <2>. QED
    BY <2>2
<1>2. ASSUME NEW i \in 0..(m - 1), i \in S PROVE i + 1 \in S
  <2>1. i \in Nat /\ i + 1 \in 1..m /\ i + 1 \in 0..n /\ (i + 1) - 1 = i /\ i + 1 # 0
    OBVIOUS
  <2>2. g[i + 1] = g[i] * TwoTo(w) + s[i + 1]
    BY <2>1 DEF IsWritten
  <2>3. HasBits(g[i], s, w, i) /\ s[i + 1] \in DigitsOf(w)
    BY <1>2, <2>1
  <2>4. HasBits(g[i] * TwoTo(w) + s[i + 1], s, w, i + 1)
    BY <2>1, <2>3, OneDigitMore
  <2>5. HasBits(g[i + 1], s, w, i + 1)
    BY <2>2, <2>4
  <2>. QED
    BY <2>1, <2>5
<1>3. 0..m \subseteq S
  <2>. HIDE DEF S
  <2>1. m \in Nat
    OBVIOUS
  <2>. QED
    BY <1>1, <1>2, <2>1, InductionUpTo
<1>. QED
  BY <1>3

(***************************************************************************)
(* base64url: what the accumulator and the bytes hold after n symbols.     *)
(***************************************************************************)
LEMMA WidthsOk ==
  /\ SymbolBits \in Nat \ {0} /\ OctetBits \in Nat \ {0} /\ AccBits \in Nat
  /\ 3 * OctetBits = 4 * SymbolBits /\ SymbolBits < OctetBits /\ AccBits >= SymbolBits + OctetBits
BY Base64Assumption

DecoderStates == [ok : BOOLEAN, acc : Nat, bits : Nat, out : Seq(Nat)]

HasRead(st, x, s, n) ==
  /\ st \in DecoderStates
  /\ st.acc = x % TwoTo(AccBits)
  /\ st.bits = (SymbolBits * n) % OctetBits
  /\ Len(st.out) = (SymbolBits * n) \div OctetBits
  /\ \A i \in 1..Len(st.out) : st.out[i] \in DigitsOf(OctetBits)
  /\ \A k \in 0..(OctetBits * Len(st.out) - 1) : BitOf(st.out, OctetBits, k) = BitOf(s, SymbolBits, k)

SameRemainder(x, a, v, m) == ((x % m) * a + v) % m = (x * a + v) % m

LEMMA AddToRemainder ==
  ASSUME NEW x \in Nat, NEW a \in Nat, NEW v \in Nat, NEW m \in Nat \ {0}
  PROVE  SameRemainder(x, a, v, m)
<1> DEFINE q == x \div m
           r == x % m
           y == r * a + v
           p == y \div m
           t == y % m
           c == q * a + p
<1>1. q \in Nat /\ r \in Nat /\ x = q * m + r
  BY Division
<1>. HIDE DEF q, r
<1>2. r * a \in Nat
  BY <1>1
<1>3. y \in Nat
  BY <1>2
<1>4. x * a + v = (q * a) * m + y
  BY <1>1
<1>. HIDE DEF y
<1>5. p \in Nat /\ t \in Nat /\ t < m /\ y = p * m + t
  BY <1>3, Division
<1>. HIDE DEF p, t
<1>6. c \in Nat
  <2>1. q * a \in Nat
    BY <1>1
  <2>. QED
    BY <1>5, <2>1
<1>7. x * a + v = c * m + t
  BY <1>1, <1>4, <1>5
<1>. HIDE DEF c
<1>8. (c * m + t) % m = t
  BY <1>5, <1>6, DivisionIs
<1>. QED
  BY <1>7, <1>8 DEF SameRemainder, t, y, r

(* The byte that is taken out of the accumulator.                          *)
ByteFrom(acc, r) == (acc \div TwoTo(r)) % TwoTo(OctetBits)

LEMMA ByteIsThere ==
  ASSUME NEW y \in Nat, NEW r \in Nat, r + OctetBits <= AccBits
  PROVE  /\ ByteFrom(y % TwoTo(AccBits), r) = ByteFrom(y, r)
         /\ ByteFrom(y, r) \in DigitsOf(OctetBits)
<1> DEFINE p == TwoTo(r)
           b == TwoTo(OctetBits)
           k == AccBits - (r + OctetBits)
           q == TwoTo(k)
<1>1. k \in Nat /\ AccBits = (r + OctetBits) + k /\ OctetBits \in Nat /\ r + OctetBits \in Nat
  BY WidthsOk
<1>2. p \in Nat \ {0} /\ b \in Nat \ {0} /\ q \in Nat \ {0}
  BY <1>1, PowerPositive
<1>3. TwoTo(r + OctetBits) = p * b
  BY <1>1, PowerAdds
<1>4. TwoTo((r + OctetBits) + k) = TwoTo(r + OctetBits) * q
  <2>. HIDE DEF k
  <2>. QED
    BY <1>1, PowerAdds
<1>. HIDE DEF p, b, q, k
<1>5. SameDigit(y, p, b, q)
  BY <1>2, DigitKept
<1>6. TwoTo(AccBits) = (p * b) * q
  BY <1>1, <1>3, <1>4
<1>7. ((y % TwoTo(AccBits)) \div p) % b = (y \div p) % b
  BY <1>5, <1>6 DEF SameDigit
<1>8. (y \div p) % b \in 0..(b - 1)
  <2>1. y \div p \in Nat
    BY <1>2, Division
  <2> DEFINE d == y \div p
  <2>. HIDE DEF d
  <2>2. d % b \in Nat /\ d % b < b
    BY <1>2, <2>1, Division DEF d
  <2>3. d % b \in 0..(b - 1)
    BY <1>2, <2>2
  <2>. QED
    BY <2>3 DEF d
<1>. QED
  BY <1>7, <1>8 DEF ByteFrom, DigitsOf, p, b

(* The bits of the bytes go on with those of the symbols.                  *)
LEMMA BitsGoOn ==
  ASSUME NEW out \in Seq(Nat), NEW s, NEW n \in Nat, NEW y, HasBits(y, s, SymbolBits, n + 1), NEW r \in Nat,
         SymbolBits * (n + 1) = OctetBits * (Len(out) + 1) + r, r + OctetBits <= AccBits,
         \A k \in 0..(OctetBits * Len(out) - 1) : BitOf(out, OctetBits, k) = BitOf(s, SymbolBits, k)
  PROVE  \A k \in 0..(OctetBits * (Len(out) + 1) - 1) :
             BitOf(Append(out, ByteFrom(y, r)), OctetBits, k) = BitOf(s, SymbolBits, k)
<1> DEFINE w == OctetBits
           l == Len(out)
           byte == ByteFrom(y, r)
           new == Append(out, byte)
           m == w * l
           t == SymbolBits * (n + 1)
<1>1. w \in Nat \ {0} /\ l \in Nat /\ y \in Nat
  BY WidthsOk DEF HasBits
<1>2. m \in Nat /\ w * (l + 1) = m + w
  BY <1>1
<1>3. t = m + w + r
  BY <1>1, <1>2
<1>4. \A k \in 0..(t - 1) : Bit(y, t - 1 - k) = BitOf(s, SymbolBits, k)
  BY DEF HasBits
<1>5. new[l + 1] = byte /\ \A i \in 1..l : new[i] = out[i]
  <2>0. byte \in Nat
    BY <1>1, ByteIsThere DEF DigitsOf
  <2>. HIDE DEF byte
  <2>. QED
    BY <1>1, <2>0
<1>6. \A k \in 0..(m - 1) : BitOf(out, w, k) = BitOf(s, SymbolBits, k)
  OBVIOUS
<1>. HIDE DEF new, t, w
<1>7. ASSUME NEW k \in 0..(m + w - 1) PROVE BitOf(new, w, k) = BitOf(s, SymbolBits, k)
  <2>1. CASE k < m
    <3> DEFINE i == k \div w
    <3>1. i + 1 \in 1..l
      <4>1. k \in Nat
        BY <1>2
      <4>2. i \in Nat /\ i * w <= k
        <5>1. k = i * w + (k % w) /\ i \in Nat /\ k % w \in Nat
          BY <1>1, <4>1, Division
        <5> DEFINE iw == i * w
                   kw == k % w
        <5>2. k = iw + kw /\ kw \in Nat /\ iw \in Int
          BY <1>1, <5>1
        <5>. HIDE DEF iw, kw
        <5>3. iw <= k
          BY <5>2
        <5>. QED
          BY <5>1, <5>3 DEF iw
      <4>. HIDE DEF i
      <4>3. ~ (i >= l)
        <5>1. i >= l => (i - l) * w >= 0
          BY <1>1, <4>2
        <5>2. (i - l) * w = i * w - m
          BY <1>1, <4>2
        <5> DEFINE iw == i * w
        <5>3. iw \in Int /\ iw <= k
          BY <1>1, <4>2
        <5>. HIDE DEF iw, m
        <5>4. ~ (iw - m >= 0)
          BY <1>2, <2>1, <4>1, <5>3
        <5>. QED
          BY <5>1, <5>2, <5>4 DEF iw
      <4>. QED
        BY <1>1, <4>2, <4>3
    <3>. HIDE DEF i
    <3>2. new[i + 1] = out[i + 1]
      BY <1>5, <3>1
    <3>3. BitOf(new, w, k) = BitOf(out, w, k)
      BY <3>2 DEF BitOf, i
    <3>. QED
      BY <1>2, <1>6, <2>1, <3>3
  <2>2. CASE ~ (k < m)
    <3> DEFINE q == k - m
               j == w - 1 - q
    <3>1. q \in 0..(w - 1) /\ j \in 0..(w - 1) /\ k = m + q /\ t - 1 - k = r + j /\ k \in 0..(t - 1)
      BY <1>1, <1>2, <1>3, <2>2
    <3>. HIDE DEF q
    <3>2. BitIs(new, w, l, q)
      BY <1>1, <3>1, BitOfIs
    <3>3. BitOf(new, w, k) = Bit(byte, j)
      BY <1>5, <3>1, <3>2 DEF BitIs, m
    <3>. HIDE DEF j, m
    <3>4. PartBit(y, r, w, j)
      BY <1>1, <3>1, BitOfPart
    <3>5. Bit(byte, j) = Bit(y, r + j)
      BY <3>4 DEF PartBit, ByteFrom, w
    <3>6. Bit(y, t - 1 - k) = BitOf(s, SymbolBits, k)
      BY <1>4, <3>1
    <3>. QED
      BY <3>1, <3>3, <3>5, <3>6
  <2>. QED
    BY <2>1, <2>2
<1>8. \A k \in 0..(w * (l + 1) - 1) : BitOf(new, w, k) = BitOf(s, SymbolBits, k)
  <2> DEFINE u == w * (l + 1)
  <2>1. u = m + w /\ m \in Nat /\ w \in Nat
    BY <1>1, <1>2
  <2>. HIDE DEF m, u
  <2>2. ASSUME NEW k \in 0..(u - 1) PROVE BitOf(new, w, k) = BitOf(s, SymbolBits, k)
    <3>1. k \in 0..(m + w - 1)
      BY <2>1
    <3>. QED
      BY <1>7, <3>1, Zenon
  <2>. QED
    BY <2>2 DEF u
<1>. QED
  BY <1>8 DEF new, w

TookOn(st, y, s, n, cap) == HasRead(st, y, s, n) /\ (st.ok <=> Len(st.out) <= cap)

LEMMA TakesOn ==
  ASSUME NEW s, NEW n \in Nat, NEW cap \in Nat, NEW x, NEW st, HasRead(st, x, s, n), st.ok, Len(st.out) <= cap,
         HasBits(x, s, SymbolBits, n), s[n + 1] \in DigitsOf(SymbolBits)
  PROVE  TookOn(Take(st, s[n + 1], cap), x * TwoTo(SymbolBits) + s[n + 1], s, n + 1, cap)
<1> DEFINE v == s[n + 1]
           a == TwoTo(SymbolBits)
           y == x * a + v
           b == st.bits
           l == Len(st.out)
           c == b + SymbolBits
           acc == (st.acc * a + v) % TwoTo(AccBits)
           t == SymbolBits * (n + 1)
           m == l * OctetBits
           next == Take(st, v, cap)
<1>0. SymbolBits \in Nat \ {0} /\ OctetBits \in Nat \ {0} /\ AccBits \in Nat
      /\ SymbolBits < OctetBits /\ AccBits >= SymbolBits + OctetBits
  BY WidthsOk
<1>1. /\ st \in DecoderStates /\ st.acc = x % TwoTo(AccBits) /\ b = (SymbolBits * n) % OctetBits
      /\ l = (SymbolBits * n) \div OctetBits
      /\ \A i \in 1..Len(st.out) : st.out[i] \in DigitsOf(OctetBits)
      /\ \A k \in 0..(OctetBits * Len(st.out) - 1) : BitOf(st.out, OctetBits, k) = BitOf(s, SymbolBits, k)
  BY DEF HasRead
<1>2. a \in Nat \ {0} /\ TwoTo(AccBits) \in Nat \ {0}
  BY <1>0, PowerPositive
<1>3. HasBits(y, s, SymbolBits, n + 1) /\ y \in Nat
  <2>1. HasBits(y, s, SymbolBits, n + 1)
    BY <1>0, OneDigitMore
  <2>. QED
    BY <2>1 DEF HasBits
<1>4. v \in Nat /\ v \in Values /\ x \in Nat
  BY <1>2 DEF DigitsOf, Values, HasBits
<1>. HIDE DEF a, v
<1>5. acc = y % TwoTo(AccBits)
  <2> DEFINE mod == TwoTo(AccBits)
  <2>1. mod \in Nat \ {0} /\ st.acc = x % mod
    BY <1>1, <1>2
  <2>. HIDE DEF mod
  <2>2. SameRemainder(x, a, v, mod)
    BY <1>2, <1>4, <2>1, AddToRemainder
  <2>. QED
    BY <2>1, <2>2 DEF mod, SameRemainder
<1>6. acc \in Nat
  BY <1>2, <1>3, <1>5, Division
<1>7. b \in Nat /\ b < OctetBits /\ l \in Nat /\ SymbolBits * n = m + b /\ m \in Nat
  <2> DEFINE d == SymbolBits * n
  <2>1. d \in Nat
    BY <1>0
  <2>2. b = d % OctetBits /\ l = d \div OctetBits
    BY <1>1
  <2>. HIDE DEF d, b, l
  <2>3. d = l * OctetBits + b /\ b \in Nat /\ b < OctetBits /\ l \in Nat
    BY <1>0, <2>1, <2>2, Division
  <2>. QED
    BY <1>0, <2>3 DEF d
<1>8. t = m + c
  <2>1. SymbolBits * (n + 1) = SymbolBits * n + SymbolBits
    BY <1>0
  <2> DEFINE d == SymbolBits * n
  <2>2. d = m + b /\ t = d + SymbolBits
    BY <1>7, <2>1
  <2>. HIDE DEF d, m, b, t
  <2>. QED
    BY <1>0, <1>7, <2>2
<1>11. c \in Nat /\ c < SymbolBits + OctetBits
  <2>1. b \in Nat /\ b < OctetBits
    BY <1>7
  <2>. HIDE DEF b
  <2>. QED
    BY <1>0, <2>1
<1>. HIDE DEF t, acc, y, c
<1>9. CASE c < OctetBits
  <2>1. next = [st EXCEPT !.acc = acc, !.bits = c]
    BY <1>4, <1>9 DEF Take, acc, a, c
  <2>2. next \in DecoderStates /\ next.acc = acc /\ next.bits = c /\ next.out = st.out /\ next.ok = st.ok
    BY <1>1, <1>6, <1>11, <2>1 DEF DecoderStates
  <2>. HIDE DEF next
  <2>3. t \div OctetBits = l /\ t % OctetBits = c
    <3>1. c \in Int /\ 0 <= c /\ c < OctetBits /\ l \in Int
      BY <1>7, <1>9, <1>11
    <3>. HIDE DEF l
    <3>2. (l * OctetBits + c) \div OctetBits = l /\ (l * OctetBits + c) % OctetBits = c
      BY <1>0, <3>1, DivisionIs
    <3>. QED
      BY <1>8, <3>2
  <2>4. HasRead(next, y, s, n + 1)
    BY <1>1, <1>5, <2>2, <2>3 DEF HasRead, t
  <2>5. next.ok <=> Len(next.out) <= cap
    BY <2>2
  <2>. QED
    BY <2>4, <2>5 DEF TookOn, next, y, v, a
<1>10. CASE ~ (c < OctetBits)
  <2> DEFINE r == c - OctetBits
             byte == ByteFrom(acc, r)
  <2>1. r \in Nat /\ r < OctetBits /\ r + OctetBits <= AccBits /\ r + OctetBits = c
    BY <1>0, <1>10, <1>11
  <2>2. next = [ok |-> Len(st.out) < cap, acc |-> acc, bits |-> r, out |-> Append(st.out, byte)]
    BY <1>4, <1>10 DEF Take, acc, a, c, ByteFrom
  <2>3. byte = ByteFrom(y, r) /\ byte \in DigitsOf(OctetBits)
    BY <1>3, <1>5, <2>1, ByteIsThere
  <2>4. byte \in Nat
    BY <1>0, <2>3, PowerPositive DEF DigitsOf
  <2>. HIDE DEF byte, r
  <2>5. st.out \in Seq(Nat)
    BY <1>1 DEF DecoderStates
  <2>6. Append(st.out, byte) \in Seq(Nat) /\ Len(Append(st.out, byte)) = l + 1
    BY <2>4, <2>5
  <2>7. next \in DecoderStates /\ next.acc = acc /\ next.bits = r /\ next.out = Append(st.out, byte)
        /\ (next.ok <=> Len(st.out) < cap)
    <3> DEFINE room == Len(st.out) < cap
               new  == Append(st.out, byte)
    <3>1. room \in BOOLEAN
      OBVIOUS
    <3>2. next = [ok |-> room, acc |-> acc, bits |-> r, out |-> new] /\ new \in Seq(Nat)
      BY <2>2, <2>6
    <3>. HIDE DEF room, new, next
    <3>3. next \in DecoderStates
      BY <1>6, <2>1, <3>1, <3>2 DEF DecoderStates
    <3>4. next.acc = acc /\ next.bits = r /\ next.out = new /\ next.ok = room
      BY <3>2
    <3>. QED
      BY <3>3, <3>4 DEF room, new
  <2>. HIDE DEF next
  <2>8. t = OctetBits * (l + 1) + r /\ t = (l + 1) * OctetBits + r
    <3>1. OctetBits * (l + 1) = m + OctetBits /\ (l + 1) * OctetBits = m + OctetBits
      BY <1>0, <1>7
    <3> DEFINE e == OctetBits * (l + 1)
               f == (l + 1) * OctetBits
    <3>2. e = m + OctetBits /\ f = m + OctetBits
      BY <3>1
    <3>. HIDE DEF e, f, m
    <3>3. t = e + r /\ t = f + r
      BY <1>0, <1>7, <1>8, <2>1, <3>2
    <3>. QED
      BY <3>3 DEF e, f
  <2>9. t \div OctetBits = l + 1 /\ t % OctetBits = r
    <3>1. r \in Int /\ 0 <= r /\ r < OctetBits /\ l + 1 \in Int
      BY <1>7, <2>1
    <3> DEFINE q == l + 1
    <3>2. q \in Int /\ t = q * OctetBits + r
      BY <2>8, <3>1
    <3>. HIDE DEF q
    <3>3. (q * OctetBits + r) \div OctetBits = q /\ (q * OctetBits + r) % OctetBits = r
      BY <1>0, <3>1, <3>2, DivisionIs
    <3>. QED
      BY <3>2, <3>3 DEF q
  <2>10. \A k \in 0..(OctetBits * (l + 1) - 1) : BitOf(next.out, OctetBits, k) = BitOf(s, SymbolBits, k)
    <3>1. \A k \in 0..(OctetBits * (Len(st.out) + 1) - 1) :
             BitOf(Append(st.out, ByteFrom(y, r)), OctetBits, k) = BitOf(s, SymbolBits, k)
      BY <1>1, <1>3, <2>1, <2>5, <2>8, BitsGoOn DEF t
    <3>. QED
      BY <2>3, <2>7, <3>1
  <2>11. \A i \in 1..Len(next.out) : next.out[i] \in DigitsOf(OctetBits)
    <3>. SUFFICES ASSUME NEW i \in 1..Len(next.out) PROVE next.out[i] \in DigitsOf(OctetBits)
      OBVIOUS
    <3>1. CASE i = l + 1
      BY <1>7, <2>3, <2>4, <2>5, <2>7, <3>1
    <3>2. CASE i # l + 1
      <4>1. i \in 1..l
        BY <1>7, <2>6, <2>7, <3>2
      <4>2. next.out[i] = st.out[i]
        BY <1>7, <2>4, <2>5, <2>7, <4>1
      <4>. QED
        BY <1>1, <4>1, <4>2
    <3>. QED
      BY <3>1, <3>2
  <2>12. Len(next.out) = l + 1
    BY <2>6, <2>7
  <2>13. HasRead(next, y, s, n + 1)
    BY <1>5, <2>7, <2>9, <2>10, <2>11, <2>12 DEF HasRead, t
  <2>14. next.ok <=> Len(next.out) <= cap
    BY <1>7, <2>7, <2>12
  <2>. QED
    BY <2>13, <2>14 DEF TookOn, next, y, v, a
<1>. QED
  BY <1>9, <1>10

(***************************************************************************)
(* The whole text.                                                         *)
(***************************************************************************)
FromNothing == [ok |-> TRUE, acc |-> 0, bits |-> 0, out |-> <<>>]

IsTaken(f, s, cap, n) == f = [i \in 0..n |-> IF i = 0 THEN FromNothing ELSE Take(f[i - 1], s[i], cap)]

LEMMA TakenExists ==
  ASSUME NEW s, NEW cap, NEW n \in Nat
  PROVE  \E f : IsTaken(f, s, cap, n)
<1> DEFINE S == {m \in Nat : \E f : IsTaken(f, s, cap, m)}
<1>1. 0 \in S
  <2> DEFINE f == [i \in 0..0 |-> FromNothing]
  <2>1. IsTaken(f, s, cap, 0)
    <3>1. \A i \in 0..0 : i = 0
      OBVIOUS
    <3>. QED
      BY <3>1 DEF IsTaken
  <2>. QED
    BY <2>1
<1>2. ASSUME NEW m \in Nat, m \in S PROVE m + 1 \in S
  <2>1. PICK f : IsTaken(f, s, cap, m)
    BY <1>2
  <2> DEFINE h == [i \in 0..(m + 1) |-> IF i = m + 1 THEN Take(f[m], s[m + 1], cap) ELSE f[i]]
  <2>2. \A i \in 0..m : h[i] = f[i]
    OBVIOUS
  <2>3. ASSUME NEW i \in 0..(m + 1) PROVE h[i] = IF i = 0 THEN FromNothing ELSE Take(h[i - 1], s[i], cap)
    <3>1. CASE i = m + 1
      <4>1. h[i - 1] = f[m] /\ i # 0 /\ i - 1 = m
        BY <2>2, <3>1
      <4>. QED
        BY <3>1, <4>1
    <3>2. CASE i # m + 1
      <4>1. i \in 0..m /\ (i # 0 => i - 1 \in 0..m)
        BY <3>2
      <4>2. f[i] = IF i = 0 THEN FromNothing ELSE Take(f[i - 1], s[i], cap)
        BY <2>1, <4>1 DEF IsTaken
      <4>. QED
        BY <2>2, <4>1, <4>2
    <3>. QED
      BY <3>1, <3>2
  <2>4. IsTaken(h, s, cap, m + 1)
    BY <2>3 DEF IsTaken
  <2>. QED
    BY <2>4
<1>. HIDE DEF S
<1>3. Nat \subseteq S
  BY <1>1, <1>2, Induction
<1>. QED
  BY <1>3 DEF S

WholeBytes(n) == (SymbolBits * n) \div OctetBits

(* Symbols only, and room for the bytes they make.                         *)
Fine(s, n, cap) == (\A i \in 1..n : s[i] \in DigitsOf(SymbolBits)) /\ WholeBytes(n) <= cap

LEMMA BytesGrow ==
  ASSUME NEW n \in Nat
  PROVE  WholeBytes(n) \in Nat /\ WholeBytes(n + 1) \in Nat /\ WholeBytes(n) <= WholeBytes(n + 1)
<1> DEFINE a == SymbolBits * n
           b == SymbolBits * (n + 1)
           p == WholeBytes(n)
           q == WholeBytes(n + 1)
           w == OctetBits
<1>1. w \in Nat \ {0} /\ a \in Nat /\ b \in Nat /\ a <= b
  <2>1. SymbolBits \in Nat /\ OctetBits \in Nat \ {0}
    BY WidthsOk
  <2>2. b = a + SymbolBits /\ a \in Nat
    BY <2>1
  <2>. HIDE DEF a, b
  <2>. QED
    BY <2>1, <2>2
<1>2. p = a \div w /\ q = b \div w
  BY DEF WholeBytes
<1>. HIDE DEF a, b, p, q, w
<1>3. p \in Nat /\ a = p * w + (a % w) /\ a % w \in Nat
  BY <1>1, <1>2, Division
<1>4. q \in Nat /\ b = q * w + (b % w) /\ b % w \in Nat /\ b % w < w
  BY <1>1, <1>2, Division
<1>5. ~ (p >= q + 1)
  <2>. SUFFICES ASSUME p >= q + 1 PROVE FALSE
    OBVIOUS
  <2> DEFINE pw == p * w
             qw == q * w
             s  == a % w
             t  == b % w
  <2>1. (p - q - 1) * w >= 0
    <3>1. p - q - 1 \in Nat
      BY <1>3, <1>4
    <3>. QED
      BY <1>1, <3>1
  <2>2. (p - q - 1) * w = pw - qw - w
    BY <1>1, <1>3, <1>4
  <2>3. pw \in Int /\ qw \in Int /\ pw - qw - w >= 0
    BY <1>1, <1>3, <1>4, <2>1, <2>2
  <2>4. a = pw + s /\ b = qw + t /\ s \in Nat /\ t \in Nat /\ t < w
    BY <1>3, <1>4
  <2>. HIDE DEF pw, qw, s, t
  <2>. QED
    BY <1>1, <2>3, <2>4
<1>. QED
  BY <1>3, <1>4, <1>5 DEF p, q

AfterSymbols(st, x, s, n, cap) ==
  /\ st \in DecoderStates
  /\ st.ok <=> Fine(s, n, cap)
  /\ st.ok => HasRead(st, x, s, n)

LEMMA SymbolsAreTaken ==
  ASSUME NEW s, NEW n \in Nat, NEW cap \in Nat, NEW g, IsWritten(g, s, SymbolBits, n), NEW f, IsTaken(f, s, cap, n)
  PROVE  AfterSymbols(f[n], g[n], s, n, cap)
<1> DEFINE S == {i \in 0..n : AfterSymbols(f[i], g[i], s, i, cap)}
<1>0. SymbolBits \in Nat \ {0} /\ OctetBits \in Nat \ {0} /\ AccBits \in Nat /\ TwoTo(AccBits) \in Nat \ {0}
  BY WidthsOk, PowerPositive
<1>1. 0 \in S
  <2>1. f[0] = FromNothing /\ g[0] = 0
    BY DEF IsTaken, IsWritten
  <2>2. SymbolBits * 0 = 0 /\ 0 \div OctetBits = 0 /\ 0 % OctetBits = 0 /\ 0 % TwoTo(AccBits) = 0
        /\ OctetBits * 0 = 0
    <3>1. \A a \in Nat \ {0} : 0 \div a = 0 /\ 0 % a = 0 /\ a * 0 = 0
      OBVIOUS
    <3>. QED
      BY <1>0, <3>1
  <2> DEFINE st == FromNothing
  <2>3. st.ok = TRUE /\ st.acc = 0 /\ st.bits = 0 /\ st.out = <<>> /\ st \in DecoderStates
    BY DEF FromNothing, DecoderStates
  <2>4. HasRead(st, 0, s, 0)
    <3>. HIDE DEF st
    <3>1. Len(st.out) = 0
      BY <2>3
    <3>. QED
      BY <2>2, <2>3, <3>1 DEF HasRead
  <2>5. Fine(s, 0, cap)
    BY <2>2 DEF Fine, WholeBytes
  <2>6. AfterSymbols(st, 0, s, 0, cap)
    BY <2>3, <2>4, <2>5 DEF AfterSymbols
  <2>. QED
    BY <2>1, <2>6
<1>2. ASSUME NEW i \in 0..(n - 1), i \in S PROVE i + 1 \in S
  <2> DEFINE st == f[i]
             v == s[i + 1]
             next == Take(st, v, cap)
  <2>0. i \in Nat /\ i + 1 \in 0..n /\ i + 1 # 0 /\ (i + 1) - 1 = i /\ i \in 0..n /\ i + 1 \in 1..(i + 1)
    OBVIOUS
  <2>1. f[i + 1] = next
    BY <2>0 DEF IsTaken
  <2>2. g[i + 1] = g[i] * TwoTo(SymbolBits) + v
    BY <2>0 DEF IsWritten
  <2>3. st \in DecoderStates /\ (st.ok <=> Fine(s, i, cap)) /\ (st.ok => HasRead(st, g[i], s, i))
    BY <1>2 DEF AfterSymbols
  <2>4. WholeBytes(i) <= WholeBytes(i + 1) /\ WholeBytes(i) \in Nat /\ WholeBytes(i + 1) \in Nat
    BY <2>0, BytesGrow
  <2>5. Fine(s, i + 1, cap) => Fine(s, i, cap) /\ v \in DigitsOf(SymbolBits)
    <3>1. \A j \in 1..i : j \in 1..(i + 1)
      BY <2>0
    <3>. QED
      BY <2>0, <2>4, <3>1 DEF Fine
  <2>6. CASE ~ st.ok \/ v \notin DigitsOf(SymbolBits)
    <3>1. next = [st EXCEPT !.ok = FALSE]
      BY <2>6 DEF Take, Values, DigitsOf
    <3>2. next \in DecoderStates /\ next.ok = FALSE
      BY <2>3, <3>1 DEF DecoderStates
    <3>3. ~ Fine(s, i + 1, cap)
      BY <2>3, <2>5, <2>6
    <3>. HIDE DEF next
    <3>4. AfterSymbols(next, g[i + 1], s, i + 1, cap)
      BY <3>2, <3>3 DEF AfterSymbols
    <3>. QED
      BY <2>0, <2>1, <3>4
  <2>7. CASE st.ok /\ v \in DigitsOf(SymbolBits)
    <3>1. Fine(s, i, cap) /\ HasRead(st, g[i], s, i)
      BY <2>3, <2>7
    <3>2. HasBits(g[i], s, SymbolBits, i)
      BY <1>0, <2>0, <3>1, WrittenHasBits DEF Fine
    <3>3. Len(st.out) <= cap
      BY <3>1 DEF Fine, HasRead, WholeBytes
    <3>4. TookOn(next, g[i + 1], s, i + 1, cap)
      BY <2>0, <2>2, <2>7, <3>1, <3>2, <3>3, TakesOn
    <3>. HIDE DEF next
    <3>5. HasRead(next, g[i + 1], s, i + 1) /\ (next.ok <=> Len(next.out) <= cap)
      BY <3>4 DEF TookOn
    <3>6. next \in DecoderStates /\ Len(next.out) = WholeBytes(i + 1)
      BY <3>5 DEF HasRead, WholeBytes
    <3>7. next.ok <=> Fine(s, i + 1, cap)
      <4>1. \A j \in 1..(i + 1) : s[j] \in DigitsOf(SymbolBits)
        <5>. SUFFICES ASSUME NEW j \in 1..(i + 1) PROVE s[j] \in DigitsOf(SymbolBits)
          OBVIOUS
        <5>1. j = i + 1 \/ j \in 1..i
          BY <2>0
        <5>. QED
          BY <2>7, <3>1, <5>1 DEF Fine
      <4>. QED
        BY <3>5, <3>6, <4>1 DEF Fine
    <3>8. AfterSymbols(next, g[i + 1], s, i + 1, cap)
      BY <3>5, <3>6, <3>7 DEF AfterSymbols
    <3>. QED
      BY <2>0, <2>1, <3>8
  <2>. QED
    BY <2>6, <2>7
<1>3. 0..n \subseteq S
  <2>. HIDE DEF S
  <2>. QED
    BY <1>1, <1>2, InductionUpTo
<1>. QED
  BY <1>3

(* Four symbols are three bytes; one symbol more makes no byte.            *)
LEMMA GroupsFit ==
  ASSUME NEW n \in Nat
  PROVE  /\ n % 4 # 1 <=> (SymbolBits * n) % OctetBits < SymbolBits
         /\ n % 4 # 1 => EncodedSize(WholeBytes(n)) = n
<1> DEFINE u == OctetBits - SymbolBits
           q == n \div 4
           m == n % 4
           p == 3 * q
           bits == SymbolBits * n
           w == OctetBits
<1>1. u \in Nat \ {0} /\ SymbolBits = 3 * u /\ w = 4 * u /\ w \in Nat \ {0}
  BY WidthsOk
<1>2. q \in Nat /\ m \in 0..3 /\ n = 4 * q + m
  OBVIOUS
<1>. HIDE DEF u, q, m
<1>3. bits = p * w + (3 * m) * u
  <2> DEFINE uq == u * q
             um == u * m
  <2>1. bits = 12 * uq + 3 * um
    <3>1. bits = (3 * u) * (4 * q + m)
      BY <1>1, <1>2
    <3>2. (3 * u) * (4 * q + m) = 12 * (u * q) + 3 * (u * m)
      BY <1>1, <1>2
    <3>. QED
      BY <3>1, <3>2
  <2>2. p * w = 12 * uq
    <3>1. p * w = (3 * q) * (4 * u)
      BY <1>1
    <3>2. (3 * q) * (4 * u) = 12 * (u * q)
      BY <1>1, <1>2
    <3>. QED
      BY <3>1, <3>2
  <2>3. (3 * m) * u = 3 * um
    BY <1>1, <1>2
  <2>. QED
    BY <2>1, <2>2, <2>3
<1>. HIDE DEF bits, w
<1>4. p \in Nat
  BY <1>2
<1>5. ASSUME NEW e \in Nat, NEW r \in Nat, (3 * m) * u = e * w + r, r < w
      PROVE  bits \div w = p + e /\ bits % w = r
  <2> DEFINE pw == p * w
             ew == e * w
             t == p + e
  <2>1. pw \in Nat /\ ew \in Nat /\ t \in Nat /\ t * w = pw + ew
    BY <1>1, <1>4
  <2>2. bits = pw + ew + r
    <3> DEFINE mu == (3 * m) * u
    <3>1. mu = ew + r /\ bits = pw + mu
      BY <1>3, <1>5
    <3>. HIDE DEF pw, ew, mu
    <3>. QED
      BY <2>1, <3>1
  <2>3. bits = t * w + r
    BY <2>1, <2>2
  <2>. HIDE DEF t
  <2>4. (t * w + r) \div w = t /\ (t * w + r) % w = r
    <3>1. r \in Int /\ 0 <= r /\ t \in Int
      BY <2>1
    <3>. QED
      BY <1>1, <1>5, <3>1, DivisionIs
  <2>. QED
    BY <2>3, <2>4 DEF t
<1>6. WholeBytes(n) = bits \div w
  BY DEF WholeBytes, bits, w
<1>7. EncodedSize(p) = 4 * q /\ EncodedSize(p + 1) = 4 * q + 2 /\ EncodedSize(p + 2) = 4 * q + 3
  <2>1. p \div 3 = q /\ p % 3 = 0 /\ (p + 1) \div 3 = q /\ (p + 1) % 3 = 1 /\ (p + 2) \div 3 = q /\ (p + 2) % 3 = 2
    BY <1>2
  <2>. HIDE DEF p
  <2>. QED
    BY <1>2, <1>4, <2>1 DEF EncodedSize
<1>8. CASE m = 0
  <2>1. bits \div w = p /\ bits % w = 0
    BY <1>1, <1>4, <1>5, <1>8
  <2>2. EncodedSize(WholeBytes(n)) = n
    BY <1>2, <1>4, <1>6, <1>7, <1>8, <2>1
  <2>. QED
    BY <1>1, <1>8, <2>1, <2>2 DEF bits, w, m
<1>9. CASE m = 1
  <2>1. bits \div w = p /\ bits % w = 3 * u
    BY <1>1, <1>4, <1>5, <1>9
  <2>. QED
    BY <1>1, <1>9, <2>1 DEF bits, w, m
<1>10. CASE m = 2
  <2>1. bits \div w = p + 1 /\ bits % w = 2 * u
    BY <1>1, <1>5, <1>10
  <2>2. EncodedSize(WholeBytes(n)) = n
    BY <1>2, <1>4, <1>6, <1>7, <1>10, <2>1
  <2>. QED
    BY <1>1, <1>10, <2>1, <2>2 DEF bits, w, m
<1>11. CASE m = 3
  <2>1. bits \div w = p + 2 /\ bits % w = u
    BY <1>1, <1>5, <1>11
  <2>2. EncodedSize(WholeBytes(n)) = n
    BY <1>2, <1>4, <1>6, <1>7, <1>11, <2>1
  <2>. QED
    BY <1>1, <1>11, <2>1, <2>2 DEF bits, w, m
<1>. QED
  BY <1>2, <1>8, <1>9, <1>10, <1>11

(* The padding at the end goes, and nothing else.                          *)
KeptLength(in) == Len(in) - Cardinality({i \in DOMAIN in : \A j \in i..Len(in) : in[j] = Equals})

LEMMA UnpaddedIs ==
  ASSUME NEW S, NEW in \in Seq(S)
  PROVE  KeptLength(in) \in 0..Len(in) /\ Unpadded(in) = SubSeq(in, 1, KeptLength(in))
<1> DEFINE len == Len(in)
           keep == {n \in 0..len : \A i \in (n + 1)..len : in[i] = Equals}
           ends == {i \in DOMAIN in : \A j \in i..len : in[j] = Equals}
<1>1. len \in Nat /\ DOMAIN in = 1..len
  OBVIOUS
<1>2. len \in keep /\ keep \subseteq Nat
  BY <1>1
<1>3. PICK k \in keep : \A m \in keep : k <= m
  <2>. HIDE DEF keep
  <2>. QED
    BY <1>2, LeastNumber
<1>4. (CHOOSE n \in keep : \A m \in keep : n <= m) = k
  <2>. HIDE DEF keep
  <2>1. k \in keep /\ \A m \in keep : k <= m
    BY <1>3
  <2>2. \A n \in keep : (\A m \in keep : n <= m) => n = k
    <3>. SUFFICES ASSUME NEW n \in keep, \A m \in keep : n <= m PROVE n = k
      OBVIOUS
    <3>1. n <= k /\ k <= n /\ n \in Nat /\ k \in Nat
      BY <1>2, <2>1
    <3>. QED
      BY <3>1
  <2>. QED
    BY <2>1, <2>2
<1>5. ends = (k + 1)..len
  <2>1. ASSUME NEW i \in ends PROVE i \in (k + 1)..len
    <3>1. i \in 1..len /\ i - 1 \in 0..len /\ (i - 1) + 1 = i /\ \A j \in i..len : in[j] = Equals
      BY <1>1
    <3>2. i - 1 \in keep
      BY <3>1
    <3>. HIDE DEF len
    <3>. QED
      BY <1>2, <1>3, <3>1, <3>2
  <2>2. ASSUME NEW i \in (k + 1)..len PROVE i \in ends
    <3>1. \A j \in (k + 1)..len : in[j] = Equals
      BY <1>3
    <3>2. k \in Nat /\ i \in 1..len /\ \A j \in i..len : j \in (k + 1)..len
      BY <1>1, <1>2, <1>3
    <3>. QED
      BY <1>1, <3>1, <3>2
  <2>. QED
    BY <2>1, <2>2
<1>6. k \in 0..len
  OBVIOUS
<1>7. Cardinality((k + 1)..len) = len - k
  <2>1. k + 1 \in Int /\ len \in Int
    BY <1>1, <1>6
  <2>. HIDE DEF len
  <2>2. Cardinality((k + 1)..len) = IF k + 1 > len THEN 0 ELSE len - (k + 1) + 1
    BY <2>1, FS_Interval
  <2>. QED
    BY <1>1, <1>6, <2>2
<1>8. KeptLength(in) = k
  <2>1. KeptLength(in) = len - Cardinality(ends)
    BY DEF KeptLength
  <2>. HIDE DEF ends, len
  <2>. QED
    BY <1>1, <1>5, <1>6, <1>7, <2>1
<1>9. Unpadded(in) = SubSeq(in, 1, k)
  BY <1>4 DEF Unpadded
<1>. QED
  BY <1>6, <1>8, <1>9

(* The bits that make no byte are the last ones of the text.               *)
ZeroFrom(s, n) == \A k \in (OctetBits * WholeBytes(n))..(SymbolBits * n - 1) : BitOf(s, SymbolBits, k) = 0

LEMMA BitsAndBytes ==
  ASSUME NEW n \in Nat
  PROVE  /\ SymbolBits * n \in Nat /\ WholeBytes(n) \in Nat /\ OctetBits * WholeBytes(n) \in Nat
         /\ SymbolBits * n = OctetBits * WholeBytes(n) + ((SymbolBits * n) % OctetBits)
         /\ (SymbolBits * n) % OctetBits \in Nat /\ (SymbolBits * n) % OctetBits < OctetBits
<1> DEFINE d == SymbolBits * n
           w == OctetBits
           l == d \div w
           m == l * w
<1>1. d \in Nat /\ w \in Nat \ {0}
  BY WidthsOk
<1>2. WholeBytes(n) = l
  BY DEF WholeBytes
<1>. HIDE DEF d, w
<1>3. d = m + (d % w) /\ l \in Nat /\ d % w \in Nat /\ d % w < w
  BY <1>1, Division
<1>. HIDE DEF l
<1>4. w * l = m /\ w * l \in Nat
  BY <1>1, <1>3
<1>. HIDE DEF m
<1>. QED
  BY <1>1, <1>2, <1>3, <1>4 DEF d, w

LEMMA LeftoverIsRead ==
  ASSUME NEW s, NEW n \in Nat, NEW x, HasBits(x, s, SymbolBits, n), NEW st, HasRead(st, x, s, n)
  PROVE  LeftoverIsZero(st) <=> ZeroFrom(s, n)
<1> DEFINE a == TwoTo(AccBits)
           r == st.bits
           t == SymbolBits * n
           m == OctetBits * WholeBytes(n)
           acc == st.acc
<1>1. x \in Nat /\ \A k \in 0..(t - 1) : Bit(x, t - 1 - k) = BitOf(s, SymbolBits, k)
  BY DEF HasBits
<1>2. t \in Nat /\ m \in Nat /\ r \in Nat /\ t = m + r /\ r < OctetBits
  <2>1. r = (SymbolBits * n) % OctetBits
    BY DEF HasRead
  <2>. QED
    BY <2>1, BitsAndBytes
<1>3. acc = x % a /\ a \in Nat \ {0} /\ AccBits \in Nat /\ OctetBits <= AccBits /\ OctetBits \in Nat
  <2>1. acc = x % a
    BY DEF HasRead
  <2>. QED
    BY <2>1, WidthsOk, PowerPositive
<1>4. acc \in Nat
  BY <1>1, <1>3, Division
<1>. HIDE DEF t, m, r, acc
<1>5. ASSUME NEW j \in 0..(r - 1) PROVE Bit(acc, j) = BitOf(s, SymbolBits, t - 1 - j)
  <2>1. j \in 0..(AccBits - 1)
    BY <1>2, <1>3
  <2>2. PartBit(x, 0, AccBits, j)
    BY <1>1, <1>3, <2>1, BitOfPart
  <2>3. x \div TwoTo(0) = x
    <3>1. TwoTo(0) = 1
      BY PowerStep
    <3>2. x \div 1 = x
      BY <1>1
    <3>. QED
      BY <3>1, <3>2
  <2>4. Bit(acc, j) = Bit(x, j)
    BY <1>3, <2>2, <2>3 DEF PartBit
  <2> DEFINE k == t - 1 - j
  <2>5. k \in 0..(t - 1) /\ t - 1 - k = j
    BY <1>2
  <2>. HIDE DEF k
  <2>6. Bit(x, j) = BitOf(s, SymbolBits, k)
    BY <1>1, <2>5
  <2>. QED
    BY <2>4, <2>6 DEF k
<1>6. acc % TwoTo(r) = 0 <=> \A j \in 0..(r - 1) : Bit(acc, j) = 0
  BY <1>2, <1>4, LowBitsAreZero
<1>7. (\A j \in 0..(r - 1) : Bit(acc, j) = 0) => \A k \in m..(t - 1) : BitOf(s, SymbolBits, k) = 0
  <2>. SUFFICES ASSUME \A j \in 0..(r - 1) : Bit(acc, j) = 0, NEW k \in m..(t - 1)
                PROVE  BitOf(s, SymbolBits, k) = 0
    OBVIOUS
  <2> DEFINE j == t - 1 - k
  <2>1. j \in 0..(r - 1) /\ t - 1 - j = k
    BY <1>2
  <2>. HIDE DEF j
  <2>. QED
    BY <1>5, <2>1
<1>8. (\A k \in m..(t - 1) : BitOf(s, SymbolBits, k) = 0) => \A j \in 0..(r - 1) : Bit(acc, j) = 0
  <2>. SUFFICES ASSUME \A k \in m..(t - 1) : BitOf(s, SymbolBits, k) = 0, NEW j \in 0..(r - 1)
                PROVE  Bit(acc, j) = 0
    OBVIOUS
  <2> DEFINE k == t - 1 - j
  <2>1. k \in m..(t - 1)
    BY <1>2
  <2>2. Bit(acc, j) = BitOf(s, SymbolBits, k)
    BY <1>5
  <2>. HIDE DEF k
  <2>. QED
    BY <2>1, <2>2
<1>. QED
  BY <1>6, <1>7, <1>8 DEF LeftoverIsZero, ZeroFrom, t, m, r, acc

(* What a text without padding decodes to.                                 *)
SameBits(bytes, s, n) ==
  /\ bytes \in Seq(Nat) /\ Len(bytes) = WholeBytes(n)
  /\ \A i \in 1..Len(bytes) : bytes[i] \in DigitsOf(OctetBits)
  /\ \A k \in 0..(OctetBits * WholeBytes(n) - 1) : BitOf(bytes, OctetBits, k) = BitOf(s, SymbolBits, k)

DecodesTo(got, s, n, cap) ==
  /\ got.ok <=> Fine(s, n, cap) /\ n % 4 # 1 /\ ZeroFrom(s, n)
  /\ got.ok => SameBits(got.bytes, s, n)

LEMMA TextIsDecoded ==
  ASSUME NEW in, NEW cap \in Nat, NEW s, s = Unpadded(in), NEW n \in Nat, Len(s) = n
  PROVE  DecodesTo(B64Decode(in, cap), s, n, cap)
<1> DEFINE run[i \in 0..n] == IF i = 0 THEN [ok |-> TRUE, acc |-> 0, bits |-> 0, out |-> <<>>]
                              ELSE Take(run[i - 1], s[i], cap)
           end == run[n]
           got == B64Decode(in, cap)
<1>1. got = IF n % 4 # 1 /\ end.ok /\ LeftoverIsZero(end) THEN Decoded(end.out) ELSE Undecodable
  BY DEF B64Decode
<1>2. IsTaken(run, s, cap, n)
  <2>1. PICK f : IsTaken(f, s, cap, n)
    BY TakenExists
  <2>2. f = [i \in 0..n |-> IF i = 0 THEN [ok |-> TRUE, acc |-> 0, bits |-> 0, out |-> <<>>]
                            ELSE Take(f[i - 1], s[i], cap)]
    BY <2>1 DEF IsTaken, FromNothing
  <2>3. run = [i \in 0..n |-> IF i = 0 THEN [ok |-> TRUE, acc |-> 0, bits |-> 0, out |-> <<>>]
                              ELSE Take(run[i - 1], s[i], cap)]
    BY <2>2
  <2>. HIDE DEF run
  <2>. QED
    BY <2>3 DEF IsTaken, FromNothing
<1>. HIDE DEF run
<1>3. PICK g : IsWritten(g, s, SymbolBits, n)
  BY WrittenExists
<1>4. AfterSymbols(end, g[n], s, n, cap)
  BY <1>2, <1>3, SymbolsAreTaken
<1>. HIDE DEF end
<1>5. end \in DecoderStates /\ (end.ok <=> Fine(s, n, cap)) /\ (end.ok => HasRead(end, g[n], s, n))
  BY <1>4 DEF AfterSymbols
<1>6. Fine(s, n, cap) => (LeftoverIsZero(end) <=> ZeroFrom(s, n))
  <2>. SUFFICES ASSUME Fine(s, n, cap) PROVE LeftoverIsZero(end) <=> ZeroFrom(s, n)
    OBVIOUS
  <2>1. HasBits(g[n], s, SymbolBits, n)
    BY <1>3, WidthsOk, WrittenHasBits DEF Fine
  <2>. QED
    BY <1>5, <2>1, LeftoverIsRead
<1>7. got.ok <=> Fine(s, n, cap) /\ n % 4 # 1 /\ ZeroFrom(s, n)
  <2>1. got.ok <=> n % 4 # 1 /\ end.ok /\ LeftoverIsZero(end)
    <3>. HIDE DEF got
    <3>. QED
      BY <1>1 DEF Decoded, Undecodable
  <2>. QED
    BY <1>5, <1>6, <2>1
<1>8. got.ok => SameBits(got.bytes, s, n)
  <2>. SUFFICES ASSUME got.ok PROVE SameBits(got.bytes, s, n)
    OBVIOUS
  <2>. HIDE DEF got
  <2>1. got.bytes = end.out /\ end.ok
    BY <1>1 DEF Decoded, Undecodable
  <2>2. HasRead(end, g[n], s, n)
    BY <1>5, <2>1
  <2>. QED
    BY <2>1, <2>2 DEF HasRead, SameBits, WholeBytes, DecoderStates
<1>. QED
  BY <1>7, <1>8 DEF DecodesTo

(***************************************************************************)
(* Back to the text: the bits of a group of three bytes.                   *)
(***************************************************************************)
OctetAt(bytes, i) == IF i <= Len(bytes) THEN bytes[i] ELSE 0
GroupAt(bytes, g) == OctetAt(bytes, 3 * g + 1) * TwoTo(2 * OctetBits) + OctetAt(bytes, 3 * g + 2) * TwoTo(OctetBits)
                     + OctetAt(bytes, 3 * g + 3)
SymbolAt(bytes, o) ==
  (GroupAt(bytes, (o - 1) \div 4) \div TwoTo(SymbolBits * (3 - ((o - 1) % 4)))) % TwoTo(SymbolBits)

LEMMA EncodeIs == \A bytes : B64Encode(bytes) = [o \in 1..EncodedSize(Len(bytes)) |-> SymbolAt(bytes, o)]
BY DEF B64Encode, SymbolAt, GroupAt, OctetAt

OctetsOf(bytes) == [i \in Nat |-> OctetAt(bytes, i)]
AreOctets(bytes) == bytes \in Seq(Nat) /\ \A i \in 1..Len(bytes) : bytes[i] \in DigitsOf(OctetBits)

LEMMA OctetsAreDigits ==
  ASSUME NEW bytes, AreOctets(bytes), NEW i \in Nat \ {0}
  PROVE  OctetAt(bytes, i) \in DigitsOf(OctetBits) /\ OctetAt(bytes, i) \in Nat
<1>1. TwoTo(OctetBits) \in Nat \ {0} /\ Len(bytes) \in Nat
  BY WidthsOk, PowerPositive DEF AreOctets
<1>2. OctetAt(bytes, i) \in DigitsOf(OctetBits)
  <2>1. CASE i <= Len(bytes)
    BY <1>1, <2>1 DEF AreOctets, OctetAt
  <2>2. CASE ~ (i <= Len(bytes))
    BY <1>1, <2>2 DEF OctetAt, DigitsOf
  <2>. QED
    BY <2>1, <2>2
<1>. QED
  BY <1>1, <1>2 DEF DigitsOf

LEMMA GroupHasBits ==
  ASSUME NEW bytes, AreOctets(bytes), NEW g \in Nat
  PROVE  HasBits(GroupAt(bytes, g), [i \in 1..3 |-> OctetAt(bytes, 3 * g + i)], OctetBits, 3)
<1> DEFINE t == [i \in 1..3 |-> OctetAt(bytes, 3 * g + i)]
           w == OctetBits
           a == TwoTo(w)
           x1 == 0 * a + t[1]
           x2 == x1 * a + t[2]
           x3 == x2 * a + t[3]
<1>1. w \in Nat \ {0} /\ a \in Nat
  BY WidthsOk, PowerPositive
<1>2. t[1] = OctetAt(bytes, 3 * g + 1) /\ t[2] = OctetAt(bytes, 3 * g + 2) /\ t[3] = OctetAt(bytes, 3 * g + 3)
  OBVIOUS
<1>3. \A i \in 1..3 : t[i] \in DigitsOf(w) /\ t[i] \in Nat
  <2>. SUFFICES ASSUME NEW i \in 1..3 PROVE t[i] \in DigitsOf(w) /\ t[i] \in Nat
    OBVIOUS
  <2>1. 3 * g + i \in Nat \ {0}
    OBVIOUS
  <2>2. t[i] = OctetAt(bytes, 3 * g + i)
    OBVIOUS
  <2>. HIDE DEF t
  <2>. QED
    BY <2>1, <2>2, OctetsAreDigits
<1>4. TwoTo(2 * OctetBits) = a * a
  <2>1. TwoTo(w + w) = TwoTo(w) * TwoTo(w)
    BY <1>1, PowerAdds
  <2>2. 2 * OctetBits = w + w
    BY <1>1
  <2>. QED
    BY <2>1, <2>2
<1>. HIDE DEF t
<1>5. HasBits(0, t, w, 0)
  <2>1. w * 0 = 0
    BY <1>1
  <2>. HIDE DEF w
  <2>. QED
    BY <2>1 DEF HasBits
<1>6. HasBits(x1, t, w, 1)
  <2>1. t[0 + 1] \in DigitsOf(w) /\ 0 + 1 = 1
    BY <1>3
  <2>2. HasBits(0 * TwoTo(w) + t[0 + 1], t, w, 0 + 1)
    <3>. HIDE DEF w
    <3>. QED
      BY <1>1, <1>5, <2>1, OneDigitMore
  <2>. QED
    BY <2>2
<1>. HIDE DEF x1
<1>7. HasBits(x2, t, w, 2)
  <2>1. t[1 + 1] \in DigitsOf(w) /\ 1 + 1 = 2
    BY <1>3
  <2>2. HasBits(x1 * TwoTo(w) + t[1 + 1], t, w, 1 + 1)
    <3>. HIDE DEF w
    <3>. QED
      BY <1>1, <1>6, <2>1, OneDigitMore
  <2>. QED
    BY <2>2
<1>. HIDE DEF x2
<1>8. HasBits(x3, t, w, 3)
  <2>1. t[2 + 1] \in DigitsOf(w) /\ 2 + 1 = 3
    BY <1>3
  <2>2. HasBits(x2 * TwoTo(w) + t[2 + 1], t, w, 2 + 1)
    <3>. HIDE DEF w
    <3>. QED
      BY <1>1, <1>7, <2>1, OneDigitMore
  <2>. QED
    BY <2>2
<1>9. GroupAt(bytes, g) = x3
  <2> DEFINE t1 == t[1]
             t2 == t[2]
             t3 == t[3]
  <2>1. t1 \in Nat /\ t2 \in Nat /\ t3 \in Nat
    BY <1>3
  <2>2. x1 = t1
    BY <1>1, <2>1 DEF x1
  <2>3. x3 = (t1 * a + t2) * a + t3
    BY <2>2 DEF x2
  <2>4. GroupAt(bytes, g) = t1 * (a * a) + t2 * a + t3
    BY <1>2, <1>4 DEF GroupAt
  <2>. HIDE DEF t1, t2, t3, a, x3
  <2>5. (t1 * a + t2) * a + t3 = t1 * (a * a) + t2 * a + t3
    BY <1>1, <2>1
  <2>. QED
    BY <2>3, <2>4, <2>5
<1>. QED
  BY <1>8, <1>9 DEF t

LEMMA GroupBits ==
  ASSUME NEW bytes, AreOctets(bytes), NEW g \in Nat, NEW k \in 0..(3 * OctetBits - 1)
  PROVE  Bit(GroupAt(bytes, g), 3 * OctetBits - 1 - k) = BitOf(OctetsOf(bytes), OctetBits, 3 * OctetBits * g + k)
<1> DEFINE t == [i \in 1..3 |-> OctetAt(bytes, 3 * g + i)]
           z == OctetsOf(bytes)
           w == OctetBits
           i == k \div w
           q == k % w
           p == 3 * g + i
<1>1. w \in Nat \ {0}
  BY WidthsOk
<1>2. w * 3 = 3 * w
  BY <1>1
<1>3. Bit(GroupAt(bytes, g), 3 * w - 1 - k) = BitOf(t, w, k)
  <2>1. HasBits(GroupAt(bytes, g), t, w, 3)
    BY GroupHasBits
  <2>. HIDE DEF t
  <2>. QED
    BY <1>2, <2>1 DEF HasBits
<1>4. k \in Nat /\ k < 3 * w
  BY <1>1
<1>. HIDE DEF w
<1>5. i \in Nat /\ q \in Nat /\ q < w /\ k = i * w + q
  BY <1>1, <1>4, Division
<1>. HIDE DEF i, q
<1>6. i \in 0..2
  <2>. SUFFICES ASSUME i >= 3 PROVE FALSE
    BY <1>5
  <2>1. (i - 3) * w >= 0
    <3>1. i - 3 \in Nat
      BY <1>5
    <3>. QED
      BY <1>1, <3>1
  <2> DEFINE iw == i * w
  <2>2. (i - 3) * w = iw - 3 * w /\ iw \in Int
    BY <1>1, <1>5
  <2>3. k = iw + q /\ iw - 3 * w >= 0
    BY <1>5, <2>1, <2>2
  <2>. HIDE DEF iw
  <2>. QED
    BY <1>1, <1>4, <1>5, <2>2, <2>3
<1>7. t[i + 1] = OctetAt(bytes, 3 * g + (i + 1)) /\ 3 * g + (i + 1) = p + 1 /\ p \in Nat
  BY <1>6
<1>8. z[p + 1] = OctetAt(bytes, p + 1)
  BY <1>7 DEF OctetsOf
<1>9. k = w * i + q /\ 3 * w * g + k = w * p + q
  <2> DEFINE wi == w * i
             wg == w * g
  <2>1. w * p = 3 * wg + wi /\ 3 * w * g = 3 * wg /\ wi = i * w
    BY <1>1, <1>5
  <2>2. wi \in Int /\ wg \in Int /\ k = wi + q
    BY <1>1, <1>5, <2>1
  <2> DEFINE wp == w * p
             wwg == 3 * w * g
  <2>3. wp = 3 * wg + wi /\ wwg = 3 * wg
    BY <2>1
  <2>. HIDE DEF wi, wg, wp, wwg
  <2>4. wwg + k = wp + q /\ k = wi + q
    BY <1>4, <1>5, <2>2, <2>3
  <2>. QED
    BY <2>4 DEF wwg, wp, wi
<1>10. q \in 0..(w - 1)
  BY <1>1, <1>5
<1>11. BitIs(t, w, i, q) /\ BitIs(z, w, p, q)
  BY <1>1, <1>5, <1>7, <1>10, BitOfIs
<1>. HIDE DEF t, z, p
<1>12. BitOf(t, w, k) = BitOf(z, w, 3 * w * g + k)
  BY <1>7, <1>8, <1>9, <1>11 DEF BitIs
<1>. QED
  BY <1>3, <1>12 DEF w, z

LEMMA OctetsGoOn ==
  ASSUME NEW bytes, AreOctets(bytes), NEW k \in Nat
  PROVE  BitOf(OctetsOf(bytes), OctetBits, k) = IF k < OctetBits * Len(bytes) THEN BitOf(bytes, OctetBits, k) ELSE 0
<1> DEFINE z == OctetsOf(bytes)
           w == OctetBits
           i == k \div w
           q == k % w
           l == Len(bytes)
           m == w * l
<1>1. w \in Nat \ {0} /\ l \in Nat
  BY WidthsOk DEF AreOctets
<1>. HIDE DEF w, l
<1>2. i \in Nat /\ q \in Nat /\ q < w /\ k = i * w + q
  BY <1>1, Division
<1>. HIDE DEF i, q
<1>3. z[i + 1] = IF i + 1 <= l THEN bytes[i + 1] ELSE 0
  BY <1>2 DEF OctetsOf, OctetAt, l
<1>4. q \in 0..(w - 1) /\ k = w * i + q
  BY <1>1, <1>2
<1>5. BitIs(z, w, i, q) /\ BitIs(bytes, w, i, q)
  BY <1>1, <1>2, <1>4, BitOfIs
<1>. HIDE DEF z
<1>6. BitOf(z, w, k) = Bit(z[i + 1], w - 1 - q) /\ BitOf(bytes, w, k) = Bit(bytes[i + 1], w - 1 - q)
  BY <1>4, <1>5 DEF BitIs
<1> DEFINE wi == w * i
<1>7. wi \in Int /\ k = wi + q /\ m \in Int
  BY <1>1, <1>2, <1>4
<1>8. CASE i + 1 <= l
  <2>1. k < m
    <3>1. (l - i - 1) * w >= 0
      <4>1. l - i - 1 \in Nat
        BY <1>1, <1>2, <1>8
      <4>. QED
        BY <1>1, <4>1
    <3>2. (l - i - 1) * w = m - wi - w
      BY <1>1, <1>2
    <3>3. m - wi - w >= 0
      BY <3>1, <3>2
    <3>. HIDE DEF m, wi
    <3>. QED
      BY <1>1, <1>2, <1>7, <3>3
  <2>. QED
    BY <1>3, <1>6, <1>8, <2>1 DEF m, l, w, z
<1>9. CASE ~ (i + 1 <= l)
  <2>1. ~ (k < m)
    <3>1. (i - l) * w >= 0
      <4>1. i - l \in Nat
        BY <1>1, <1>2, <1>9
      <4>. QED
        BY <1>1, <4>1
    <3>2. (i - l) * w = wi - m
      BY <1>1, <1>2
    <3>3. wi - m >= 0
      BY <3>1, <3>2
    <3>. HIDE DEF m, wi
    <3>. QED
      BY <1>1, <1>2, <1>7, <3>3
  <2>2. w - 1 - q \in Nat
    BY <1>1, <1>4
  <2>3. BitOf(z, w, k) = 0
    BY <1>3, <1>6, <1>9, <2>2, ZeroHasNoBits
  <2>. QED
    BY <2>1, <2>3 DEF m, l, w, z
<1>. QED
  BY <1>8, <1>9

LEMMA SymbolIsBack ==
  ASSUME NEW s, NEW n \in Nat, \A i \in 1..n : s[i] \in DigitsOf(SymbolBits), ZeroFrom(s, n),
         NEW bytes, SameBits(bytes, s, n), NEW o \in 1..n
  PROVE  SymbolAt(bytes, o) = s[o]
<1> DEFINE w == SymbolBits
           g == (o - 1) \div 4
           m == (o - 1) % 4
           r == w * (3 - m)
           big == GroupAt(bytes, g)
           v == SymbolAt(bytes, o)
           all == OctetsOf(bytes)
<1>0. w \in Nat \ {0} /\ OctetBits \in Nat \ {0} /\ 3 * OctetBits = 4 * w
  BY WidthsOk
<1>1. g \in Nat /\ m \in 0..3 /\ o - 1 = 4 * g + m
  OBVIOUS
<1>2. v = (big \div TwoTo(r)) % TwoTo(w)
  BY DEF SymbolAt
<1>3. AreOctets(bytes) /\ Len(bytes) = WholeBytes(n)
      /\ \A k \in 0..(OctetBits * WholeBytes(n) - 1) : BitOf(bytes, OctetBits, k) = BitOf(s, SymbolBits, k)
  BY DEF SameBits, AreOctets
<1>4. big \in Nat
  BY <1>1, <1>3, GroupHasBits DEF HasBits
<1>. HIDE DEF g, m, big, all
<1>5. r \in Nat
  <2>1. 3 - m \in Nat
    BY <1>1
  <2>. QED
    BY <1>0, <2>1
<1>6. v \in 0..(TwoTo(w) - 1)
  <2> DEFINE a == TwoTo(r)
             b == TwoTo(w)
             d == big \div a
  <2>1. a \in Nat \ {0} /\ b \in Nat \ {0}
    BY <1>0, <1>5, PowerPositive
  <2>. HIDE DEF a, b
  <2>2. d \in Nat
    BY <1>4, <2>1, Division
  <2>. HIDE DEF d
  <2>3. d % b \in Nat /\ d % b < b
    BY <2>1, <2>2, Division
  <2>4. d % b \in 0..(b - 1)
    BY <2>1, <2>3
  <2>. QED
    BY <1>2, <2>4 DEF d, a, b
<1>7. s[o] \in 0..(TwoTo(w) - 1)
  BY DEF DigitsOf
<1>8. ASSUME NEW j \in 0..(w - 1) PROVE Bit(v, j) = Bit(s[o], j)
  <2> DEFINE q == w - 1 - j
             c == w * m + q
             k == w * (o - 1) + q
             p == o - 1
  <2>1. q \in 0..(w - 1) /\ w - 1 - q = j /\ p \in Nat /\ p + 1 = o
    BY <1>0
  <2>. HIDE DEF q
  <2>2. Bit(v, j) = Bit(big, r + j)
    <3>1. PartBit(big, r, w, j)
      BY <1>0, <1>4, <1>5, BitOfPart
    <3>. HIDE DEF v, r
    <3>. QED
      BY <1>2, <3>1 DEF PartBit
  <2>3. c \in 0..(3 * OctetBits - 1) /\ 3 * OctetBits - 1 - c = r + j
    <3> DEFINE wm == w * m
               big3 == 3 * OctetBits
    <3>1. wm \in Nat /\ wm <= 3 * w /\ r = 3 * w - wm
      BY <1>0, <1>1
    <3>2. big3 = 4 * w /\ c = wm + q
      BY <1>0
    <3>. HIDE DEF wm, big3, r, c
    <3>3. c \in 0..(big3 - 1) /\ big3 - 1 - c = r + j
      BY <1>0, <2>1, <3>1, <3>2
    <3>. QED
      BY <3>3 DEF big3
  <2>4. Bit(big, r + j) = BitOf(all, OctetBits, 3 * OctetBits * g + c)
    <3>. HIDE DEF c, r
    <3>1. Bit(big, 3 * OctetBits - 1 - c) = BitOf(all, OctetBits, 3 * OctetBits * g + c)
      BY <1>1, <1>3, <2>3, GroupBits DEF big, all
    <3>. QED
      BY <2>3, <3>1
  <2>5. 3 * OctetBits * g + c = k /\ k \in Nat
    <3> DEFINE wg == w * g
               wm == w * m
               wp == w * p
               b3 == 3 * OctetBits
    <3>1. b3 * g = 4 * wg
      BY <1>0, <1>1
    <3>2. wp = 4 * wg + wm
      <4>1. w * (4 * g + m) = 4 * (w * g) + w * m
        BY <1>0, <1>1
      <4>. QED
        BY <1>1, <4>1
    <3>3. wg \in Nat /\ wm \in Nat
      BY <1>0, <1>1
    <3> DEFINE bg == b3 * g
    <3>4. bg = 4 * wg /\ k = wp + q /\ c = wm + q
      BY <3>1
    <3>. HIDE DEF wg, wm, wp, bg, k, c
    <3>5. bg + c = k /\ k \in Nat
      BY <1>0, <2>1, <3>2, <3>3, <3>4
    <3>. QED
      BY <3>5 DEF bg
  <2>6. BitOf(s, w, k) = Bit(s[o], j)
    <3>1. BitIs(s, w, p, q)
      BY <1>0, <2>1, BitOfIs
    <3>. QED
      BY <2>1, <3>1 DEF BitIs
  <2>7. BitOf(all, OctetBits, k) = BitOf(s, w, k)
    <3> DEFINE t == w * n
               e == OctetBits * WholeBytes(n)
    <3>1. k < t
      <4>1. (n - o) * w >= 0
        <5>1. n - o \in Nat
          OBVIOUS
        <5>. QED
          BY <1>0, <5>1
      <4> DEFINE wo == w * (o - 1)
      <4>2. (n - o) * w = t - wo - w
        BY <1>0
      <4>3. t - wo - w >= 0 /\ wo \in Int /\ t \in Int /\ k = wo + q
        BY <1>0, <4>1, <4>2
      <4>. HIDE DEF t, wo, k
      <4>. QED
        BY <1>0, <2>1, <4>3
    <3>2. e \in Nat /\ t \in Nat
      BY BitsAndBytes
    <3>3. BitOf(all, OctetBits, k) = IF k < OctetBits * Len(bytes) THEN BitOf(bytes, OctetBits, k) ELSE 0
      <4>. HIDE DEF k
      <4>. QED
        BY <1>3, <2>5, OctetsGoOn DEF all
    <3>. HIDE DEF k
    <3>4. CASE k < e
      <4>1. k \in 0..(e - 1)
        BY <2>5, <3>2, <3>4
      <4>2. BitOf(bytes, OctetBits, k) = BitOf(s, w, k)
        BY <1>3, <4>1
      <4>. QED
        BY <1>3, <3>3, <3>4, <4>2
    <3>5. CASE ~ (k < e)
      <4>1. k \in e..(t - 1)
        BY <2>5, <3>1, <3>2, <3>5
      <4>2. BitOf(s, w, k) = 0
        BY <4>1 DEF ZeroFrom
      <4>. QED
        BY <1>3, <3>3, <3>5, <4>2
    <3>. QED
      BY <3>4, <3>5
  <2>. QED
    BY <2>2, <2>4, <2>5, <2>6, <2>7
<1>. HIDE DEF v
<1>9. v = s[o]
  BY <1>0, <1>6, <1>7, <1>8, BitsDecide
<1>. QED
  BY <1>9 DEF v

LEMMA EncodedIsTheText ==
  ASSUME NEW T, NEW s \in Seq(T), NEW n \in Nat, Len(s) = n, n % 4 # 1,
         \A i \in 1..n : s[i] \in DigitsOf(SymbolBits), ZeroFrom(s, n),
         NEW bytes, SameBits(bytes, s, n)
  PROVE  B64Encode(bytes) = s
<1>1. EncodedSize(Len(bytes)) = n
  BY GroupsFit DEF SameBits
<1>2. B64Encode(bytes) = [o \in 1..n |-> SymbolAt(bytes, o)]
  BY <1>1, EncodeIs
<1>3. \A o \in 1..n : SymbolAt(bytes, o) = s[o]
  BY SymbolIsBack
<1>4. s = [o \in 1..n |-> s[o]]
  OBVIOUS
<1>. QED
  BY <1>2, <1>3, <1>4

(* The job: what Base64IsCanonical asks.                                   *)
Base64Answer(j) ==
  LET decoded == B64Decode(j.text, j.room) IN [decoded |-> decoded, again |-> B64Encode(decoded.bytes)]

LEMMA Base64IsAnswered ==
  ASSUME NEW j \in Base64Jobs
  PROVE  LET kept  == Len(j.text) - Cardinality({i \in DOMAIN j.text :
                                          \A k \in i..Len(j.text) : j.text[k] = Equals})
             text  == SubSeq(j.text, 1, kept)
             bits  == SymbolBits * kept
             bytes == bits \div OctetBits
             got   == Base64Answer(j).decoded
         IN /\ got.ok <=> /\ \A i \in DOMAIN text : text[i] \in Values
                          /\ bits - OctetBits * bytes < SymbolBits
                          /\ bytes <= j.room
                          /\ \A k \in (OctetBits * bytes)..(bits - 1) : BitOf(text, SymbolBits, k) = 0
            /\ got.ok => /\ Len(got.bytes) = bytes
                         /\ \A k \in 0..(OctetBits * bytes - 1) :
                                BitOf(got.bytes, OctetBits, k) = BitOf(text, SymbolBits, k)
                         /\ Base64Answer(j).again = text
<1> DEFINE Symbols == Values \cup {Equals, Foreign}
           n == KeptLength(j.text)
           s == SubSeq(j.text, 1, n)
           got == B64Decode(j.text, j.room)
           bits == SymbolBits * n
           bytes == WholeBytes(n)
<1>1. j.text \in Seq(Symbols) /\ j.room \in Nat
  BY Base64JobsAssumption
<1>. HIDE DEF Symbols
<1>2. n \in 0..Len(j.text) /\ Unpadded(j.text) = s
  BY <1>1, UnpaddedIs
<1>. HIDE DEF n
<1>3. s \in Seq(Symbols) /\ Len(s) = n /\ DOMAIN s = 1..n /\ n \in Nat
  BY <1>1, <1>2
<1>. HIDE DEF s
<1>4. DecodesTo(got, s, n, j.room)
  BY <1>1, <1>2, <1>3, TextIsDecoded
<1>5. Base64Answer(j).decoded = got /\ Base64Answer(j).again = B64Encode(got.bytes)
  BY DEF Base64Answer
<1>. HIDE DEF got
<1>6. got.ok <=> Fine(s, n, j.room) /\ n % 4 # 1 /\ ZeroFrom(s, n)
  BY <1>4 DEF DecodesTo
<1>7. bits \in Nat /\ bits - OctetBits * bytes = bits % OctetBits
  <2> DEFINE e == OctetBits * bytes
             r == bits % OctetBits
  <2>1. bits = e + r /\ e \in Nat /\ r \in Nat /\ bits \in Nat
    BY <1>3, BitsAndBytes
  <2>. HIDE DEF e, r, bits
  <2>2. bits - e = r
    BY <2>1
  <2>. QED
    BY <2>1, <2>2 DEF e, r
<1>8. n % 4 # 1 <=> bits - OctetBits * bytes < SymbolBits
  BY <1>3, <1>7, GroupsFit
<1>9. got.ok <=> /\ \A i \in DOMAIN s : s[i] \in Values
                 /\ bits - OctetBits * bytes < SymbolBits
                 /\ bytes <= j.room
                 /\ \A k \in (OctetBits * bytes)..(bits - 1) : BitOf(s, SymbolBits, k) = 0
  <2>1. ZeroFrom(s, n) <=> \A k \in (OctetBits * bytes)..(bits - 1) : BitOf(s, SymbolBits, k) = 0
    BY DEF ZeroFrom
  <2>2. Fine(s, n, j.room) <=> (\A i \in DOMAIN s : s[i] \in Values) /\ bytes <= j.room
    BY <1>3 DEF Fine, DigitsOf, Values
  <2>. HIDE DEF bits, bytes
  <2>. QED
    BY <1>6, <1>8, <2>1, <2>2
<1>10. ASSUME got.ok
       PROVE  /\ Len(got.bytes) = bytes
              /\ \A k \in 0..(OctetBits * bytes - 1) : BitOf(got.bytes, OctetBits, k) = BitOf(s, SymbolBits, k)
              /\ B64Encode(got.bytes) = s
  <2>1. SameBits(got.bytes, s, n)
    BY <1>4, <1>10 DEF DecodesTo
  <2>2. B64Encode(got.bytes) = s
    BY <1>3, <1>6, <1>10, <2>1, EncodedIsTheText DEF Fine
  <2>. QED
    BY <2>1, <2>2 DEF SameBits
<1>11. bytes = bits \div OctetBits
  BY DEF WholeBytes
<1>12. n = Len(j.text) - Cardinality({i \in DOMAIN j.text : \A k \in i..Len(j.text) : j.text[k] = Equals})
  BY DEF n, KeptLength
<1>. HIDE DEF bytes
<1>. QED
  BY <1>5, <1>9, <1>10, <1>11, <1>12 DEF s

(***************************************************************************)
(* The jobs.                                                               *)
(***************************************************************************)

(* The job is never changed, and each question gets its own answer.        *)
ImportAnswer(j) ==
  LET result == Imports(j.document, j.route, j.keys, j.me, j.store)
      lic    == SpokenOf(result, j.document)
  IN [outcome |-> result.outcome, stored |-> result.stored,
      says |-> ImportSays(result, j.document, j.route, j.store, lic)]

ScanAnswer(j) == LET items == JsonItems(j.text) IN [items |-> items, parsed |-> JsonParse(items, j.room)]

JobInv ==
  /\ phase = "feeding" => Kind = "hash"
  /\ Kind = "time" => Input \in TimeJobs /\ (phase = "done" => answer = TrustedNow(Input.ask))
  /\ Kind = "keys" => Input \in KeySetJobs /\ (phase = "done" => answer = ParseJwks(Input))
  /\ Kind = "import" => Input \in ImportJobs /\ (phase = "done" => answer = ImportAnswer(Input))
  /\ Kind = "json" => Input \in TextJobs /\ (phase = "done" => answer = JsonParse(Input.text, Input.room))
  /\ Kind = "scan" => Input \in ScanJobs /\ (phase = "done" => answer = ScanAnswer(Input))
  /\ Kind = "hash" => /\ Input \in HashJobs
                      /\ phase = "feeding" => HashFed(Input, answer.fed, answer.ctx)
                      /\ phase = "done" => HashedTo(Input, answer)
  /\ Kind = "base64" => Input \in Base64Jobs /\ (phase = "done" => answer = Base64Answer(Input))
  /\ Kind = "date" => Input \in DateJobs /\ (phase = "done" => answer = ParseIso(Input))
  /\ Kind = "string" => Input \in StringJobs /\ (phase = "done" => answer = JsonString(Input.units, Input.room))
  /\ Kind = "number" => Input \in NumberJobs /\ (phase = "done" => answer = JsonInt(Input.negative, Input.digits))
  /\ Kind = "arithmetic" => Input \in ArithmeticJobs /\ (phase = "done" => answer = Calculated(Input))

LEMMA JobStep == JobInv /\ [Next]_vars => JobInv'
<1>. SUFFICES ASSUME JobInv, [Next]_vars PROVE JobInv'
  OBVIOUS
<1>1. job' = job /\ Kind' = Kind /\ Input' = Input
  BY DEF Next, vars, Calculate, CheckRsa, CheckEcdsa, CheckEddsa, StartHash, Feed, FinishHash, DecodeBase64, ReadDate,
         ReadString, ReadNumber, Tokenize, Scan, ReadKeys, ReadPayload, ImportFile, AskTime, Identify, AskSystem,
         Compose, Explain, OpenHandle, Answers, Kind, Input
<1>2. phase' = "feeding" => Kind = "hash"
  BY DEF JobInv, Next, vars, Calculate, CheckRsa, CheckEcdsa, CheckEddsa, StartHash, Feed, FinishHash, DecodeBase64, ReadDate,
         ReadString, ReadNumber, Tokenize, Scan, ReadKeys, ReadPayload, ImportFile, AskTime, Identify, AskSystem,
         Compose, Explain, OpenHandle, Answers
<1>3. Kind = "time" /\ phase' = "done" => answer' = TrustedNow(Input.ask)
  BY DEF JobInv, Next, vars, Calculate, CheckRsa, CheckEcdsa, CheckEddsa, StartHash, Feed, FinishHash, DecodeBase64, ReadDate,
         ReadString, ReadNumber, Tokenize, Scan, ReadKeys, ReadPayload, ImportFile, AskTime, Identify, AskSystem,
         Compose, Explain, OpenHandle, Answers
<1>4. Kind = "keys" /\ phase' = "done" => answer' = ParseJwks(Input)
  BY DEF JobInv, Next, vars, Calculate, CheckRsa, CheckEcdsa, CheckEddsa, StartHash, Feed, FinishHash, DecodeBase64, ReadDate,
         ReadString, ReadNumber, Tokenize, Scan, ReadKeys, ReadPayload, ImportFile, AskTime, Identify, AskSystem,
         Compose, Explain, OpenHandle, Answers
<1>5. Kind = "import" /\ phase' = "done" => answer' = ImportAnswer(Input)
  BY DEF JobInv, ImportAnswer, Next, vars, Calculate, CheckRsa, CheckEcdsa, CheckEddsa, StartHash, Feed, FinishHash,
         DecodeBase64, ReadDate, ReadString, ReadNumber, Tokenize, Scan, ReadKeys, ReadPayload, ImportFile,
         AskTime, Identify, AskSystem, Compose, Explain, OpenHandle, Answers
<1>6. Kind = "json" /\ phase' = "done" => answer' = JsonParse(Input.text, Input.room)
  BY DEF JobInv, Next, vars, Calculate, CheckRsa, CheckEcdsa, CheckEddsa, StartHash, Feed, FinishHash, DecodeBase64, ReadDate,
         ReadString, ReadNumber, Tokenize, Scan, ReadKeys, ReadPayload, ImportFile, AskTime, Identify, AskSystem,
         Compose, Explain, OpenHandle, Answers
<1>7. Kind = "scan" /\ phase' = "done" => answer' = ScanAnswer(Input)
  BY DEF JobInv, ScanAnswer, Next, vars, Calculate, CheckRsa, CheckEcdsa, CheckEddsa, StartHash, Feed, FinishHash,
         DecodeBase64, ReadDate, ReadString, ReadNumber, Tokenize, Scan, ReadKeys, ReadPayload, ImportFile,
         AskTime, Identify, AskSystem, Compose, Explain, OpenHandle, Answers
<1>8. ASSUME Kind = "hash"
      PROVE  /\ phase' = "feeding" => HashFed(Input, answer'.fed, answer'.ctx)
             /\ phase' = "done" => HashedTo(Input, answer')
  <2>1. Input \in HashJobs /\ (phase = "feeding" => HashFed(Input, answer.fed, answer.ctx))
        /\ (phase = "done" => HashedTo(Input, answer))
    BY <1>8 DEF JobInv
  <2>2. CASE StartHash
    <3>1. phase' = "feeding" /\ answer'.fed = 0 /\ answer'.ctx = ShaInit(Input.hash)
      BY <2>2 DEF StartHash
    <3>. QED
      BY <2>1, <3>1, HashStarts
  <2>3. CASE Feed
    <3>1. PICK n \in (answer.fed + 1)..Len(Input.message) :
             answer' = [fed |-> n, ctx |-> ShaUpdate(answer.ctx, SubSeq(Input.message, answer.fed + 1, n))]
      BY <2>3 DEF Feed
    <3>2. phase = "feeding" /\ phase' = "feeding"
      BY <2>3 DEF Feed
    <3>3. HashFed(Input, n, ShaUpdate(answer.ctx, SubSeq(Input.message, answer.fed + 1, n)))
      BY <2>1, <3>2, HashGoesOn
    <3>. QED
      BY <3>1, <3>2, <3>3
  <2>4. CASE FinishHash
    <3>1. phase = "feeding" /\ phase' = "done" /\ answer.fed = Len(Input.message) /\ answer' = ShaFinal(answer.ctx)
      BY <2>4 DEF FinishHash
    <3>2. HashedTo(Input, ShaFinal(answer.ctx))
      BY <2>1, <3>1, HashEnds
    <3>. QED
      BY <3>1, <3>2
  <2>5. CASE UNCHANGED vars
    BY <2>1, <2>5 DEF vars
  <2>6. CASE ~ (StartHash \/ Feed \/ FinishHash \/ UNCHANGED vars)
    BY <1>8, <2>6 DEF Next, Calculate, CheckRsa, CheckEcdsa, CheckEddsa, DecodeBase64, ReadDate,
         ReadString, ReadNumber, Tokenize, Scan, ReadKeys, ReadPayload, ImportFile, AskTime, Identify, AskSystem,
         Compose, Explain, OpenHandle, Answers
  <2>. QED
    BY <2>2, <2>3, <2>4, <2>5, <2>6
<1>9. Kind = "base64" /\ phase' = "done" => answer' = Base64Answer(Input)
  BY DEF JobInv, Base64Answer, Next, vars, Calculate, CheckRsa, CheckEcdsa, CheckEddsa, StartHash, Feed, FinishHash,
         DecodeBase64, ReadDate, ReadString, ReadNumber, Tokenize, Scan, ReadKeys, ReadPayload, ImportFile,
         AskTime, Identify, AskSystem, Compose, Explain, OpenHandle, Answers
<1>10. Kind = "date" /\ phase' = "done" => answer' = ParseIso(Input)
  BY DEF JobInv, Next, vars, Calculate, CheckRsa, CheckEcdsa, CheckEddsa, StartHash, Feed, FinishHash, DecodeBase64, ReadDate,
         ReadString, ReadNumber, Tokenize, Scan, ReadKeys, ReadPayload, ImportFile, AskTime, Identify, AskSystem,
         Compose, Explain, OpenHandle, Answers
<1>11. Kind = "string" /\ phase' = "done" => answer' = JsonString(Input.units, Input.room)
  BY DEF JobInv, Next, vars, Calculate, CheckRsa, CheckEcdsa, CheckEddsa, StartHash, Feed, FinishHash, DecodeBase64, ReadDate,
         ReadString, ReadNumber, Tokenize, Scan, ReadKeys, ReadPayload, ImportFile, AskTime, Identify, AskSystem,
         Compose, Explain, OpenHandle, Answers
<1>12. Kind = "number" /\ phase' = "done" => answer' = JsonInt(Input.negative, Input.digits)
  BY DEF JobInv, Next, vars, Calculate, CheckRsa, CheckEcdsa, CheckEddsa, StartHash, Feed, FinishHash, DecodeBase64, ReadDate,
         ReadString, ReadNumber, Tokenize, Scan, ReadKeys, ReadPayload, ImportFile, AskTime, Identify, AskSystem,
         Compose, Explain, OpenHandle, Answers
<1>13. Kind = "arithmetic" /\ phase' = "done" => answer' = Calculated(Input)
  BY DEF JobInv, Calculated, Next, vars, Calculate, CheckRsa, CheckEcdsa, CheckEddsa, StartHash, Feed, FinishHash,
         DecodeBase64, ReadDate, ReadString, ReadNumber, Tokenize, Scan, ReadKeys, ReadPayload, ImportFile,
         AskTime, Identify, AskSystem, Compose, Explain, OpenHandle, Answers
<1>. QED
  BY <1>1, <1>2, <1>3, <1>4, <1>5, <1>6, <1>7, <1>8, <1>9, <1>10, <1>11, <1>12, <1>13 DEF JobInv

LEMMA JobInvariant == Spec => []JobInv
<1>1. Init => JobInv
  BY DEF Init, JobInv, Kind, Input
<1>. QED
  BY <1>1, JobStep, PTL DEF Spec

(* timesync_posix_now and timesync_win_now tell the time, whatever the     *)
(* local clock says, as long as the hosts that answer are honest.          *)
THEOREM HonestTimeIsNear == Spec => []TrustedTimeIsNear
<1>1. JobInv => TrustedTimeIsNear
  <2>. SUFFICES ASSUME JobInv, Done("time") PROVE TrustedTimeIsNear
    BY DEF TrustedTimeIsNear
  <2>1. Input \in TimeJobs /\ answer = TrustedNow(Input.ask)
    BY DEF JobInv, Done
  <2>. QED
    BY <2>1, TrustedNowIsNear DEF TrustedTimeIsNear, Near
<1>. QED
  BY <1>1, JobInvariant, PTL

(* parse_jwks keeps the keys of every set apart, in a buffer of any size:  *)
(* what it answers are the first keys of the set, laid one behind the      *)
(* other, and it refuses exactly the sets with a bad key among them or too *)
(* many tokens or bytes.                                                   *)
THEOREM KeysStayApart == Spec => []KeysAreKeptApart
<1>1. JobInv => KeysAreKeptApart
  <2>. SUFFICES ASSUME JobInv, Done("keys") PROVE KeysAreKeptApart
    BY DEF KeysAreKeptApart
  <2> DEFINE taken == Taken(Input.set)
  <2>1. /\ Input.shape \in {"object", "array"} /\ Input.set \in Seq(Jwks)
        /\ Input.shape = "object" => Len(Input.set) = 1
        /\ answer = ParseJwks(Input)
    BY KeySetJobsAssumption DEF JobInv, Done
  <2>2. IF GoodKeys(Input) THEN answer.err = "OK" /\ answer.keys = KeysOf(taken)
        ELSE answer.err # "OK" /\ answer.keys = <<>>
    BY <2>1, KeysAreAnswered
  <2>3. taken \in Seq(Jwks) /\ DOMAIN taken = 1..Len(taken)
    BY <2>1, TakenIsPrefix
  <2>4. ASSUME GoodKeys(Input), NEW i \in DOMAIN taken
        PROVE  /\ KeysOf(taken)[i].alg = AlgOf(taken[i].kty)
               /\ [j \in DOMAIN KeysOf(taken)[i].spans |-> KeysOf(taken)[i].spans[j].len]
                     = [j \in DOMAIN Members(taken[i].kty) |-> taken[i].len[Members(taken[i].kty)[j]]]
    <3>1. /\ \A k \in 1..Len(taken) : UsableKey(taken[k])
          /\ i \in 1..Len(taken) /\ Len(taken) \in 1..Len(taken) /\ i - 1 \in 0..Len(taken)
      BY <2>3, <2>4 DEF GoodKeys
    <3> DEFINE c == SizeUpTo(taken)[i - 1]
    <3>2. c \in Nat /\ taken[i] \in Jwks /\ UsableKey(taken[i])
      BY <2>3, <3>1, SizesGrow
    <3>3. KeysOf(taken)[i] = KeyAt(taken[i], c)
      BY <3>1 DEF KeysOf
    <3>. HIDE DEF c
    <3>4. /\ DOMAIN SpansAt(taken[i], c) = DOMAIN Members(taken[i].kty)
          /\ \A j \in DOMAIN SpansAt(taken[i], c) :
                 SpansAt(taken[i], c)[j].len = taken[i].len[Members(taken[i].kty)[j]]
      BY <3>2, UsableSize
    <3>. HIDE DEF taken
    <3>. QED
      BY <3>3, <3>4 DEF KeyAt
  <2>5. GoodKeys(Input) => Len(KeysOf(taken)) = Len(taken)
    BY <2>3 DEF KeysOf
  <2>6. GoodKeys(Input) =>
           LET Where(p) == KeysOf(taken)[p[1]].spans[p[2]]
           IN /\ \A p, q \in SpansOf(KeysOf(taken)) : p # q => Bytes(Where(p)) \cap Bytes(Where(q)) = {}
              /\ \A p \in SpansOf(KeysOf(taken)) : Bytes(Where(p)) \subseteq 0..(KeyBuf - 1)
    <3>1. GoodKeys(Input) => /\ \A k \in 1..Len(taken) : UsableKey(taken[k])
                             /\ SizeUpTo(taken)[Len(taken)] <= KeyBuf
      BY <2>3 DEF GoodKeys
    <3>. HIDE DEF taken
    <3>. QED
      BY <2>3, <3>1, SpansAreApart
  <2>7. GoodKeys(Input) <=>
           /\ Input.set # <<>>
           /\ Input.shape = "array" => TokensOf(Input.set) <= SetToks
           /\ \A i \in DOMAIN taken : UsableKey(taken[i])
           /\ SizeUpTo(taken)[Len(taken)] <= KeyBuf
    BY DEF GoodKeys
  <2>. HIDE DEF taken
  <2>. QED
    BY <2>2, <2>4, <2>5, <2>6, <2>7 DEF KeysAreKeptApart, taken, Taken
<1>. QED
  BY <1>1, JobInvariant, PTL

(* hlm_license_import and the two imports of hlm_ffi.c, for every document,*)
(* every list of keys, every host and every store: what is genuine and     *)
(* handed over whole is installed, nothing else is, and a refusal leaves   *)
(* the old file.  The next offline launch accepts what was installed       *)
(* exactly if it is shorter than WorkBuf - 1.                              *)
THEOREM ImportsInstallTheGenuine == Spec => []OnlyGenuineIsInstalled
<1>1. JobInv => OnlyGenuineIsInstalled
  <2>. SUFFICES ASSUME JobInv, Done("import") PROVE OnlyGenuineIsInstalled
    BY DEF OnlyGenuineIsInstalled
  <2> DEFINE doc == Input.document
             result == Imports(doc, Input.route, Input.keys, Input.me, Input.store)
             spoken == SpokenOf(result, doc)
             lic == LicenseParse(doc.jws.content)
             read == Unread(doc, Input.route, Input.store) = "read"
  <2>1. /\ Input \in ImportJobs /\ answer.outcome = result.outcome /\ answer.stored = result.stored
        /\ answer.says = ImportSays(result, doc, Input.route, Input.store, spoken)
    BY DEF JobInv, Done, ImportAnswer
  <2>2. /\ result.outcome \in {"Installed", "SignatureInvalid", "WrongProduct", "WrongComputer", "NotALicenseFile",
                               "NoPublicKey", "WriteFailed", "E_ARG"}
        /\ result.outcome = "Installed" <=>
              /\ Genuine(doc, Input.keys, Input.me) /\ HandedOver(doc, Input.route)
              /\ Input.store.writes /\ Input.store.writable
        /\ result.outcome = "Installed" =>
              /\ result.stored.jws = doc.jws
              /\ OfflineLaunch(result.stored, Input.keys, Input.me)
                    = IF doc.length < WorkBuf - 1 THEN "OK" ELSE "E_BUFFER"
        /\ result.outcome # "Installed" => result.stored = Input.store.content
        /\ result.outcome \in {"WrongProduct", "WrongComputer"} => lic # Unreadable /\ SignedByOneOf(Input.keys, doc.jws)
        /\ ~ read => result.outcome = "NotALicenseFile" /\ Unread(doc, Input.route, Input.store) # "unchanged"
    BY <2>1, ImportIsDecided
  <2>3. answer.says = IF read THEN ImportMessage(result.outcome, spoken, IF Input.route = "document" THEN "" ELSE "license_path")
                      ELSE <<Unread(doc, Input.route, Input.store)>>
    BY <2>1 DEF ImportSays
  <2>4. SignedByOneOf(Input.keys, doc.jws) => doc.jws.signedBy \in {Input.keys[i].id : i \in DOMAIN Input.keys}
    BY DEF SignedByOneOf
  <2>5. result.outcome \in {"WrongProduct", "WrongComputer"} => spoken = lic
    BY DEF SpokenOf
  <2>. HIDE DEF result, spoken, lic, read, doc
  <2>6. IsExplained(doc)
    <3>1. ASSUME result.outcome = "WrongProduct", lic.strings[<<"Product", "Name">>] # ""
          PROVE  answer.says[2] = lic.strings[<<"Product", "Name">>]
      <4>1. \A p : ImportMessage("WrongProduct", lic, p) = <<"WrongProduct", lic.strings[<<"Product", "Name">>]>>
        BY <3>1 DEF ImportMessage, Named
      <4>2. read /\ spoken = lic
        BY <2>2, <2>5, <3>1
      <4>3. \E p : answer.says = ImportMessage("WrongProduct", lic, p)
        BY <2>3, <3>1, <4>2, Zenon
      <4>4. answer.says = <<"WrongProduct", lic.strings[<<"Product", "Name">>]>>
        BY <4>1, <4>3
      <4>. HIDE DEF lic
      <4>. QED
        BY <4>4
    <3>2. answer.outcome = "E_ARG" <=> answer.says = <<"unchanged">>
      <4>1. CASE ~ read
        BY <2>1, <2>2, <2>3, <4>1
      <4>2. CASE read
        <5>1. \A l, p : result.outcome = "E_ARG" <=> ImportMessage(result.outcome, l, p) = <<"unchanged">>
          BY <2>2 DEF ImportMessage
        <5>. QED
          BY <2>1, <2>3, <4>2, <5>1
      <4>. QED
        BY <4>1, <4>2
    <3>. QED
      BY <2>1, <2>2, <2>4, <3>1, <3>2 DEF IsExplained, lic
  <2>. QED
    BY <2>1, <2>2, <2>6 DEF OnlyGenuineIsInstalled, doc
<1>. QED
  BY <1>1, JobInvariant, PTL

(* hlm_json_parse, from the characters on, for every text and a token      *)
(* array of any size.  Its scanner finds the items of the text: a string   *)
(* from its quote to the quote that ends it whatever the escapes before    *)
(* it, a primitive up to a separator, and an error exactly where the text  *)
(* has no next item; they cover all but the blanks and none overlaps.      *)
(* Its parser makes a tree of the items when it accepts them: the brackets *)
(* match, every token hangs from the container that was innermost when it  *)
(* began, earlier tokens come first, and all are closed at the end.        *)
THEOREM TextsFormTrees == Spec => []TokensFormATree
<1>1. JobInv => TextsAreTrees
  <2>. SUFFICES ASSUME JobInv, Done("json") PROVE TextsAreTrees
    BY DEF TextsAreTrees
  <2>1. Input \in TextJobs /\ answer = JsonParse(Input.text, Input.room)
    BY DEF JobInv, Done
  <2>2. Input.text \in Seq([kind : ItemKinds, text : STRING]) /\ Input.room \in Nat
    BY <2>1, TextJobsAssumption
  <2>3. Input.text \in Seq(Items)
    <3>1. [kind : ItemKinds, text : STRING] \subseteq Items
      BY DEF Items, Texts
    <3> DEFINE Given == [kind : ItemKinds, text : STRING]
    <3>2. Given \subseteq Items /\ Input.text \in Seq(Given)
      BY <2>2, <3>1
    <3>. HIDE DEF Given
    <3>. QED
      BY <3>2
  <2>4. TreeOf(Input.text, JsonParse(Input.text, Input.room), Input.room)
    BY <2>2, <2>3, TextIsTree
  <2>. QED
    BY <2>1, <2>4 DEF TextsAreTrees
<1>2. ASSUME JobInv, Done("scan")
      PROVE  ItemsAreTheText(Input.text, answer.items) /\ TreeOf(answer.items, answer.parsed, Input.room)
  <2> DEFINE items == JsonItems(Input.text)
  <2>1. Input \in ScanJobs /\ answer = ScanAnswer(Input)
    BY <1>2 DEF JobInv, Done
  <2>2. answer.items = items /\ answer.parsed = JsonParse(items, Input.room)
    BY <2>1 DEF ScanAnswer
  <2>3. Input.text \in Seq(STRING) /\ Input.room \in Nat
    BY <2>1, ScanJobsAssumption
  <2>4. Input.text \in Seq(Chars)
    BY <2>3 DEF Chars
  <2>5. ItemsAreTheText(Input.text, items) /\ items \in Seq(ScanItems)
    BY <2>4, ScanIsRight
  <2>6. items \in Seq(Items)
    <3>. HIDE DEF items
    <3>1. ScanItems \subseteq Items
      BY DEF Items, Texts, ScanItems
    <3>. QED
      BY <2>5, <3>1
  <2>7. TreeOf(items, JsonParse(items, Input.room), Input.room)
    <3>. HIDE DEF items
    <3>. QED
      BY <2>3, <2>6, TextIsTree
  <2>. QED
    BY <2>2, <2>5, <2>7
<1>3. JobInv => TokensFormATree
  BY <1>1, <1>2 DEF TokensFormATree
<1>. QED
  BY <1>3, JobInvariant, PTL

(* hlm_sha256 and hlm_sha512, for messages of every length and blocks,     *)
(* counters and length fields of every size, fed in whatever pieces: what  *)
(* is compressed are the blocks of the padded message.  Between two pieces *)
(* the context holds what it was fed, cut into blocks and a rest smaller   *)
(* than one, and its words count the bits of it with the carry.            *)
THEOREM HashesCutThePaddedMessage == Spec => []BlocksArePaddedMessage
<1>1. JobInv => BlocksArePaddedMessage
  <2>. SUFFICES ASSUME JobInv, Done("hash") PROVE BlocksArePaddedMessage
    BY DEF BlocksArePaddedMessage
  <2>1. HashedTo(Input, answer)
    BY DEF JobInv, Done
  <2>. QED
    BY <2>1 DEF BlocksArePaddedMessage, HashedTo, BlocksAre
<1>. QED
  BY <1>1, JobInvariant, PTL

(* hlm_bignum.c, for limbs and bytes of any width, an array of any length  *)
(* and any operands that fit in it: comparison, sum, difference, remainder,*)
(* the modular operations, power and the byte string are those of          *)
(* arithmetic, no carry or borrow is lost in a double limb, the work       *)
(* buffers have the room they need, and the sum and the byte string are    *)
(* refused exactly if the number needs more.                               *)
THEOREM NumbersAreComputed == Spec => []BignumIsArithmetic
<1>1. JobInv => BignumIsArithmetic
  <2>. SUFFICES ASSUME JobInv, Done("arithmetic") PROVE BignumIsArithmetic
    BY DEF BignumIsArithmetic
  <2>1. Input \in ArithmeticJobs /\ answer = Calculated(Input)
    BY DEF JobInv, Done
  <2>2. Arithmetic(Input, answer)
    BY <2>1, ArithmeticIsRight
  <2>. QED
    BY <2>2 DEF Arithmetic, BignumIsArithmetic
<1>. QED
  BY <1>1, JobInvariant, PTL

(* hlm_b64url_decode and hlm_b64url_encode, for texts of every length,     *)
(* room of every size and symbols, bytes and an accumulator of every width *)
(* in the ratio of base64: the accumulator loses no bit it still needs, a  *)
(* text decodes exactly if its bits make whole bytes that fit and the rest *)
(* of them is zero, and only one text without padding encodes those bytes. *)
THEOREM TextsDecodeToTheirBits == Spec => []Base64IsCanonical
<1>1. JobInv => Base64IsCanonical
  <2>. SUFFICES ASSUME JobInv, Done("base64") PROVE Base64IsCanonical
    BY DEF Base64IsCanonical
  <2>1. Input \in Base64Jobs /\ answer = Base64Answer(Input)
    BY DEF JobInv, Done
  <2>. QED
    BY <2>1, Base64IsAnswered DEF Base64IsCanonical
<1>. QED
  BY <1>1, JobInvariant, PTL

(* hlm_parse_iso8601, hlm_json_string and hlm_json_int64, for dates of all *)
(* years, strings of every length in room of every size, and numbers of    *)
(* any number of digits below a largest of any size: the arithmetic of     *)
(* eras gives the days counted year by year and month by month, the bytes  *)
(* written are the UTF-8 of the code points the units say or the string is *)
(* refused, and no digit overflows before the number is refused.           *)
THEOREM ValuesReadAsWritten == Spec => []ValuesAreReadAsWritten
<1>1. JobInv => ValuesAreReadAsWritten
  <2>. SUFFICES ASSUME JobInv PROVE ValuesAreReadAsWritten
    OBVIOUS
  <2>1. ASSUME Done("date") PROVE DateIsRead
    <3>1. /\ Input \in [year : Nat, mon : Nat, day : Nat, hour : Nat, min : Nat, sec : Nat,
                        zone : [hours : Int, minutes : Int], rest : BOOLEAN]
          /\ answer = ParseIso(Input)
      BY <2>1, DateJobsAssumption DEF JobInv, Done
    <3>. QED
      BY <3>1, DateIsReadRight DEF DateIsRead
  <2>2. ASSUME Done("string") PROVE StringIsRead
    <3> DEFINE points == Utf16(Input.units)
               length == SumTo(PointLengths(points), Len(points))
    <3>1. Input \in StringJobs /\ answer = JsonString(Input.units, Input.room)
      BY <2>2 DEF JobInv, Done
    <3>2. OfString(Input.units) /\ Input.room \in Nat
      BY <3>1, StringJobsAssumption DEF OfString, Units
    <3>3. IF Paired(Input.units) /\ length < Input.room
          THEN answer.ok /\ CodePoints(answer.out) = points /\ Len(answer.out) = length
          ELSE ~ answer.ok
      BY <3>1, <3>2, StringIsDecoded
    <3>. QED
      BY <3>3 DEF StringIsRead, PointLengths
  <2>3. ASSUME Done("number") PROVE NumberIsRead
    <3> DEFINE ds == Input.digits
               terms == [i \in DOMAIN ds |-> ds[i] * Raised(10, Len(ds) - i)]
               v == SumTo(terms, Len(ds))
    <3>1. ds \in Seq(0..9) /\ Input.negative \in BOOLEAN /\ answer = JsonInt(Input.negative, ds)
      BY <2>3, NumberJobsAssumption DEF JobInv, Done
    <3>2. CASE ds = <<>>
      <4>1. answer = Bad
        BY <3>1, <3>2 DEF JsonInt
      <4>. QED
        BY <3>2, <4>1 DEF NumberIsRead
    <3>3. CASE ds # <<>>
      <4>1. answer = IF v <= IntMax THEN [ok |-> TRUE, out |-> IF Input.negative THEN -v ELSE v] ELSE Bad
        <5> DEFINE minus == Input.negative
        <5>1. /\ v = SumTo(terms, Len(ds)) /\ terms = [i \in DOMAIN ds |-> ds[i] * Raised(10, Len(ds) - i)]
              /\ ds \in Seq(0..9) /\ ds # <<>> /\ minus \in BOOLEAN /\ answer = JsonInt(minus, ds)
          BY <3>1, <3>3
        <5>. HIDE DEF v, terms, ds, minus
        <5>2. JsonInt(minus, ds) = IF v <= IntMax THEN [ok |-> TRUE, out |-> IF minus THEN -v ELSE v] ELSE Bad
          BY <5>1, NumberIsSummed
        <5>. QED
          BY <5>1, <5>2 DEF minus
      <4>. QED
        BY <3>3, <4>1 DEF NumberIsRead
    <3>. QED
      BY <3>2, <3>3
  <2>. QED
    BY <2>1, <2>2, <2>3 DEF ValuesAreReadAsWritten
<1>. QED
  BY <1>1, JobInvariant, PTL
=============================================================================
