------------------------------ MODULE JsonProofs ------------------------------
(***************************************************************************)
(* Proofs about reading JSON, for texts and token arrays of every size:    *)
(* what the scanner finds in the characters, the tree the parser makes of  *)
(* that, and the number or the bytes a token's text says.  The jobs these  *)
(* lemmas are about are AlgorithmProofs's.                                 *)
(***************************************************************************)
EXTENDS AlgorithmProperties, FiniteSetTheorems, SequenceTheorems, WellFoundedInduction, TLAPS

(***************************************************************************)
(* Induction with a set for the property, from the least number that is    *)
(* not in it; recursive functions are unfolded once they are known to      *)
(* exist.                                                                  *)
(***************************************************************************)

Before == {p \in Nat \X Nat : p[1] < p[2]}

LEMMA LeastNumber ==
  ASSUME NEW S \in SUBSET Nat, S # {}
  PROVE  \E m \in S : \A n \in S : m <= n
<1>1. IsWellFoundedOn(Before, Nat)
  BY NatLessThanWellFounded DEF OpToRel, Before
<1>2. PICK m \in S : \A n \in S : ~ (<<n, m>> \in Before)
  BY <1>1, WFMin
<1>3. ASSUME NEW n \in S PROVE m <= n
  <2>1. n \in Nat /\ m \in Nat /\ ~ (<<n, m>> \in Before)
    BY <1>2
  <2>. QED
    BY <2>1 DEF Before
<1>. QED
  BY <1>3

LEMMA Induction ==
  ASSUME NEW S, 0 \in S, \A n \in Nat : n \in S => n + 1 \in S
  PROVE  Nat \subseteq S
<1>. SUFFICES ASSUME Nat \ S # {} PROVE FALSE
  OBVIOUS
<1>1. PICK m \in Nat \ S : \A n \in Nat \ S : m <= n
  BY LeastNumber
<1>2. m - 1 \in Nat /\ m - 1 \in S
  BY <1>1
<1>. QED
  BY <1>1, <1>2

LEMMA InductionUpTo ==
  ASSUME NEW n \in Nat, NEW S, 0 \in S, \A i \in 0..(n - 1) : i \in S => i + 1 \in S
  PROVE  0..n \subseteq S
<1> DEFINE T == {i \in Nat : i <= n => i \in S}
<1>1. (\A i \in Nat : i \in T => i + 1 \in T) /\ 0 \in T
  OBVIOUS
<1>. HIDE DEF T
<1>2. Nat \subseteq T
  BY <1>1, Induction
<1>. QED
  BY <1>2 DEF T

(* Partial sums exist, so that the recursive functions that compute them   *)
(* are what their equations say.                                           *)
IsSum(g, c, f, n) == g = [i \in 0..n |-> IF i = 0 THEN c ELSE g[i - 1] + f[i]]

LEMMA SumsExist ==
  ASSUME NEW c, NEW f, NEW n \in Nat
  PROVE  \E g : IsSum(g, c, f, n)
<1> DEFINE Solves(g, m) == IsSum(g, c, f, m)
           S == {m \in Nat : \E g : Solves(g, m)}
<1>1. 0 \in S
  <2> DEFINE g == [i \in 0..0 |-> c]
  <2>1. Solves(g, 0)
    <3>1. \A i \in 0..0 : i = 0
      OBVIOUS
    <3>. QED
      BY <3>1 DEF IsSum
  <2>. QED
    BY <2>1
<1>2. ASSUME NEW m \in Nat, m \in S PROVE m + 1 \in S
  <2>1. PICK g : Solves(g, m)
    BY <1>2
  <2> DEFINE h == [i \in 0..(m + 1) |-> IF i <= m THEN g[i] ELSE g[m] + f[m + 1]]
  <2>2. Solves(h, m + 1)
    BY <2>1 DEF IsSum
  <2>. HIDE DEF h, Solves
  <2>. QED
    BY <2>2
<1>. HIDE DEF S
<1>3. n \in S
  BY <1>1, <1>2, Induction
<1>. QED
  BY <1>3 DEF S

(* Downwards from n.                                                       *)
LEMMA InductionDown ==
  ASSUME NEW a \in Nat, NEW n \in Nat, NEW S, \A p \in a..n : (\A q \in (p + 1)..n : q \in S) => p \in S
  PROVE  a..n \subseteq S
<1>. SUFFICES ASSUME NEW z \in a..n, z \notin S PROVE FALSE
  OBVIOUS
<1> DEFINE U == {i \in Nat : n - i \in a..n /\ n - i \notin S}
<1>1. n - z \in U
  <2>1. n - z \in Nat /\ n - (n - z) = z
    OBVIOUS
  <2>. QED
    BY <2>1
<1>2. PICK m \in U : \A i \in U : m <= i
  BY <1>1, LeastNumber
<1>3. m \in Nat /\ n - m \in a..n /\ n - m \notin S
  BY <1>2
<1>4. ASSUME NEW q \in (n - m + 1)..n PROVE q \in S
  <2>1. n - q \in Nat /\ n - (n - q) = q /\ q \in a..n /\ n - q < m
    BY <1>3
  <2>2. n - q \notin U
    BY <1>2, <2>1
  <2>. QED
    BY <2>1, <2>2
<1>. QED
  BY <1>3, <1>4

(* Powers, by the equations of their recursion.                            *)
IsPower(g, b, n) == g = [i \in 0..n |-> IF i = 0 THEN 1 ELSE b * g[i - 1]]

LEMMA PowersExist ==
  ASSUME NEW b, NEW n \in Nat
  PROVE  \E g : IsPower(g, b, n)
<1> DEFINE S == {m \in Nat : \E g : IsPower(g, b, m)}
<1>1. 0 \in S
  <2> DEFINE g == [i \in 0..0 |-> 1]
  <2>1. IsPower(g, b, 0)
    <3>1. \A i \in 0..0 : i = 0
      OBVIOUS
    <3>. QED
      BY <3>1 DEF IsPower
  <2>. QED
    BY <2>1
<1>2. ASSUME NEW m \in Nat, m \in S PROVE m + 1 \in S
  <2>1. PICK g : IsPower(g, b, m)
    BY <1>2
  <2> DEFINE h == [i \in 0..(m + 1) |-> IF i = m + 1 THEN b * g[m] ELSE g[i]]
  <2>2. \A i \in 0..m : h[i] = g[i]
    OBVIOUS
  <2>3. \A i \in 0..(m + 1) : h[i] = IF i = 0 THEN 1 ELSE b * h[i - 1]
    <3>. SUFFICES ASSUME NEW i \in 0..(m + 1) PROVE h[i] = IF i = 0 THEN 1 ELSE b * h[i - 1]
      OBVIOUS
    <3>1. CASE i = m + 1
      BY <2>2, <3>1
    <3>2. CASE i # m + 1
      <4>1. i \in 0..m /\ (i # 0 => i - 1 \in 0..m)
        BY <3>2
      <4>2. g[i] = IF i = 0 THEN 1 ELSE b * g[i - 1]
        BY <2>1, <4>1 DEF IsPower
      <4>. QED
        BY <2>2, <4>1, <4>2
    <3>. QED
      BY <3>1, <3>2
  <2>4. IsPower(h, b, m + 1)
    BY <2>3 DEF IsPower
  <2>. QED
    BY <2>4
<1>. HIDE DEF S
<1>3. Nat \subseteq S
  BY <1>1, <1>2, Induction
<1>. QED
  BY <1>3 DEF S

LEMMA PowerIs ==
  ASSUME NEW b, NEW n \in Nat
  PROVE  \E g : IsPower(g, b, n) /\ Raised(b, n) = g[n]
<1> DEFINE power[i \in 0..n] == IF i = 0 THEN 1 ELSE b * power[i - 1]
<1>1. Raised(b, n) = power[n]
  BY DEF Raised
<1>2. IsPower(power, b, n)
  <2>1. PICK g : g = [i \in 0..n |-> IF i = 0 THEN 1 ELSE b * g[i - 1]]
    BY PowersExist DEF IsPower
  <2>. QED
    BY <2>1 DEF IsPower
<1>. QED
  BY <1>1, <1>2

LEMMA PowersAgree ==
  ASSUME NEW b, NEW m \in Nat, NEW n \in Nat, m <= n, NEW g, NEW h, IsPower(g, b, m), IsPower(h, b, n)
  PROVE  g[m] = h[m]
<1> DEFINE S == {i \in 0..m : g[i] = h[i]}
<1>1. 0 \in S
  BY DEF IsPower
<1>2. \A i \in 0..(m - 1) : i \in S => i + 1 \in S
  <2>. SUFFICES ASSUME NEW i \in 0..(m - 1), g[i] = h[i] PROVE g[i + 1] = h[i + 1]
    OBVIOUS
  <2>1. i + 1 \in 0..m /\ i + 1 \in 0..n /\ (i + 1) - 1 = i /\ i + 1 # 0
    OBVIOUS
  <2>2. g[i + 1] = b * g[i] /\ h[i + 1] = b * h[i]
    BY <2>1 DEF IsPower
  <2>. QED
    BY <2>2
<1>. HIDE DEF S
<1>3. 0..m \subseteq S
  BY <1>1, <1>2, InductionUpTo
<1>. QED
  BY <1>3 DEF S

LEMMA RaisedStep ==
  ASSUME NEW b
  PROVE  /\ Raised(b, 0) = 1
         /\ \A n \in Nat : Raised(b, n + 1) = b * Raised(b, n)
<1>1. Raised(b, 0) = 1
  <2>1. PICK g : IsPower(g, b, 0) /\ Raised(b, 0) = g[0]
    BY PowerIs
  <2>. QED
    BY <2>1 DEF IsPower
<1>2. ASSUME NEW n \in Nat PROVE Raised(b, n + 1) = b * Raised(b, n)
  <2>1. PICK g : IsPower(g, b, n) /\ Raised(b, n) = g[n]
    BY PowerIs
  <2>2. PICK h : IsPower(h, b, n + 1) /\ Raised(b, n + 1) = h[n + 1]
    <3>1. n + 1 \in Nat
      OBVIOUS
    <3>. QED
      BY <3>1, PowerIs
  <2>3. g[n] = h[n]
    <3>1. n + 1 \in Nat /\ n <= n + 1
      OBVIOUS
    <3>. QED
      BY <2>1, <2>2, <3>1, PowersAgree
  <2>4. h[n + 1] = b * h[n]
    <3>1. n + 1 \in 0..(n + 1) /\ (n + 1) - 1 = n /\ n + 1 # 0
      OBVIOUS
    <3>. QED
      BY <2>2, <3>1 DEF IsPower
  <2>. QED
    BY <2>1, <2>2, <2>3, <2>4
<1>. QED
  BY <1>1, <1>2

LEMMA RaisedPositive ==
  ASSUME NEW b \in Nat \ {0}
  PROVE  \A n \in Nat : Raised(b, n) \in Nat \ {0}
<1> DEFINE S == {n \in Nat : Raised(b, n) \in Nat \ {0}}
<1>1. 0 \in S
  BY RaisedStep
<1>2. \A n \in Nat : n \in S => n + 1 \in S
  <2>. SUFFICES ASSUME NEW n \in Nat, Raised(b, n) \in Nat \ {0} PROVE Raised(b, n + 1) \in Nat \ {0}
    OBVIOUS
  <2>1. Raised(b, n + 1) = b * Raised(b, n)
    BY RaisedStep
  <2> DEFINE r == Raised(b, n)
  <2>2. r \in Nat \ {0}
    OBVIOUS
  <2>. HIDE DEF r
  <2>3. b * r \in Nat \ {0}
    BY <2>2
  <2>. QED
    BY <2>1, <2>3 DEF r
<1>. HIDE DEF S
<1>3. Nat \subseteq S
  BY <1>1, <1>2, Induction
<1>. QED
  BY <1>3 DEF S

(* Sums, likewise.                                                        *)
LEMMA SumIs ==
  ASSUME NEW f, NEW n \in Nat
  PROVE  \E g : IsSum(g, 0, f, n) /\ SumTo(f, n) = g[n]
<1> DEFINE sum[i \in 0..n] == IF i = 0 THEN 0 ELSE sum[i - 1] + f[i]
<1>1. SumTo(f, n) = sum[n]
  BY DEF SumTo
<1>2. IsSum(sum, 0, f, n)
  <2>0. PICK g : IsSum(g, 0, f, n)
    BY SumsExist
  <2>1. \E h : h = [i \in 0..n |-> IF i = 0 THEN 0 ELSE h[i - 1] + f[i]]
    BY <2>0 DEF IsSum
  <2>. QED
    BY <2>1 DEF IsSum
<1>. QED
  BY <1>1, <1>2

SameTerms(f, e, n) == \A i \in 1..n : f[i] = e[i]

LEMMA SumsAgree ==
  ASSUME NEW f, NEW e, NEW m \in Nat, NEW n \in Nat, m <= n, SameTerms(f, e, m),
         NEW g, NEW h, IsSum(g, 0, f, m), IsSum(h, 0, e, n)
  PROVE  g[m] = h[m]
<1> DEFINE S == {i \in 0..m : g[i] = h[i]}
<1>1. 0 \in S
  BY DEF IsSum
<1>2. \A i \in 0..(m - 1) : i \in S => i + 1 \in S
  <2>. SUFFICES ASSUME NEW i \in 0..(m - 1), g[i] = h[i] PROVE g[i + 1] = h[i + 1]
    OBVIOUS
  <2>1. i + 1 \in 0..m /\ i + 1 \in 0..n /\ (i + 1) - 1 = i /\ i + 1 # 0 /\ i + 1 \in 1..m
    OBVIOUS
  <2>2. g[i + 1] = g[i] + f[i + 1] /\ h[i + 1] = h[i] + e[i + 1]
    BY <2>1 DEF IsSum
  <2>. QED
    BY <2>1, <2>2 DEF SameTerms
<1>. HIDE DEF S
<1>3. 0..m \subseteq S
  BY <1>1, <1>2, InductionUpTo
<1>. QED
  BY <1>3 DEF S

LEMMA SumStep ==
  ASSUME NEW f
  PROVE  /\ SumTo(f, 0) = 0
         /\ \A n \in Nat : SumTo(f, n + 1) = SumTo(f, n) + f[n + 1]
<1>1. SumTo(f, 0) = 0
  <2>1. PICK g : IsSum(g, 0, f, 0) /\ SumTo(f, 0) = g[0]
    BY SumIs
  <2>. QED
    BY <2>1 DEF IsSum
<1>2. ASSUME NEW n \in Nat PROVE SumTo(f, n + 1) = SumTo(f, n) + f[n + 1]
  <2>1. PICK g : IsSum(g, 0, f, n) /\ SumTo(f, n) = g[n]
    BY SumIs
  <2>2. PICK h : IsSum(h, 0, f, n + 1) /\ SumTo(f, n + 1) = h[n + 1]
    <3>1. n + 1 \in Nat
      OBVIOUS
    <3>. QED
      BY <3>1, SumIs
  <2>3. g[n] = h[n]
    <3>1. n + 1 \in Nat /\ n <= n + 1 /\ SameTerms(f, f, n)
      BY DEF SameTerms
    <3>2. IsSum(g, 0, f, n) /\ IsSum(h, 0, f, n + 1)
      BY <2>1, <2>2
    <3>. QED
      BY <3>1, <3>2, SumsAgree
  <2>4. h[n + 1] = h[n] + f[n + 1]
    <3>1. n + 1 \in 0..(n + 1) /\ (n + 1) - 1 = n /\ n + 1 # 0
      OBVIOUS
    <3>. QED
      BY <2>2, <3>1 DEF IsSum
  <2>. QED
    BY <2>1, <2>2, <2>3, <2>4
<1>. QED
  BY <1>1, <1>2

LEMMA SameSum ==
  ASSUME NEW f, NEW e, NEW n \in Nat, SameTerms(f, e, n)
  PROVE  SumTo(f, n) = SumTo(e, n)
<1>1. PICK g : IsSum(g, 0, f, n) /\ SumTo(f, n) = g[n]
  BY SumIs
<1>2. PICK h : IsSum(h, 0, e, n) /\ SumTo(e, n) = h[n]
  BY SumIs
<1>3. g[n] = h[n]
  <2>1. n <= n /\ IsSum(g, 0, f, n) /\ IsSum(h, 0, e, n)
    BY <1>1, <1>2
  <2>. QED
    BY <2>1, SumsAgree
<1>. QED
  BY <1>1, <1>2, <1>3

LEMMA SumIsNat ==
  ASSUME NEW f, NEW n \in Nat, \A i \in 1..n : f[i] \in Nat
  PROVE  \A m \in 0..n : SumTo(f, m) \in Nat
<1> DEFINE S == {m \in 0..n : SumTo(f, m) \in Nat}
<1>1. 0 \in S
  BY SumStep
<1>2. \A i \in 0..(n - 1) : i \in S => i + 1 \in S
  <2>. SUFFICES ASSUME NEW i \in 0..(n - 1), SumTo(f, i) \in Nat PROVE SumTo(f, i + 1) \in Nat
    OBVIOUS
  <2>1. SumTo(f, i + 1) = SumTo(f, i) + f[i + 1] /\ f[i + 1] \in Nat
    BY SumStep
  <2>. QED
    BY <2>1
<1>. HIDE DEF S
<1>3. 0..n \subseteq S
  BY <1>1, <1>2, InductionUpTo
<1>. QED
  BY <1>3 DEF S

(***************************************************************************)
(* JSON texts.                                                             *)
(***************************************************************************)

(* The provers do not know that "" is a string.                            *)
Texts == STRING \cup {""} \cup (Int \X Int)
Toks == [type : ItemKinds, text : Texts, closed : BOOLEAN, size : Nat, parent : Nat]
States == [toks : Seq(Toks), parent : Nat, depth : Int, err : Int]
Items == [kind : ItemKinds, text : Texts]

(* What the parser leaves of the tokens there are already.                 *)
Kept(old, new) == \A t \in DOMAIN old : /\ t \in DOMAIN new
                                        /\ new[t].type = old[t].type /\ new[t].parent = old[t].parent

Added(p, item) == Append(p.toks, Token(item.kind, IF item.kind \in Open THEN "" ELSE item.text, p.parent))
Grown(p, item, toks) ==
  LET n == Len(p.toks) + 1
  IN /\ toks \in Seq(Toks) /\ Len(toks) = n /\ Kept(p.toks, toks)
     /\ \A t \in DOMAIN p.toks : toks[t].closed = p.toks[t].closed
     /\ toks[n].type = item.kind /\ toks[n].parent = p.parent
     /\ toks[n].closed <=> item.kind \notin Open
Moved(p, toks, parent, depth) == [p EXCEPT !.toks = toks, !.parent = parent, !.depth = depth]

LEMMA StateParts ==
  ASSUME NEW p \in States
  PROVE  /\ p.toks \in Seq(Toks) /\ Len(p.toks) \in Nat /\ DOMAIN p.toks = 1..Len(p.toks)
         /\ p.parent \in Nat /\ p.depth \in Int /\ p.err \in Int
         /\ \A t \in 1..Len(p.toks) : p.toks[t] \in Toks /\ p.toks[t].parent \in Nat /\ p.toks[t].type \in ItemKinds
<1>1. p.toks \in Seq(Toks) /\ p.parent \in Nat /\ p.depth \in Int /\ p.err \in Int
  BY DEF States
<1>2. \A t \in 1..Len(p.toks) : p.toks[t] \in Toks
  BY <1>1
<1>3. \A tok \in Toks : tok.parent \in Nat /\ tok.type \in ItemKinds
  BY DEF Toks
<1>. QED
  BY <1>1, <1>2, <1>3

LEMMA MovedParts ==
  ASSUME NEW p \in States, NEW toks \in Seq(Toks), NEW parent \in Nat, NEW depth \in Int
  PROVE  LET q == Moved(p, toks, parent, depth)
         IN /\ q \in States /\ q.toks = toks /\ q.parent = parent /\ q.depth = depth /\ q.err = p.err
  BY DEF States, Moved

LEMMA SizeCounted ==
  ASSUME NEW p, NEW toks \in Seq(Toks), p.parent \in 1..Len(toks)
  PROVE  /\ Counted(p, toks) \in Seq(Toks) /\ Len(Counted(p, toks)) = Len(toks)
         /\ \A t \in 1..Len(toks) : /\ Counted(p, toks)[t].type = toks[t].type
                                    /\ Counted(p, toks)[t].parent = toks[t].parent
                                    /\ Counted(p, toks)[t].closed = toks[t].closed
<1> DEFINE k == p.parent
           tok == [toks[k] EXCEPT !.size = @ + 1]
<1>1. toks[k] \in Toks
  OBVIOUS
<1>2. tok \in Toks /\ tok.type = toks[k].type /\ tok.parent = toks[k].parent /\ tok.closed = toks[k].closed
  <2>1. toks[k].size \in Nat /\ toks[k].size + 1 \in Nat
    BY <1>1 DEF Toks
  <2>. QED
    BY <1>1, <2>1 DEF Toks
<1>3. Counted(p, toks) = [toks EXCEPT ![k] = tok]
  BY DEF Counted
<1>. HIDE DEF tok, k
<1>. QED
  BY <1>2, <1>3 DEF k

LEMMA AddedGrows ==
  ASSUME NEW p \in States, NEW item \in Items
  PROVE  Grown(p, item, Added(p, item))
<1> DEFINE text == IF item.kind \in Open THEN "" ELSE item.text
           n == Len(p.toks) + 1
           tok == Token(item.kind, text, p.parent)
           toks == Added(p, item)
<1>1. p.toks \in Seq(Toks) /\ p.parent \in Nat /\ n \in Nat
  BY StateParts
<1>2. item.kind \in ItemKinds /\ text \in Texts
  <2>1. item.kind \in ItemKinds /\ item.text \in Texts
    BY DEF Items, Texts
  <2>2. "" \in Texts
    BY DEF Texts
  <2>. QED
    BY <2>1, <2>2
<1>3. tok \in Toks /\ tok.type = item.kind /\ tok.parent = p.parent /\ (tok.closed <=> item.kind \notin Open)
  <2>. HIDE DEF text
  <2>. QED
    BY <1>1, <1>2 DEF Token, Toks
<1>4. toks = Append(p.toks, tok)
  BY DEF Added
<1>. HIDE DEF tok, toks
<1>5. toks \in Seq(Toks) /\ Len(toks) = n /\ toks[n] = tok /\ \A t \in DOMAIN p.toks : t \in DOMAIN toks /\ toks[t] = p.toks[t]
  BY <1>1, <1>3, <1>4
<1>. QED
  BY <1>3, <1>5 DEF Grown, Kept, toks

LEMMA CountedGrows ==
  ASSUME NEW p \in States, NEW item \in Items, p.parent \in 1..Len(p.toks)
  PROVE  Grown(p, item, Counted(p, Added(p, item)))
<1> DEFINE n == Len(p.toks) + 1
           toks == Added(p, item)
           grown == Counted(p, toks)
<1>1. /\ toks \in Seq(Toks) /\ Len(toks) = n /\ Kept(p.toks, toks)
      /\ \A t \in DOMAIN p.toks : toks[t].closed = p.toks[t].closed
      /\ toks[n].type = item.kind /\ toks[n].parent = p.parent
      /\ toks[n].closed <=> item.kind \notin Open
  BY AddedGrows DEF Grown
<1>2. DOMAIN p.toks = 1..Len(p.toks) /\ Len(p.toks) \in Nat
  BY StateParts
<1>. HIDE DEF toks
<1>3. p.parent \in 1..n /\ n \in 1..n /\ \A t \in DOMAIN p.toks : t \in 1..n
  BY <1>2
<1>4. /\ grown \in Seq(Toks) /\ Len(grown) = n
      /\ \A t \in 1..n : /\ grown[t].type = toks[t].type /\ grown[t].parent = toks[t].parent
                         /\ grown[t].closed = toks[t].closed
  BY <1>1, <1>3, SizeCounted
<1>. HIDE DEF grown
<1>5. DOMAIN grown = 1..n
  BY <1>4
<1>6. Kept(p.toks, grown) /\ \A t \in DOMAIN p.toks : grown[t].closed = p.toks[t].closed
  BY <1>1, <1>3, <1>4, <1>5 DEF Kept
<1>7. grown[n].type = item.kind /\ grown[n].parent = p.parent /\ (grown[n].closed <=> item.kind \notin Open)
  BY <1>1, <1>3, <1>4
<1>8. Grown(p, item, grown)
  BY <1>4, <1>6, <1>7 DEF Grown
<1>. QED
  BY <1>8 DEF grown, toks

(* Where the parser stands after a value: with the object when it stood    *)
(* with a key.                                                             *)
Home(p) == IF TypeOfParent(p) = "string" THEN p.toks[p.parent].parent ELSE p.parent

LEMMA KeyPopped ==
  ASSUME NEW p \in States, p.parent <= Len(p.toks)
  PROVE  /\ PopKey(p) = Moved(p, p.toks, Home(p), p.depth) /\ Home(p) \in Nat
         /\ TypeOfParent(p) # "none" => p.parent \in 1..Len(p.toks)
         /\ p = Moved(p, p.toks, p.parent, p.depth)
<1>1. TypeOfParent(p) # "none" => p.parent \in 1..Len(p.toks)
  BY StateParts DEF TypeOfParent, NoTok
<1>2. Home(p) \in Nat
  BY <1>1, StateParts DEF Home
<1>3. p = Moved(p, p.toks, p.parent, p.depth)
  BY DEF States, Moved
<1>4. CASE TypeOfParent(p) = "string"
  <2>1. PopKey(p) = [p EXCEPT !.parent = Home(p)]
    BY <1>4 DEF PopKey, Home
  <2>2. [p EXCEPT !.parent = Home(p)] = Moved(p, p.toks, Home(p), p.depth)
    BY DEF States, Moved
  <2>. QED
    BY <1>1, <1>2, <1>3, <2>1, <2>2
<1>5. CASE TypeOfParent(p) # "string"
  BY <1>1, <1>2, <1>3, <1>5 DEF PopKey, Home
<1>. QED
  BY <1>4, <1>5

(* A value under a key, counted in the key.                                *)
LEMMA ValueAttached ==
  ASSUME NEW p \in States, p.parent <= Len(p.toks), NEW item \in Items, TypeOfParent(p) = "string"
  PROVE  LET toks == Counted(p, Added(p, item))
         IN PopKey([p EXCEPT !.toks = toks]) = Moved(p, toks, Home(p), p.depth)
<1> DEFINE toks == Counted(p, Added(p, item))
           q == [p EXCEPT !.toks = toks]
<1>1. p.parent \in 1..Len(p.toks) /\ DOMAIN p.toks = 1..Len(p.toks) /\ Home(p) = p.toks[p.parent].parent
  BY KeyPopped, StateParts DEF Home
<1>2. Kept(p.toks, toks)
  BY <1>1, CountedGrows DEF Grown
<1>. HIDE DEF toks
<1>3. toks[p.parent].type = p.toks[p.parent].type /\ toks[p.parent].parent = p.toks[p.parent].parent
  BY <1>1, <1>2 DEF Kept
<1>4. q.parent = p.parent /\ q.toks = toks
  BY DEF States
<1>5. [q EXCEPT !.parent = Home(p)] = Moved(p, toks, Home(p), p.depth)
  BY DEF States, Moved
<1>. HIDE DEF q
<1>6. TypeOfParent(q) = "string"
  BY <1>3, <1>4 DEF TypeOfParent
<1>7. PopKey(q) = [q EXCEPT !.parent = Home(p)]
  BY <1>1, <1>3, <1>4, <1>6 DEF PopKey
<1>. QED
  BY <1>5, <1>7 DEF q, toks

LEMMA ContainerOpened ==
  ASSUME NEW p \in States, p.parent <= Len(p.toks), NEW item \in Items, item.kind \in Open
  PROVE  \E toks : /\ Grown(p, item, toks)
                   /\ OpenContainer(p, item) = Moved(p, toks, Len(p.toks) + 1, p.depth + 1)
<1>1. Added(p, item) = Append(p.toks, Token(item.kind, "", p.parent))
  BY DEF Added
<1>2. Grown(p, item, Added(p, item)) /\ Len(Added(p, item)) = Len(p.toks) + 1
  BY AddedGrows DEF Grown
<1>3. TypeOfParent(p) \in Open => Grown(p, item, Counted(p, Added(p, item)))
  BY KeyPopped, CountedGrows DEF Open
<1>4. PICK toks : /\ Grown(p, item, toks)
                  /\ toks = IF TypeOfParent(p) \in Open THEN Counted(p, Added(p, item)) ELSE Added(p, item)
  BY <1>2, <1>3
<1>5. OpenContainer(p, item) = [p EXCEPT !.toks = toks, !.parent = Len(p.toks) + 1, !.depth = @ + 1]
  BY <1>1, <1>2, <1>4 DEF OpenContainer
<1>. QED
  BY <1>4, <1>5 DEF Moved

LEMMA StringAdded ==
  ASSUME NEW p \in States, p.parent <= Len(p.toks), NEW item \in Items, item.kind = "string"
  PROVE  \E toks : /\ Grown(p, item, toks)
                   /\ StringToken(p, item) =
                        Moved(p, toks, IF TypeOfParent(p) = "{" THEN Len(p.toks) + 1 ELSE Home(p), p.depth)
<1> DEFINE added == Added(p, item)
           counted == Counted(p, added)
<1>1. added = Append(p.toks, Token("string", item.text, p.parent))
  BY DEF Added, Open
<1>2. StringToken(p, item) =
        CASE TypeOfParent(p) = "{"      -> [p EXCEPT !.toks = counted, !.parent = Len(added)]
          [] TypeOfParent(p) = "["      -> [p EXCEPT !.toks = counted]
          [] TypeOfParent(p) = "string" -> PopKey([p EXCEPT !.toks = counted])
          [] OTHER                      -> [p EXCEPT !.toks = added]
  BY <1>1 DEF StringToken
<1>3. Grown(p, item, added) /\ Len(added) = Len(p.toks) + 1
  BY AddedGrows DEF Grown
<1>4. TypeOfParent(p) \in {"{", "[", "string"} => Grown(p, item, counted)
  BY KeyPopped, CountedGrows
<1>5. TypeOfParent(p) = "string" => PopKey([p EXCEPT !.toks = counted]) = Moved(p, counted, Home(p), p.depth)
  BY ValueAttached
<1>. HIDE DEF added, counted
<1>6. \A toks : [p EXCEPT !.toks = toks] = Moved(p, toks, p.parent, p.depth)
  BY DEF States, Moved
<1>7. \A toks, parent : [p EXCEPT !.toks = toks, !.parent = parent] = Moved(p, toks, parent, p.depth)
  BY DEF States, Moved
<1>8. CASE TypeOfParent(p) = "{"
  <2>1. StringToken(p, item) = [p EXCEPT !.toks = counted, !.parent = Len(added)]
    BY <1>2, <1>8
  <2>2. StringToken(p, item) = Moved(p, counted, Len(p.toks) + 1, p.depth)
    BY <1>3, <1>7, <2>1
  <2>. QED
    BY <1>4, <1>8, <2>2
<1>9. CASE TypeOfParent(p) = "["
  BY <1>2, <1>4, <1>6, <1>9 DEF Home
<1>10. CASE TypeOfParent(p) = "string"
  BY <1>2, <1>4, <1>5, <1>10
<1>11. CASE TypeOfParent(p) \notin {"{", "[", "string"}
  BY <1>2, <1>3, <1>6, <1>11 DEF Home
<1>. QED
  BY <1>8, <1>9, <1>10, <1>11

LEMMA PrimitiveAdded ==
  ASSUME NEW p \in States, p.parent <= Len(p.toks), NEW item \in Items, item.kind = "primitive",
         PrimitiveToken(p, item).err = 0
  PROVE  \E toks : Grown(p, item, toks) /\ PrimitiveToken(p, item) = Moved(p, toks, Home(p), p.depth)
<1> DEFINE added == Added(p, item)
           counted == Counted(p, added)
<1>1. added = Append(p.toks, Token("primitive", item.text, p.parent))
  BY DEF Added, Open
<1>2. PrimitiveToken(p, item) =
        CASE TypeOfParent(p) = "{"      -> [p EXCEPT !.err = Malformed]
          [] TypeOfParent(p) = "["      -> [p EXCEPT !.toks = counted]
          [] TypeOfParent(p) = "string" -> PopKey([p EXCEPT !.toks = counted])
          [] OTHER                      -> [p EXCEPT !.toks = added]
  BY <1>1 DEF PrimitiveToken
<1>3. Grown(p, item, added)
  BY AddedGrows
<1>4. TypeOfParent(p) \in {"{", "[", "string"} => Grown(p, item, counted)
  BY KeyPopped, CountedGrows
<1>5. TypeOfParent(p) = "string" => PopKey([p EXCEPT !.toks = counted]) = Moved(p, counted, Home(p), p.depth)
  BY ValueAttached
<1>. HIDE DEF added, counted
<1>6. \A toks : [p EXCEPT !.toks = toks] = Moved(p, toks, p.parent, p.depth)
  BY DEF States, Moved
<1>7. [p EXCEPT !.err = Malformed].err # 0
  BY DEF States, Malformed
<1>8. CASE TypeOfParent(p) = "{"
  BY <1>2, <1>7, <1>8
<1>9. CASE TypeOfParent(p) = "["
  BY <1>2, <1>4, <1>6, <1>9 DEF Home
<1>10. CASE TypeOfParent(p) = "string"
  BY <1>2, <1>4, <1>5, <1>10
<1>11. CASE TypeOfParent(p) \notin {"{", "[", "string"}
  BY <1>2, <1>3, <1>6, <1>11 DEF Home
<1>. QED
  BY <1>8, <1>9, <1>10, <1>11

(* Where the parser may stand: nowhere, at a container, or at a key of an  *)
(* object.                                                                 *)
Place(toks, t) ==
  \/ t = NoTok
  \/ /\ t \in 1..Len(toks)
     /\ \/ toks[t].type \in Open
        \/ toks[t].type = "string" /\ toks[t].parent \in 1..Len(toks) /\ toks[toks[t].parent].type = "{"

LEMMA HomeIsContainer ==
  ASSUME NEW p \in States, Place(p.toks, p.parent)
  PROVE  /\ Home(p) = Container(p.toks, p.parent) /\ p.parent <= Len(p.toks)
         /\ Place(p.toks, Home(p)) /\ Container(p.toks, Home(p)) = Home(p)
         /\ Home(p) # NoTok => Home(p) \in 1..Len(p.toks) /\ p.toks[Home(p)].type \in Open
         /\ TypeOfParent(p) = "{" => p.parent # NoTok /\ Home(p) = p.parent /\ p.toks[p.parent].type = "{"
<1>1. p.parent \in Nat /\ Len(p.toks) \in Nat
  BY StateParts
<1>2. CASE p.parent = NoTok
  BY <1>1, <1>2 DEF Place, Home, Container, TypeOfParent, NoTok
<1>3. CASE p.parent # NoTok /\ p.toks[p.parent].type \in Open
  <2>1. TypeOfParent(p) = p.toks[p.parent].type /\ TypeOfParent(p) # "string" /\ p.parent \in 1..Len(p.toks)
    BY <1>3 DEF TypeOfParent, Open, Place
  <2>2. Home(p) = p.parent /\ Container(p.toks, p.parent) = p.parent
    BY <1>3, <2>1 DEF Home, Container
  <2>3. Place(p.toks, p.parent) /\ Container(p.toks, Home(p)) = Home(p) /\ p.parent <= Len(p.toks)
    BY <1>1, <2>1, <2>2
  <2>. QED
    BY <1>3, <2>1, <2>2, <2>3
<1>4. CASE p.parent # NoTok /\ p.toks[p.parent].type \notin Open
  <2>1. /\ p.parent \in 1..Len(p.toks) /\ p.toks[p.parent].type = "string"
        /\ p.toks[p.parent].parent \in 1..Len(p.toks) /\ p.toks[p.toks[p.parent].parent].type = "{"
    BY <1>4 DEF Place
  <2>2. TypeOfParent(p) = "string" /\ Home(p) = p.toks[p.parent].parent
        /\ Container(p.toks, p.parent) = p.toks[p.parent].parent
    BY <1>4, <2>1 DEF TypeOfParent, Home, Container
  <2>3. p.toks[Home(p)].type \in Open /\ Home(p) \in 1..Len(p.toks)
    BY <2>1, <2>2 DEF Open
  <2>4. Container(p.toks, Home(p)) = Home(p)
    BY <2>3 DEF Container
  <2>5. Place(p.toks, Home(p))
    BY <2>3 DEF Place
  <2>7. p.parent \in 1..Len(p.toks)
    BY <2>1
  <2>8. p.parent <= Len(p.toks)
    BY <1>1, <2>7
  <2>6. TypeOfParent(p) # "{"
    BY <2>2
  <2>. QED
    BY <2>2, <2>3, <2>4, <2>5, <2>6, <2>8
<1>. QED
  BY <1>2, <1>3, <1>4

LEMMA TokenReplaced ==
  ASSUME NEW toks \in Seq(Toks), NEW t \in 1..Len(toks), NEW tok \in Toks
  PROVE  LET new == [toks EXCEPT ![t] = tok]
         IN new \in Seq(Toks) /\ Len(new) = Len(toks) /\ DOMAIN new = 1..Len(toks)
  OBVIOUS

LEMMA ContainerClosed ==
  ASSUME NEW p \in States, Place(p.toks, p.parent), p.err = 0, NEW item, CloseContainer(p, item).err = 0
  PROVE  LET c    == Home(p)
             toks == [p.toks EXCEPT ![c].closed = TRUE]
         IN /\ c \in 1..Len(p.toks) /\ p.toks[c].type = IF item.kind = "}" THEN "{" ELSE "["
            /\ toks \in Seq(Toks) /\ Len(toks) = Len(p.toks) /\ Kept(p.toks, toks)
            /\ \A t \in 1..Len(p.toks) : toks[t].closed = IF t = c THEN TRUE ELSE p.toks[t].closed
            /\ CloseContainer(p, item) = Moved(p, toks, p.toks[c].parent, p.depth - 1)
<1> DEFINE c == Home(p)
           tok == [p.toks[c] EXCEPT !.closed = TRUE]
           toks == [p.toks EXCEPT ![c] = tok]
           q == PopKey(p)
           want == IF item.kind = "}" THEN "{" ELSE "["
<1>1. p.parent <= Len(p.toks) /\ (c # NoTok => c \in 1..Len(p.toks))
  BY HomeIsContainer
<1>2. q = Moved(p, p.toks, c, p.depth) /\ c \in Nat
  BY <1>1, KeyPopped
<1>3. q.toks = p.toks /\ q.parent = c /\ q.depth = p.depth /\ q.err = 0
  <2>. HIDE DEF q, c
  <2>1. p.toks \in Seq(Toks) /\ p.depth \in Int
    BY StateParts
  <2>. QED
    BY <1>2, <2>1 DEF Moved, States
<1>4. ~ (c = NoTok \/ TypeOfParent(q) # want)
      /\ CloseContainer(p, item) = [q EXCEPT !.toks[c].closed = TRUE, !.parent = p.toks[c].parent, !.depth = @ - 1]
  <2>1. [p EXCEPT !.err = Malformed].err # 0
    BY DEF States, Malformed
  <2>2. CloseContainer(p, item) =
          IF q.parent = NoTok \/ TypeOfParent(q) # want \/ q.toks[q.parent].closed
          THEN [p EXCEPT !.err = Malformed]
          ELSE [q EXCEPT !.toks[q.parent].closed = TRUE, !.parent = q.toks[q.parent].parent, !.depth = @ - 1]
    BY DEF CloseContainer
  <2>. HIDE DEF q, c, want
  <2>. QED
    BY <1>3, <2>1, <2>2
<1>5. c \in 1..Len(p.toks) /\ p.toks[c].type = want
  BY <1>1, <1>3, <1>4 DEF TypeOfParent
<1>6. p.toks \in Seq(Toks) /\ p.toks[c] \in Toks /\ DOMAIN p.toks = 1..Len(p.toks)
  BY <1>5, StateParts
<1>7. tok \in Toks /\ tok.type = p.toks[c].type /\ tok.parent = p.toks[c].parent /\ tok.closed = TRUE
  <2>. HIDE DEF c
  <2>. QED
    BY <1>6 DEF Toks
<1>8. /\ toks \in Seq(Toks) /\ Len(toks) = Len(p.toks) /\ Kept(p.toks, toks)
      /\ \A t \in 1..Len(p.toks) : toks[t].closed = IF t = c THEN TRUE ELSE p.toks[t].closed
  <2>. HIDE DEF c, tok
  <2>1. toks \in Seq(Toks) /\ Len(toks) = Len(p.toks) /\ DOMAIN toks = 1..Len(p.toks)
    BY <1>5, <1>6, <1>7, TokenReplaced
  <2>2. toks[c] = tok /\ \A t \in 1..Len(p.toks) : t # c => toks[t] = p.toks[t]
    BY <1>5, <1>6
  <2>. HIDE DEF toks
  <2>3. Kept(p.toks, toks)
    BY <1>6, <1>7, <2>1, <2>2 DEF Kept
  <2>4. \A t \in 1..Len(p.toks) : toks[t].closed = IF t = c THEN TRUE ELSE p.toks[t].closed
    BY <1>7, <2>2, Zenon
  <2>. QED
    BY <2>1, <2>3, <2>4
<1>9. toks = [p.toks EXCEPT ![c].closed = TRUE]
  OBVIOUS
<1>10. CloseContainer(p, item) = Moved(p, toks, p.toks[c].parent, p.depth - 1)
  <2>1. CloseContainer(p, item) = [q EXCEPT !.toks = [q.toks EXCEPT ![c].closed = TRUE], !.parent = p.toks[c].parent, !.depth = @ - 1]
    BY <1>4
  <2>2. CloseContainer(p, item) = [q EXCEPT !.toks = toks, !.parent = p.toks[c].parent, !.depth = p.depth - 1]
    BY <1>3, <1>9, <2>1
  <2>. HIDE DEF toks, c, q
  <2>. QED
    BY <1>2, <2>2 DEF Moved, States
<1>. QED
  BY <1>5, <1>8, <1>9, <1>10

(* What a turn of the loop that finds no error has done.                   *)
NewParent(p, item) ==
  IF item.kind \in Open \/ (item.kind = "string" /\ TypeOfParent(p) = "{") THEN Len(p.toks) + 1 ELSE Home(p)
NewDepth(p, item) == IF item.kind \in Open THEN p.depth + 1 ELSE p.depth

LEMMA StepTaken ==
  ASSUME NEW p \in States, p.parent <= Len(p.toks), p.err = 0, NEW item \in Items, NEW max \in Nat,
         Step(p, item, max).err = 0
  PROVE  \/ /\ IsToken(item) /\ Len(p.toks) + 1 <= max
            /\ \E toks : /\ Grown(p, item, toks)
                         /\ Step(p, item, max) = Moved(p, toks, NewParent(p, item), NewDepth(p, item))
         \/ item.kind \in Close /\ Step(p, item, max) = CloseContainer(p, item)
         \/ item.kind = "," /\ Step(p, item, max) = PopKey(p)
         \/ item.kind = ":" /\ Step(p, item, max) = p
<1> DEFINE q == Step(p, item, max)
           full == Len(p.toks) >= max
<1>1. item.kind \in ItemKinds /\ "err" \in DOMAIN p
  BY DEF Items, States
<1>3. /\ [p EXCEPT !.err = TooMany].err # 0 /\ [p EXCEPT !.err = Truncated].err # 0
      /\ [p EXCEPT !.err = Malformed].err # 0
  BY <1>1 DEF TooMany, Truncated, Malformed
<1>4. q.err = 0
  OBVIOUS
<1>. HIDE DEF q
<1>2. Len(p.toks) \in Nat /\ (full <=> ~ (Len(p.toks) + 1 <= max))
  BY StateParts
<1>5. CASE item.kind \in Open
  <2>1. q = (IF full THEN [p EXCEPT !.err = TooMany] ELSE OpenContainer(p, item)) /\ IsToken(item)
    BY <1>5 DEF q, Step, IsToken, Open, Close
  <2>2. ~ full /\ q = OpenContainer(p, item)
    BY <1>3, <1>4, <2>1
  <2>3. PICK toks : Grown(p, item, toks) /\ OpenContainer(p, item) = Moved(p, toks, Len(p.toks) + 1, p.depth + 1)
    BY <1>5, ContainerOpened
  <2>4. NewParent(p, item) = Len(p.toks) + 1 /\ NewDepth(p, item) = p.depth + 1
    BY <1>5 DEF NewParent, NewDepth
  <2>. QED
    BY <1>2, <2>1, <2>2, <2>3, <2>4 DEF q
<1>6. CASE item.kind = "string"
  <2>1. q = (IF full THEN [p EXCEPT !.err = TooMany] ELSE StringToken(p, item))
        /\ IsToken(item) /\ item.kind \notin Open
    BY <1>6 DEF q, Step, IsToken, Open, Close
  <2>2. ~ full /\ q = StringToken(p, item)
    BY <1>3, <1>4, <2>1
  <2>3. NewParent(p, item) = (IF TypeOfParent(p) = "{" THEN Len(p.toks) + 1 ELSE Home(p)) /\ NewDepth(p, item) = p.depth
    BY <1>6, <2>1 DEF NewParent, NewDepth
  <2>4. PICK toks : Grown(p, item, toks) /\ StringToken(p, item) = Moved(p, toks, NewParent(p, item), p.depth)
    BY <1>6, <2>3, StringAdded
  <2>. QED
    BY <1>2, <2>1, <2>2, <2>3, <2>4 DEF q
<1>7. CASE item.kind = "primitive"
  <2>1. q = (IF full THEN [p EXCEPT !.err = TooMany] ELSE PrimitiveToken(p, item))
        /\ IsToken(item) /\ item.kind \notin Open
    BY <1>7 DEF q, Step, IsToken, Open, Close
  <2>2. ~ full /\ q = PrimitiveToken(p, item)
    BY <1>3, <1>4, <2>1
  <2>3. NewParent(p, item) = Home(p) /\ NewDepth(p, item) = p.depth
    BY <1>7, <2>1 DEF NewParent, NewDepth
  <2>4. PICK toks : Grown(p, item, toks) /\ PrimitiveToken(p, item) = Moved(p, toks, Home(p), p.depth)
    BY <1>4, <1>7, <2>2, PrimitiveAdded
  <2>. QED
    BY <1>2, <2>1, <2>2, <2>3, <2>4 DEF q
<1>8. CASE item.kind \in {"unended", "illformed"}
  <2>1. q \in {[p EXCEPT !.err = TooMany], [p EXCEPT !.err = Truncated], [p EXCEPT !.err = Malformed]}
    BY <1>8 DEF q, Step, Open, Close
  <2>. QED
    BY <1>3, <1>4, <2>1
<1>9. CASE item.kind \in Close
  BY <1>9 DEF Step, Open, Close
<1>10. CASE item.kind = ","
  BY <1>10 DEF Step, Open, Close
<1>11. CASE item.kind = ":"
  BY <1>11 DEF Step, Open, Close
<1>. QED
  BY <1>1, <1>5, <1>6, <1>7, <1>8, <1>9, <1>10, <1>11 DEF ItemKinds

LEMMA CountGrows ==
  ASSUME NEW text, NEW i \in Nat
  PROVE  /\ Count(text, 0) = 0 /\ Count(text, i) \in Nat
         /\ Count(text, i + 1) = Count(text, i) + (IF IsToken(text[i + 1]) THEN 1 ELSE 0)
         /\ \A k \in 0..i : Count(text, k) \in Nat /\ Count(text, k) <= Count(text, i)
<1> DEFINE C(n) == {k \in 1..n : IsToken(text[k])}
<1>1. \A n \in Nat : IsFiniteSet(C(n)) /\ Cardinality(C(n)) \in Nat
  <2>. SUFFICES ASSUME NEW n \in Nat PROVE IsFiniteSet(C(n)) /\ Cardinality(C(n)) \in Nat
    OBVIOUS
  <2>1. IsFiniteSet(1..n) /\ C(n) \subseteq 1..n
    BY FS_Interval
  <2>. HIDE DEF C
  <2>. QED
    BY <2>1, FS_Subset, FS_CardinalityType
<1>2. \A n : Count(text, n) = Cardinality(C(n))
  BY DEF Count
<1>3. C(0) = {} /\ Cardinality({}) = 0
  BY FS_EmptySet
<1>4. Cardinality(C(i + 1)) = Cardinality(C(i)) + (IF IsToken(text[i + 1]) THEN 1 ELSE 0)
  <2>1. C(i + 1) = C(i) \cup (IF IsToken(text[i + 1]) THEN {i + 1} ELSE {}) /\ i + 1 \notin C(i)
    OBVIOUS
  <2>2. IsFiniteSet(C(i)) /\ Cardinality(C(i)) \in Nat
    BY <1>1
  <2>. HIDE DEF C
  <2>3. CASE IsToken(text[i + 1])
    BY <2>1, <2>2, <2>3, FS_AddElement
  <2>4. CASE ~ IsToken(text[i + 1])
    BY <2>1, <2>2, <2>4
  <2>. QED
    BY <2>3, <2>4
<1>5. \A k \in 0..i : Cardinality(C(k)) <= Cardinality(C(i))
  <2>1. \A k \in 0..i : C(k) \subseteq C(i)
    OBVIOUS
  <2>2. IsFiniteSet(C(i))
    BY <1>1
  <2>. HIDE DEF C
  <2>. QED
    BY <2>1, <2>2, FS_Subset
<1>. HIDE DEF C
<1>. QED
  BY <1>1, <1>2, <1>3, <1>4, <1>5

LEMMA CountStays ==
  ASSUME NEW text, NEW i \in Nat, ~ IsToken(text[i + 1])
  PROVE  Count(text, i + 1) = Count(text, i)
<1>1. Count(text, i) \in Nat
  BY CountGrows
<1>2. Count(text, i + 1) = Count(text, i) + 0
  BY CountGrows
<1>. QED
  BY <1>1, <1>2

LEMMA OneMore ==
  ASSUME NEW i \in Nat
  PROVE  \A k \in 1..(i + 1) : k \in 1..i \/ k = i + 1
  OBVIOUS

(* A token has a number of its own among the tokens so far.                *)
LEMMA TokensNumbered ==
  ASSUME NEW text, NEW i \in Nat, NEW k \in 1..i, IsToken(text[k])
  PROVE  Count(text, k) \in 1..Count(text, i)
<1>1. k - 1 \in Nat /\ k = (k - 1) + 1 /\ k \in 0..i
  OBVIOUS
<1>2. Count(text, k) = Count(text, k - 1) + 1 /\ Count(text, k - 1) \in Nat
  BY <1>1, CountGrows
<1>3. Count(text, k) <= Count(text, i) /\ Count(text, i) \in Nat
  BY <1>1, CountGrows
<1>. QED
  BY <1>2, <1>3

(* What was in place stays there when the parser adds or closes a token.   *)
LEMMA PlacesKept ==
  ASSUME NEW old \in Seq(Toks), NEW new \in Seq(Toks), Kept(old, new), Len(old) <= Len(new), NEW t, Place(old, t)
  PROVE  Place(new, t) /\ Container(new, t) = Container(old, t)
<1>1. \A u \in 1..Len(old) : u \in 1..Len(new) /\ new[u].type = old[u].type /\ new[u].parent = old[u].parent
  BY DEF Kept
<1>2. CASE t = NoTok
  BY <1>2 DEF Place, Container
<1>3. CASE t \in 1..Len(old) /\ old[t].type \in Open
  BY <1>1, <1>3 DEF Place, Container
<1>4. CASE /\ t \in 1..Len(old) /\ old[t].type = "string"
           /\ old[t].parent \in 1..Len(old) /\ old[old[t].parent].type = "{"
  <2>1. /\ t \in 1..Len(new) /\ new[t].type = "string" /\ new[t].parent = old[t].parent
        /\ new[t].parent \in 1..Len(new) /\ new[new[t].parent].type = "{"
    BY <1>1, <1>4
  <2>. QED
    BY <1>4, <2>1 DEF Place, Container
<1>. QED
  BY <1>2, <1>3, <1>4 DEF Place

(* The containers that are open after i items, from the outermost in: each *)
(* was opened when those before it were open.                              *)
GoodStack(text, st, i) ==
  /\ st[i] \in Seq(1..i)
  /\ \A m \in 1..Len(st[i]) : text[st[i][m]].kind \in Open /\ st[st[i][m] - 1] = SubSeq(st[i], 1, m - 1)

LEMMA NotBroken ==
  ASSUME NEW i \in Nat, NEW s \in Seq(1..i)
  PROVE  s # Broken
<1>1. \A m \in 1..Len(s) : s[m] # -1
  OBVIOUS
<1>2. Len(Broken) = 1 /\ Broken[1] = -1
  BY DEF Broken
<1>. QED
  BY <1>1, <1>2

LEMMA StackPushed ==
  ASSUME NEW text, NEW st, NEW i \in Nat, GoodStack(text, st, i),
         text[i + 1].kind \in Open, st[i + 1] = Append(st[i], i + 1)
  PROVE  GoodStack(text, st, i + 1)
<1> DEFINE s == st[i]
           r == st[i + 1]
           n == Len(s)
<1>1. s \in Seq(1..i) /\ n \in Nat
  BY DEF GoodStack
<1>2. s \in Seq(1..(i + 1)) /\ i + 1 \in 1..(i + 1)
  <2>1. \A m \in 1..n : s[m] \in 1..(i + 1)
    BY <1>1
  <2>. QED
    BY <1>1, <2>1
<1>. HIDE DEF s
<1>3. r \in Seq(1..(i + 1)) /\ Len(r) = n + 1 /\ r[n + 1] = i + 1 /\ \A m \in 1..n : r[m] = s[m]
  BY <1>1, <1>2 DEF s
<1>4. \A m \in 1..(n + 1) : SubSeq(r, 1, m - 1) = SubSeq(s, 1, m - 1)
  <2>. SUFFICES ASSUME NEW m \in 1..(n + 1) PROVE SubSeq(r, 1, m - 1) = SubSeq(s, 1, m - 1)
    OBVIOUS
  <2>1. SubSeq(s, 1, m - 1) = [k \in 1..(m - 1) |-> s[k]] /\ SubSeq(r, 1, m - 1) = [k \in 1..(m - 1) |-> r[k]]
    BY <1>1, <1>3
  <2>2. \A k \in 1..(m - 1) : r[k] = s[k]
    BY <1>1, <1>3
  <2>. QED
    BY <2>1, <2>2
<1>5. SubSeq(s, 1, n) = s
  BY <1>1
<1>6. \A m \in 1..n : text[s[m]].kind \in Open /\ st[s[m] - 1] = SubSeq(s, 1, m - 1)
  BY DEF GoodStack, s
<1>7. st[(i + 1) - 1] = s
  BY DEF s
<1>. HIDE DEF r
<1>8. ASSUME NEW m \in 1..(n + 1)
      PROVE  text[r[m]].kind \in Open /\ st[r[m] - 1] = SubSeq(r, 1, m - 1)
  <2>1. CASE m \in 1..n
    BY <1>3, <1>4, <1>6, <2>1
  <2>2. CASE m = n + 1
    <3>1. r[m] = i + 1 /\ m - 1 = n
      BY <1>1, <1>3, <2>2
    <3>2. SubSeq(r, 1, m - 1) = s
      BY <1>4, <1>5, <3>1
    <3>. QED
      BY <1>7, <3>1, <3>2
  <2>3. n \in Nat
    BY <1>1
  <2>. HIDE DEF n
  <2>4. m \in 1..n \/ m = n + 1
    BY <2>3
  <2>. QED
    BY <2>1, <2>2, <2>4
<1>. QED
  BY <1>3, <1>8 DEF GoodStack, r

LEMMA StackPopped ==
  ASSUME NEW text, NEW st, NEW i \in Nat, GoodStack(text, st, i), st[i] # <<>>,
         st[i + 1] = SubSeq(st[i], 1, Len(st[i]) - 1)
  PROVE  GoodStack(text, st, i + 1) /\ Len(st[i + 1]) = Len(st[i]) - 1
         /\ \A m \in 1..(Len(st[i]) - 1) : st[i + 1][m] = st[i][m]
<1> DEFINE s == st[i]
           r == st[i + 1]
           n == Len(s)
<1>1. s \in Seq(1..i) /\ n \in Nat /\ n # 0
  BY DEF GoodStack
<1>. HIDE DEF s
<1>2. /\ Len(r) = n - 1 /\ r = [m \in 1..(n - 1) |-> s[m]] /\ DOMAIN r = 1..(n - 1)
      /\ \A m \in 1..(n - 1) : r[m] = s[m] /\ r[m] \in 1..(i + 1)
  <2>1. r = SubSeq(s, 1, n - 1)
    BY DEF s
  <2>. HIDE DEF r
  <2>2. Len(r) = n - 1 /\ r = [m \in 1..(n - 1) |-> s[m]]
    <3>1. n - 1 \in Nat /\ s \in Seq(1..i)
      BY <1>1
    <3>. HIDE DEF n
    <3>2. r = [m \in 1..(n - 1) |-> s[m]]
      BY <2>1, <3>1, SMTT(30)
    <3>. QED
      BY <3>1, <3>2, SMTT(30)
  <2>3. \A m \in 1..(n - 1) : s[m] \in 1..(i + 1)
    BY <1>1
  <2>. QED
    BY <2>2, <2>3
<1>3. r \in Seq(1..(i + 1))
  BY <1>1, <1>2
<1>4. \A m \in 1..(n - 1) : SubSeq(r, 1, m - 1) = SubSeq(s, 1, m - 1)
  <2>. SUFFICES ASSUME NEW m \in 1..(n - 1) PROVE SubSeq(r, 1, m - 1) = SubSeq(s, 1, m - 1)
    OBVIOUS
  <2>1. SubSeq(s, 1, m - 1) = [k \in 1..(m - 1) |-> s[k]] /\ SubSeq(r, 1, m - 1) = [k \in 1..(m - 1) |-> r[k]]
    <3>1. Len(r) = n - 1 /\ n - 1 \in Nat
      BY <1>1, <1>2
    <3>. HIDE DEF r, n
    <3>. QED
      BY <1>1, <1>3, <3>1
  <2>2. \A k \in 1..(m - 1) : r[k] = s[k]
    BY <1>1, <1>2, SMTT(30)
  <2>. QED
    BY <2>1, <2>2
<1>5. \A m \in 1..n : text[s[m]].kind \in Open /\ st[s[m] - 1] = SubSeq(s, 1, m - 1)
  BY DEF GoodStack, s
<1>. HIDE DEF r
<1>6. ASSUME NEW m \in 1..(n - 1)
      PROVE  text[r[m]].kind \in Open /\ st[r[m] - 1] = SubSeq(r, 1, m - 1)
  <2>1. m \in 1..n /\ r[m] = s[m]
    BY <1>1, <1>2
  <2>2. text[s[m]].kind \in Open /\ st[s[m] - 1] = SubSeq(s, 1, m - 1)
    BY <1>5, <2>1
  <2>. QED
    BY <1>4, <2>1, <2>2
<1>. QED
  BY <1>2, <1>3, <1>6 DEF GoodStack, r, s

LEMMA StackStays ==
  ASSUME NEW text, NEW st, NEW i \in Nat, GoodStack(text, st, i), st[i + 1] = st[i]
  PROVE  GoodStack(text, st, i + 1)
<1>1. st[i] \in Seq(1..i) /\ \A m \in 1..Len(st[i]) : st[i][m] \in 1..(i + 1)
  BY DEF GoodStack
<1>2. st[i] \in Seq(1..(i + 1))
  BY <1>1
<1>. QED
  BY <1>2 DEF GoodStack

(* The parser after i items: it stands in the innermost container that is  *)
(* open, every token so far hangs from the container that was innermost    *)
(* before it, and only the containers on the stack are not closed.         *)
Standing(text, st, max, i, p) ==
  /\ p \in States /\ p.err = 0 /\ Len(p.toks) <= max /\ Len(p.toks) = Count(text, i)
  /\ GoodStack(text, st, i) /\ p.depth = Len(st[i])
  /\ Place(p.toks, p.parent) /\ Container(p.toks, p.parent) = TopToken(text, st[i])
Hanging(text, st, i, toks) ==
  /\ \A t \in 1..Len(toks) : Place(toks, toks[t].parent) /\ toks[t].parent < t
  /\ \A k \in 1..i : IsToken(text[k]) =>
        /\ toks[Count(text, k)].type = text[k].kind
        /\ Container(toks, toks[Count(text, k)].parent) = TopToken(text, st[k - 1])
Unclosed(text, st, i, toks) ==
  \A t \in 1..Len(toks) : toks[t].closed \/ \E m \in 1..Len(st[i]) : t = Count(text, st[i][m])
Tree(text, st, max, i, p) ==
  Standing(text, st, max, i, p) /\ Hanging(text, st, i, p.toks) /\ Unclosed(text, st, i, p.toks)

(* Another token, or none: what hung before still hangs from the same.     *)
LEMMA HangingKept ==
  ASSUME NEW text, NEW st, NEW i \in Nat, NEW old \in Seq(Toks), NEW new \in Seq(Toks),
         Kept(old, new), Len(old) <= Len(new), Len(old) = Count(text, i), Hanging(text, st, i, old)
  PROVE  /\ \A t \in 1..Len(old) : Place(new, new[t].parent) /\ new[t].parent < t
         /\ \A k \in 1..i : IsToken(text[k]) =>
              /\ new[Count(text, k)].type = text[k].kind
              /\ Container(new, new[Count(text, k)].parent) = TopToken(text, st[k - 1])
<1>1. \A t \in 1..Len(old) : new[t].type = old[t].type /\ new[t].parent = old[t].parent
  BY DEF Kept
<1>2. \A t \in 1..Len(old) : /\ Place(old, old[t].parent) /\ old[t].parent < t
                             /\ Place(new, old[t].parent)
                             /\ Container(new, old[t].parent) = Container(old, old[t].parent)
  BY PlacesKept DEF Hanging
<1>3. ASSUME NEW k \in 1..i, IsToken(text[k])
      PROVE  /\ new[Count(text, k)].type = text[k].kind
             /\ Container(new, new[Count(text, k)].parent) = TopToken(text, st[k - 1])
  <2>1. Count(text, k) \in 1..Len(old)
    BY <1>3, TokensNumbered
  <2>2. old[Count(text, k)].type = text[k].kind
        /\ Container(old, old[Count(text, k)].parent) = TopToken(text, st[k - 1])
    BY <1>3 DEF Hanging
  <2>. QED
    BY <1>1, <1>2, <2>1, <2>2
<1>. QED
  BY <1>1, <1>2, <1>3

LEMMA TreeGrows ==
  ASSUME NEW text, NEW st, NEW max \in Nat, NEW i \in Nat, NEW p, Tree(text, st, max, i, p),
         text[i + 1] \in Items, IsToken(text[i + 1]), Len(p.toks) + 1 <= max,
         NEW toks, Grown(p, text[i + 1], toks), st[i + 1] = StillOpen(text, st[i], i + 1)
  PROVE  Tree(text, st, max, i + 1, Moved(p, toks, NewParent(p, text[i + 1]), NewDepth(p, text[i + 1])))
<1> DEFINE item == text[i + 1]
           n == Len(p.toks) + 1
           parent == NewParent(p, item)
           depth == NewDepth(p, item)
           q == Moved(p, toks, parent, depth)
<1>1. /\ p \in States /\ p.err = 0 /\ Len(p.toks) = Count(text, i) /\ GoodStack(text, st, i) /\ p.depth = Len(st[i])
      /\ Place(p.toks, p.parent) /\ Container(p.toks, p.parent) = TopToken(text, st[i])
      /\ Hanging(text, st, i, p.toks) /\ Unclosed(text, st, i, p.toks)
  BY DEF Tree, Standing
<1>2. /\ p.toks \in Seq(Toks) /\ Len(p.toks) \in Nat /\ DOMAIN p.toks = 1..Len(p.toks) /\ p.parent \in Nat /\ p.depth \in Int
      /\ st[i] \in Seq(1..i) /\ Len(st[i]) \in Nat
  BY <1>1, StateParts DEF GoodStack
<1>0. (\A t \in 1..n : t \in 1..Len(p.toks) \/ t = n) /\ Len(p.toks) <= n /\ n \in Nat /\ n \in 1..n /\ n # NoTok
      /\ (\A t \in 1..Len(p.toks) : t \in 1..n /\ t < n) /\ (p.parent <= Len(p.toks) => p.parent < n)
  <2>1. Len(p.toks) \in Nat /\ p.parent \in Nat
    BY <1>2
  <2>. QED
    BY <2>1 DEF NoTok
<1>3. /\ toks \in Seq(Toks) /\ Len(toks) = n /\ Kept(p.toks, toks)
      /\ \A t \in 1..Len(p.toks) : toks[t].closed = p.toks[t].closed
      /\ toks[n].type = item.kind /\ toks[n].parent = p.parent
      /\ toks[n].closed <=> item.kind \notin Open
  BY <1>2 DEF Grown
<1>4. /\ Home(p) = Container(p.toks, p.parent) /\ p.parent <= Len(p.toks) /\ Place(p.toks, Home(p))
      /\ Container(p.toks, Home(p)) = Home(p) /\ Home(p) \in Nat
      /\ TypeOfParent(p) = "{" => p.parent \in 1..Len(p.toks) /\ Home(p) = p.parent /\ p.toks[p.parent].type = "{"
  BY <1>1, HomeIsContainer, KeyPopped
<1>5. Count(text, i + 1) = n /\ n \in Nat
  BY <1>1, <1>2, CountGrows
<1>6. /\ Place(toks, p.parent) /\ Container(toks, p.parent) = TopToken(text, st[i])
      /\ Place(toks, Home(p)) /\ Container(toks, Home(p)) = TopToken(text, st[i])
  <2>1. /\ p.toks \in Seq(Toks) /\ toks \in Seq(Toks) /\ Kept(p.toks, toks) /\ Len(p.toks) <= Len(toks)
        /\ Place(p.toks, p.parent) /\ Place(p.toks, Home(p))
    BY <1>0, <1>1, <1>2, <1>3, <1>4
  <2>2. /\ Place(toks, p.parent) /\ Container(toks, p.parent) = Container(p.toks, p.parent)
        /\ Place(toks, Home(p)) /\ Container(toks, Home(p)) = Container(p.toks, Home(p))
    BY <2>1, PlacesKept
  <2>. QED
    BY <1>1, <1>4, <2>2
<1>7. st[i] # Broken
  BY <1>2, NotBroken
<1>8. /\ item.kind \in Open => st[i + 1] = Append(st[i], i + 1)
      /\ item.kind \notin Open => st[i + 1] = st[i]
  BY <1>7 DEF StillOpen, IsToken
<1>9. /\ GoodStack(text, st, i + 1) /\ depth = Len(st[i + 1]) /\ depth \in Int
      /\ item.kind \in Open => Len(st[i + 1]) = Len(st[i]) + 1 /\ st[i + 1][Len(st[i]) + 1] = i + 1
      /\ \A m \in 1..Len(st[i]) : m \in 1..Len(st[i + 1]) /\ st[i + 1][m] = st[i][m]
  <2>1. CASE item.kind \in Open
    <3>1. GoodStack(text, st, i + 1)
      BY <1>1, <1>8, <2>1, StackPushed
    <3>2. /\ Len(st[i + 1]) = Len(st[i]) + 1 /\ st[i + 1][Len(st[i]) + 1] = i + 1
          /\ \A m \in 1..Len(st[i]) : st[i + 1][m] = st[i][m]
      BY <1>2, <1>8, <2>1
    <3>3. depth = p.depth + 1
      BY <2>1 DEF NewDepth
    <3>. QED
      BY <1>1, <1>2, <2>1, <3>1, <3>2, <3>3
  <2>2. CASE item.kind \notin Open
    <3>1. GoodStack(text, st, i + 1)
      BY <1>1, <1>8, <2>2, StackStays
    <3>2. depth = p.depth
      BY <2>2 DEF NewDepth
    <3>. QED
      BY <1>1, <1>2, <1>8, <2>2, <3>1, <3>2
  <2>. QED
    BY <2>1, <2>2
<1>10. Place(toks, parent) /\ Container(toks, parent) = TopToken(text, st[i + 1]) /\ parent \in Nat
  <2>1. n \in 1..n /\ Len(p.toks) < n
    BY <1>2
  <2>2. CASE item.kind \in Open
    <3>1. parent = n
      BY <2>2 DEF NewParent
    <3>2. TopToken(text, st[i + 1]) = n
      <4>1. st[i + 1] # <<>> /\ st[i + 1][Len(st[i + 1])] = i + 1
        BY <1>2, <1>8, <2>2
      <4>. QED
        BY <1>5, <4>1 DEF TopToken
    <3>3. Place(toks, n) /\ Container(toks, n) = n
      BY <1>3, <2>1, <2>2 DEF Place, Container
    <3>. QED
      BY <1>5, <3>1, <3>2, <3>3
  <2>3. CASE item.kind = "string" /\ TypeOfParent(p) = "{"
    <3>1. parent = n /\ item.kind \notin Open
      BY <2>3 DEF NewParent, Open
    <3>2. toks[p.parent].type = "{" /\ p.parent \in 1..n
      <4>1. p.parent \in 1..Len(p.toks) /\ p.toks[p.parent].type = "{"
        BY <1>4, <2>3
      <4>2. toks[p.parent].type = p.toks[p.parent].type
        BY <1>2, <1>3, <4>1 DEF Kept
      <4>3. p.parent \in 1..n
        BY <1>0, <4>1
      <4>. QED
        BY <4>1, <4>2, <4>3
    <3>3. Place(toks, n) /\ Container(toks, n) = p.parent
      <4>1. n # NoTok /\ toks[n].type = "string" /\ toks[n].type \notin Open /\ toks[n].parent = p.parent
        BY <1>0, <1>3, <2>3, <3>1
      <4>. QED
        BY <1>3, <2>1, <3>2, <4>1 DEF Place, Container
    <3>4. p.parent = TopToken(text, st[i + 1])
      BY <1>1, <1>4, <1>8, <2>3, <3>1
    <3>. QED
      BY <1>5, <3>1, <3>3, <3>4
  <2>4. CASE item.kind \notin Open /\ ~ (item.kind = "string" /\ TypeOfParent(p) = "{")
    <3>1. parent = Home(p)
      BY <2>4 DEF NewParent
    <3>. QED
      BY <1>4, <1>6, <1>8, <2>4, <3>1
  <2>. QED
    BY <2>2, <2>3, <2>4
<1>. HIDE DEF item, parent, depth
<1>11. q \in States /\ q.toks = toks /\ q.parent = parent /\ q.depth = depth /\ q.err = 0
  <2>1. p \in States /\ p.err = 0 /\ toks \in Seq(Toks) /\ parent \in Nat /\ depth \in Int
    BY <1>1, <1>3, <1>9, <1>10
  <2>. QED
    BY <2>1 DEF Moved, States
<1>. HIDE DEF q
<1>12. Standing(text, st, max, i + 1, q)
  BY <1>3, <1>5, <1>9, <1>10, <1>11 DEF Standing
<1>13. Hanging(text, st, i + 1, toks)
  <2>1. /\ \A t \in 1..Len(p.toks) : Place(toks, toks[t].parent) /\ toks[t].parent < t
        /\ \A k \in 1..i : IsToken(text[k]) =>
              /\ toks[Count(text, k)].type = text[k].kind
              /\ Container(toks, toks[Count(text, k)].parent) = TopToken(text, st[k - 1])
    <3>1. Len(p.toks) <= Len(toks)
      BY <1>2, <1>3
    <3>. QED
      BY <1>1, <1>2, <1>3, <3>1, HangingKept
  <2>2. Place(toks, toks[n].parent) /\ toks[n].parent < n
    <3>1. p.parent < n
      BY <1>0, <1>4
    <3>2. toks[n].parent = p.parent
      BY <1>3
    <3>. QED
      BY <1>6, <3>1, <3>2
  <2>3. toks[Count(text, i + 1)].type = text[i + 1].kind
        /\ Container(toks, toks[Count(text, i + 1)].parent) = TopToken(text, st[(i + 1) - 1])
    BY <1>3, <1>5, <1>6 DEF item
  <2>4. /\ \A t \in 1..Len(toks) : t \in 1..Len(p.toks) \/ t = n
        /\ \A k \in 1..(i + 1) : k \in 1..i \/ k = i + 1
    BY <1>2, <1>3
  <2>. QED
    BY <2>1, <2>2, <2>3, <2>4 DEF Hanging
<1>14. Unclosed(text, st, i + 1, toks)
  <2>. SUFFICES ASSUME NEW t \in 1..n, ~ toks[t].closed
                PROVE  \E m \in 1..Len(st[i + 1]) : t = Count(text, st[i + 1][m])
    BY <1>3 DEF Unclosed
  <2>1. CASE t \in 1..Len(p.toks)
    <3>1. ~ p.toks[t].closed
      BY <1>3, <2>1
    <3>2. PICK m \in 1..Len(st[i]) : t = Count(text, st[i][m])
      BY <1>1, <2>1, <3>1 DEF Unclosed
    <3>. QED
      BY <1>9, <3>2
  <2>2. CASE t = n
    <3>1. item.kind \in Open
      BY <1>3, <2>2
    <3>2. Len(st[i]) + 1 \in 1..Len(st[i + 1]) /\ st[i + 1][Len(st[i]) + 1] = i + 1
      BY <1>2, <1>9, <3>1
    <3>. QED
      BY <1>5, <2>2, <3>2
  <2>. QED
    BY <1>0, <2>1, <2>2
<1>. QED
  BY <1>11, <1>12, <1>13, <1>14 DEF Tree, q, parent, depth, item

LEMMA TreeCloses ==
  ASSUME NEW text, NEW st, NEW max \in Nat, NEW i \in Nat, NEW p, Tree(text, st, max, i, p),
         text[i + 1].kind \in Close, CloseContainer(p, text[i + 1]).err = 0,
         st[i + 1] = StillOpen(text, st[i], i + 1)
  PROVE  Tree(text, st, max, i + 1, CloseContainer(p, text[i + 1]))
<1> DEFINE item == text[i + 1]
           q == CloseContainer(p, item)
           c == Home(p)
           toks == [p.toks EXCEPT ![c].closed = TRUE]
           n == Len(st[i])
           top == st[i][n]
<1>1. /\ p \in States /\ p.err = 0 /\ Len(p.toks) <= max /\ Len(p.toks) = Count(text, i)
      /\ GoodStack(text, st, i) /\ p.depth = Len(st[i])
      /\ Place(p.toks, p.parent) /\ Container(p.toks, p.parent) = TopToken(text, st[i])
      /\ Hanging(text, st, i, p.toks) /\ Unclosed(text, st, i, p.toks)
  BY DEF Tree, Standing
<1>2. /\ p.toks \in Seq(Toks) /\ Len(p.toks) \in Nat /\ p.depth \in Int /\ st[i] \in Seq(1..i) /\ n \in Nat
  BY <1>1, StateParts DEF GoodStack
<1>3. /\ c \in 1..Len(p.toks) /\ p.toks[c].type = IF item.kind = "}" THEN "{" ELSE "["
      /\ toks \in Seq(Toks) /\ Len(toks) = Len(p.toks) /\ Kept(p.toks, toks)
      /\ q = Moved(p, toks, p.toks[c].parent, p.depth - 1)
  BY <1>1, ContainerClosed
<1>0. \A t \in 1..Len(p.toks) : toks[t].closed = IF t = c THEN TRUE ELSE p.toks[t].closed
  BY <1>1, ContainerClosed
<1>. HIDE DEF toks, q
<1>4. c = TopToken(text, st[i]) /\ c # NoTok
  <2>1. c # NoTok
    <3>1. c \in 1..Len(p.toks) /\ Len(p.toks) \in Nat
      BY <1>2, <1>3
    <3>. HIDE DEF c
    <3>. QED
      BY <3>1 DEF NoTok
  <2>. QED
    BY <1>1, <2>1, HomeIsContainer
<1>5. st[i] # <<>> /\ n \in 1..n /\ n # 0 /\ c = Count(text, top) /\ top \in 1..i
  <2>1. st[i] # <<>> /\ c = Count(text, top)
    BY <1>4 DEF TopToken
  <2>. QED
    BY <1>2, <2>1
<1>6. /\ text[top].kind \in Open /\ st[top - 1] = SubSeq(st[i], 1, n - 1)
      /\ IsToken(text[top]) /\ text[top].kind = p.toks[c].type
      /\ Container(p.toks, p.toks[c].parent) = TopToken(text, st[top - 1])
  <2>1. text[top].kind \in Open /\ st[top - 1] = SubSeq(st[i], 1, n - 1)
    BY <1>1, <1>5 DEF GoodStack
  <2>2. IsToken(text[top])
    BY <2>1 DEF IsToken, Open, Close
  <2>. QED
    BY <1>1, <1>5, <2>1, <2>2 DEF Hanging
<1>7. st[i + 1] = SubSeq(st[i], 1, n - 1)
  <2>1. item.kind \notin Open /\ item.kind = IF text[top].kind = "{" THEN "}" ELSE "]"
    BY <1>3, <1>6 DEF Open, Close
  <2>2. st[i] # Broken
    BY <1>2, NotBroken
  <2>. QED
    BY <1>5, <2>1, <2>2 DEF StillOpen
<1>8. /\ GoodStack(text, st, i + 1) /\ Len(st[i + 1]) = n - 1
      /\ \A m \in 1..(n - 1) : st[i + 1][m] = st[i][m]
  <2>1. GoodStack(text, st, i) /\ st[i] # <<>> /\ st[i + 1] = SubSeq(st[i], 1, Len(st[i]) - 1)
    BY <1>1, <1>5, <1>7
  <2>2. /\ GoodStack(text, st, i + 1) /\ Len(st[i + 1]) = Len(st[i]) - 1
        /\ \A m \in 1..(Len(st[i]) - 1) : st[i + 1][m] = st[i][m]
    <3>1. i \in Nat
      OBVIOUS
    <3>. HIDE DEF n, c, top, item
    <3>. QED
      BY <2>1, <3>1, StackPopped, SMTT(30)
  <2>. QED
    BY <2>2
<1>9. /\ p.toks[c].parent \in Nat /\ p.depth - 1 \in Int /\ p.depth - 1 = n - 1
      /\ Place(p.toks, p.toks[c].parent)
  <2>1. p.toks[c].parent \in Nat
    BY <1>1, <1>3, StateParts
  <2>2. Place(p.toks, p.toks[c].parent)
    BY <1>1, <1>3 DEF Hanging
  <2>3. p.depth - 1 \in Int /\ p.depth - 1 = n - 1
    BY <1>1, <1>2
  <2>. QED
    BY <2>1, <2>2, <2>3
<1>10. Place(toks, p.toks[c].parent) /\ Container(toks, p.toks[c].parent) = TopToken(text, st[i + 1])
  <2>1. Len(p.toks) <= Len(toks)
    <3>1. Len(toks) = Len(p.toks) /\ Len(p.toks) \in Nat
      BY <1>2, <1>3
    <3>. QED
      BY <3>1
  <2>2. Container(toks, p.toks[c].parent) = Container(p.toks, p.toks[c].parent) /\ Place(toks, p.toks[c].parent)
    BY <1>2, <1>3, <1>9, <2>1, PlacesKept
  <2>. QED
    BY <1>6, <1>7, <2>2
<1>11. q \in States /\ q.toks = toks /\ q.parent = p.toks[c].parent /\ q.depth = n - 1 /\ q.err = 0
  <2>1. p \in States /\ p.err = 0 /\ toks \in Seq(Toks)
    BY <1>1, <1>3
  <2>. QED
    BY <1>3, <1>9, <2>1 DEF Moved, States
<1>12. ~ IsToken(item) /\ Count(text, i + 1) = Count(text, i)
  <2>1. ~ IsToken(item)
    BY DEF IsToken
  <2>. QED
    BY <1>1, <1>2, <2>1, CountGrows
<1>13. Standing(text, st, max, i + 1, q)
  <2>1. Len(toks) <= max /\ Len(toks) = Count(text, i + 1)
    BY <1>1, <1>3, <1>12
  <2>. QED
    BY <1>8, <1>10, <1>11, <2>1 DEF Standing
<1>14. Hanging(text, st, i + 1, toks)
  <2>1. Len(p.toks) <= Len(toks)
    <3>1. Len(toks) = Len(p.toks) /\ Len(p.toks) \in Nat
      BY <1>2, <1>3
    <3>. QED
      BY <3>1
  <2>2. /\ \A t \in 1..Len(p.toks) : Place(toks, toks[t].parent) /\ toks[t].parent < t
        /\ \A k \in 1..i : IsToken(text[k]) =>
              /\ toks[Count(text, k)].type = text[k].kind
              /\ Container(toks, toks[Count(text, k)].parent) = TopToken(text, st[k - 1])
    <3>1. p.toks \in Seq(Toks) /\ toks \in Seq(Toks) /\ Kept(p.toks, toks)
          /\ Len(p.toks) = Count(text, i) /\ Hanging(text, st, i, p.toks)
      BY <1>1, <1>2, <1>3
    <3>. HIDE DEF c
    <3>. QED
      BY <2>1, <3>1, HangingKept
  <2>3. \A k \in 1..(i + 1) : k \in 1..i \/ k = i + 1
    OBVIOUS
  <2>. QED
    BY <1>3, <1>12, <2>2, <2>3 DEF Hanging
<1>15. Unclosed(text, st, i + 1, toks)
  <2>. SUFFICES ASSUME NEW t \in 1..Len(p.toks), ~ toks[t].closed
                PROVE  \E m \in 1..Len(st[i + 1]) : t = Count(text, st[i + 1][m])
    BY <1>3 DEF Unclosed
  <2>1. t # c /\ ~ p.toks[t].closed
    BY <1>0
  <2>2. PICK m \in 1..n : t = Count(text, st[i][m])
    BY <1>1, <2>1 DEF Unclosed
  <2>3. m # n
    BY <1>5, <2>1, <2>2
  <2>4. m \in 1..(n - 1)
    BY <1>2, <2>3
  <2>. QED
    BY <1>8, <2>2, <2>4
<1>. QED
  BY <1>11, <1>13, <1>14, <1>15 DEF Tree, q, item

(* A comma ends what a key may still wait for; a colon says nothing.       *)
LEMMA TreeStays ==
  ASSUME NEW text, NEW st, NEW max \in Nat, NEW i \in Nat, NEW p, Tree(text, st, max, i, p),
         text[i + 1].kind \in {",", ":"}, st[i + 1] = StillOpen(text, st[i], i + 1),
         NEW q \in {p, PopKey(p)}
  PROVE  Tree(text, st, max, i + 1, q)
<1>1. /\ p \in States /\ p.err = 0 /\ Len(p.toks) <= max /\ Len(p.toks) = Count(text, i)
      /\ GoodStack(text, st, i) /\ p.depth = Len(st[i])
      /\ Place(p.toks, p.parent) /\ Container(p.toks, p.parent) = TopToken(text, st[i])
      /\ Hanging(text, st, i, p.toks) /\ Unclosed(text, st, i, p.toks)
  BY DEF Tree, Standing
<1>2. text[i + 1].kind \notin Open \cup Close /\ ~ IsToken(text[i + 1])
  BY DEF IsToken, Open, Close
<1>3. st[i + 1] = st[i]
  BY <1>2 DEF StillOpen
<1>4. Count(text, i + 1) = Count(text, i)
  BY <1>2, CountStays
<1>5. GoodStack(text, st, i + 1)
  BY <1>1, <1>3, StackStays
<1>6. /\ p.parent <= Len(p.toks) /\ Place(p.toks, Home(p)) /\ Container(p.toks, Home(p)) = TopToken(text, st[i])
  BY <1>1, HomeIsContainer
<1>7. /\ q \in States /\ q.toks = p.toks /\ q.depth = p.depth /\ q.err = 0
      /\ q.parent \in {p.parent, Home(p)}
  <2>1. PopKey(p) = Moved(p, p.toks, Home(p), p.depth) /\ Home(p) \in Nat /\ p.toks \in Seq(Toks) /\ p.depth \in Int
    BY <1>1, <1>6, KeyPopped, StateParts
  <2>2. LET r == Moved(p, p.toks, Home(p), p.depth)
        IN r \in States /\ r.toks = p.toks /\ r.depth = p.depth /\ r.err = 0 /\ r.parent = Home(p)
    BY <1>1, <2>1 DEF Moved, States
  <2>3. CASE q = p
    BY <1>1, <2>3
  <2>4. CASE q = PopKey(p)
    BY <2>1, <2>2, <2>4
  <2>. QED
    BY <2>3, <2>4
<1>8. Standing(text, st, max, i + 1, q)
  BY <1>1, <1>3, <1>4, <1>5, <1>6, <1>7 DEF Standing
<1>9. Hanging(text, st, i + 1, q.toks)
  <2>1. \A k \in 1..(i + 1) : k \in 1..i \/ k = i + 1
    BY OneMore
  <2>. QED
    BY <1>1, <1>2, <1>7, <2>1 DEF Hanging
<1>10. Unclosed(text, st, i + 1, q.toks)
  BY <1>1, <1>3, <1>7 DEF Unclosed
<1>. QED
  BY <1>8, <1>9, <1>10 DEF Tree

LEMMA TreeStep ==
  ASSUME NEW text \in Seq(Items), NEW st, NEW max \in Nat, NEW i \in 0..(Len(text) - 1), NEW p,
         Tree(text, st, max, i, p), st[i + 1] = StillOpen(text, st[i], i + 1),
         Step(p, text[i + 1], max).err = 0
  PROVE  Tree(text, st, max, i + 1, Step(p, text[i + 1], max))
<1>1. i \in Nat /\ i + 1 \in 1..Len(text) /\ text[i + 1] \in Items
  OBVIOUS
<1>2. p \in States /\ p.err = 0 /\ p.parent <= Len(p.toks)
  BY HomeIsContainer DEF Tree, Standing
<1>3. \/ /\ IsToken(text[i + 1]) /\ Len(p.toks) + 1 <= max
         /\ \E toks : /\ Grown(p, text[i + 1], toks)
                      /\ Step(p, text[i + 1], max) = Moved(p, toks, NewParent(p, text[i + 1]), NewDepth(p, text[i + 1]))
      \/ text[i + 1].kind \in Close /\ Step(p, text[i + 1], max) = CloseContainer(p, text[i + 1])
      \/ text[i + 1].kind = "," /\ Step(p, text[i + 1], max) = PopKey(p)
      \/ text[i + 1].kind = ":" /\ Step(p, text[i + 1], max) = p
  BY <1>1, <1>2, StepTaken
<1>4. ASSUME IsToken(text[i + 1]), Len(p.toks) + 1 <= max, NEW toks, Grown(p, text[i + 1], toks),
             Step(p, text[i + 1], max) = Moved(p, toks, NewParent(p, text[i + 1]), NewDepth(p, text[i + 1]))
      PROVE  Tree(text, st, max, i + 1, Step(p, text[i + 1], max))
  BY <1>1, <1>4, TreeGrows
<1>5. ASSUME text[i + 1].kind \in Close, Step(p, text[i + 1], max) = CloseContainer(p, text[i + 1])
      PROVE  Tree(text, st, max, i + 1, Step(p, text[i + 1], max))
  BY <1>1, <1>5, TreeCloses
<1>6. ASSUME text[i + 1].kind \in {",", ":"}, Step(p, text[i + 1], max) \in {p, PopKey(p)}
      PROVE  Tree(text, st, max, i + 1, Step(p, text[i + 1], max))
  BY <1>1, <1>6, TreeStays
<1>. QED
  BY <1>3, <1>4, <1>5, <1>6

(* The state of the parser in the loop.                                    *)
InLoop(p) == [parser |-> p]
Turned(s, item, max) == [s EXCEPT !.parser = Step(@, item, max)]

LEMMA TurnIsStep ==
  ASSUME NEW p, NEW item, NEW max
  PROVE  Turned(InLoop(p), item, max) = InLoop(Step(p, item, max)) /\ InLoop(p).parser = p
BY DEF Turned, InLoop

IsRun(g, text, max, n) ==
  g = [i \in 0..n |-> IF i = 0 THEN InLoop(Start) ELSE Turned(g[i - 1], text[i], max)]

LEMMA RunsExist ==
  ASSUME NEW text, NEW max, NEW n \in Nat
  PROVE  \E g : IsRun(g, text, max, n)
<1> DEFINE Solves(g, m) == IsRun(g, text, max, m)
           S == {m \in Nat : \E g : Solves(g, m)}
<1>1. 0 \in S
  <2> DEFINE g == [i \in 0..0 |-> InLoop(Start)]
  <2>1. Solves(g, 0)
    <3>1. \A i \in 0..0 : i = 0
      OBVIOUS
    <3>. QED
      BY <3>1 DEF IsRun
  <2>. QED
    BY <2>1
<1>2. ASSUME NEW m \in Nat, m \in S PROVE m + 1 \in S
  <2>1. PICK g : Solves(g, m)
    BY <1>2
  <2> DEFINE h == [i \in 0..(m + 1) |-> IF i <= m THEN g[i] ELSE Turned(g[m], text[m + 1], max)]
  <2>2. Solves(h, m + 1)
    BY <2>1 DEF IsRun
  <2>. HIDE DEF h, Solves
  <2>. QED
    BY <2>2
<1>. HIDE DEF S
<1>3. n \in S
  BY <1>1, <1>2, Induction
<1>. QED
  BY <1>3 DEF S

LEMMA StacksExist ==
  ASSUME NEW text, NEW n \in Nat
  PROVE  \E g : g = [i \in 0..n |-> IF i = 0 THEN <<>> ELSE StillOpen(text, g[i - 1], i)]
<1> DEFINE Solves(g, m) == g = [i \in 0..m |-> IF i = 0 THEN <<>> ELSE StillOpen(text, g[i - 1], i)]
           S == {m \in Nat : \E g : Solves(g, m)}
<1>1. 0 \in S
  <2> DEFINE g == [i \in 0..0 |-> <<>>]
  <2>1. Solves(g, 0)
    <3>1. \A i \in 0..0 : i = 0
      OBVIOUS
    <3>. QED
      BY <3>1
  <2>. QED
    BY <2>1
<1>2. ASSUME NEW m \in Nat, m \in S PROVE m + 1 \in S
  <2>1. PICK g : Solves(g, m)
    BY <1>2
  <2> DEFINE h == [i \in 0..(m + 1) |-> IF i <= m THEN g[i] ELSE StillOpen(text, g[m], m + 1)]
  <2>2. Solves(h, m + 1)
    BY <2>1
  <2>. HIDE DEF h, Solves
  <2>. QED
    BY <2>2
<1>. HIDE DEF S
<1>3. n \in S
  BY <1>1, <1>2, Induction
<1>. QED
  BY <1>3 DEF S

LEMMA OpenedUnfolds ==
  ASSUME NEW text \in Seq(Items)
  PROVE  /\ Opened(text)[0] = <<>>
         /\ \A i \in 0..(Len(text) - 1) : Opened(text)[i + 1] = StillOpen(text, Opened(text)[i], i + 1)
<1> DEFINE n == Len(text)
           stack[i \in 0..n] == IF i = 0 THEN <<>> ELSE StillOpen(text, stack[i - 1], i)
<1>1. n \in Nat
  OBVIOUS
<1>2. Opened(text) = stack
  BY DEF Opened
<1>3. stack = [i \in 0..n |-> IF i = 0 THEN <<>> ELSE StillOpen(text, stack[i - 1], i)]
  <2>. HIDE DEF n
  <2>. QED
    BY <1>1, StacksExist
<1>. HIDE DEF stack, n
<1>4. stack[0] = <<>> /\ \A i \in 0..(n - 1) : i + 1 \in 0..n /\ i + 1 # 0 /\ (i + 1) - 1 = i
  BY <1>1, <1>3
<1>5. ASSUME NEW i \in 0..(n - 1) PROVE stack[i + 1] = StillOpen(text, stack[i], i + 1)
  BY <1>3, <1>4
<1>. QED
  BY <1>2, <1>4, <1>5 DEF n

LEMMA TreeBegins ==
  ASSUME NEW text, NEW st, NEW max \in Nat, st[0] = <<>>
  PROVE  Tree(text, st, max, 0, Start)
<1>1. Count(text, 0) = 0
  BY CountGrows
<1>2. Start \in States /\ Start.toks = <<>> /\ Start.parent = NoTok /\ Start.depth = 0 /\ Start.err = 0
  BY DEF Start, States, NoTok
<1>3. GoodStack(text, st, 0) /\ Len(st[0]) = 0
  BY DEF GoodStack
<1>4. Standing(text, st, max, 0, Start)
  BY <1>1, <1>2, <1>3 DEF Standing, Place, Container, TopToken
<1>5. Hanging(text, st, 0, <<>>) /\ Unclosed(text, st, 0, <<>>)
  BY DEF Hanging, Unclosed
<1>. QED
  BY <1>2, <1>4, <1>5 DEF Tree

LEMMA TextIsTree ==
  ASSUME NEW text \in Seq(Items), NEW max \in Nat
  PROVE  TreeOf(text, JsonParse(text, max), max)
<1> DEFINE n == Len(text)
           st == Opened(text)
           run[i \in 0..n] ==
               IF i = 0 THEN [parser |-> Start] ELSE [run[i - 1] EXCEPT !.parser = Step(@, text[i], max)]
           end == run[n].parser
           parsed == JsonParse(text, max)
<1>1. n \in Nat
  OBVIOUS
<1>2. run = [i \in 0..n |-> IF i = 0 THEN InLoop(Start) ELSE Turned(run[i - 1], text[i], max)]
  <2>1. \E g : IsRun(g, text, max, n)
    BY <1>1, RunsExist
  <2>. QED
    BY <2>1 DEF IsRun, InLoop, Turned
<1>3. parsed = [err  |-> CASE end.err # 0                    -> end.err
                           [] end.err = 0 /\ end.depth # 0   -> Truncated
                           [] end.err = 0 /\ end.depth = 0 /\ end.toks = <<>> -> Malformed
                           [] OTHER -> 0,
                toks |-> end.toks]
  BY DEF JsonParse
<1>4. st[0] = <<>> /\ \A i \in 0..(n - 1) : st[i + 1] = StillOpen(text, st[i], i + 1)
  BY OpenedUnfolds
<1>. HIDE DEF run, st
<1>5. run[0] = InLoop(Start) /\ \A i \in 0..(n - 1) : run[i + 1] = Turned(run[i], text[i + 1], max)
  <2>. HIDE DEF n
  <2>1. \A i \in 0..(n - 1) : i + 1 \in 0..n /\ i + 1 # 0 /\ (i + 1) - 1 = i
    BY <1>1
  <2>2. ASSUME NEW i \in 0..(n - 1) PROVE run[i + 1] = Turned(run[i], text[i + 1], max)
    BY <1>2, <2>1
  <2>. QED
    BY <1>1, <1>2, <2>2
<1>6. end.err = 0 => Tree(text, st, max, n, end)
  <2> DEFINE T == {i \in 0..n : \E p : run[i] = InLoop(p) /\ (p.err = 0 => Tree(text, st, max, i, p))}
  <2>1. 0 \in T
    BY <1>1, <1>4, <1>5, TreeBegins
  <2>2. ASSUME NEW i \in 0..(n - 1), i \in T PROVE i + 1 \in T
    <3>1. i + 1 \in 0..n /\ i \in Nat /\ max \in Nat
      BY <1>1
    <3>2. PICK p : run[i] = InLoop(p) /\ (p.err = 0 => Tree(text, st, max, i, p))
      BY <2>2
    <3> DEFINE q == Step(p, text[i + 1], max)
    <3>3. run[i + 1] = InLoop(q)
      BY <1>5, <3>2, TurnIsStep
    <3>4. ASSUME q.err = 0 PROVE Tree(text, st, max, i + 1, q)
      <4>1. p.err = 0
        BY <3>4 DEF Step
      <4>2. Tree(text, st, max, i, p)
        BY <3>2, <4>1
      <4>3. st[i + 1] = StillOpen(text, st[i], i + 1)
        BY <1>4
      <4>. QED
        BY <3>4, <4>2, <4>3, TreeStep
    <3>. HIDE DEF q
    <3>. QED
      BY <3>1, <3>3, <3>4
  <2>3. n \in T
    <3>. HIDE DEF T, n
    <3>1. \A i \in 0..(n - 1) : i \in T => i + 1 \in T
      BY <2>2
    <3>2. 0..n \subseteq T
      BY <1>1, <2>1, <3>1, InductionUpTo
    <3>. QED
      BY <1>1, <3>2
  <2>4. PICK p : run[n] = InLoop(p) /\ (p.err = 0 => Tree(text, st, max, n, p))
    BY <2>3
  <2>5. end = p
    BY <2>4, TurnIsStep
  <2>. HIDE DEF end, n
  <2>. QED
    BY <2>4, <2>5
<1>. SUFFICES ASSUME parsed.err = 0
              PROVE  /\ st[n] = <<>> /\ Len(end.toks) = Count(text, n) /\ Len(end.toks) \in 1..max
                     /\ \A t \in DOMAIN end.toks : end.toks[t].closed /\ end.toks[t].parent < t
                     /\ \A i \in DOMAIN text : IsToken(text[i]) =>
                          /\ end.toks[Count(text, i)].type = text[i].kind
                          /\ Container(end.toks, end.toks[Count(text, i)].parent) = TopToken(text, st[i - 1])
  <2>1. parsed.toks = end.toks
    BY <1>3
  <2>. HIDE DEF parsed, end
  <2>. QED
    BY <2>1 DEF TreeOf, parsed, st
<1>7. end.err = 0 /\ end.depth = 0 /\ end.toks # <<>>
  <2>. HIDE DEF end
  <2>. QED
    BY <1>3 DEF Truncated, Malformed
<1>8. Tree(text, st, max, n, end)
  BY <1>6, <1>7
<1>. HIDE DEF end, parsed
<1>9. /\ end \in States /\ Len(end.toks) <= max /\ Len(end.toks) = Count(text, n)
      /\ st[n] \in Seq(1..n) /\ Len(st[n]) = 0
      /\ Hanging(text, st, n, end.toks) /\ Unclosed(text, st, n, end.toks)
  BY <1>7, <1>8 DEF Tree, Standing, GoodStack
<1>10. st[n] = <<>>
  BY <1>9
<1>11. Len(end.toks) \in 1..max /\ DOMAIN end.toks = 1..Len(end.toks)
  <2>1. end.toks \in Seq(Toks)
    BY <1>9, StateParts
  <2>. QED
    BY <1>7, <1>9, <2>1
<1>12. \A t \in 1..Len(end.toks) : end.toks[t].closed /\ end.toks[t].parent < t
  BY <1>9 DEF Hanging, Unclosed
<1>. QED
  BY <1>9, <1>10, <1>11, <1>12 DEF Hanging

(***************************************************************************)
(* Where a string's text can be cut: the property's own reading.           *)
(***************************************************************************)

(* What an escape may be completed with belongs to a text, too.            *)
Chars == STRING \cup {"hex", "n", "u"}

Unit(t, k, n) == n - k \in {1, 2, 6} /\ IsStringUnit(SubSeq(t, k + 1, n))
IsBegun(g, t, n) == g = [i \in 0..n |-> i = 0 \/ \E k \in 0..(i - 1) : i - k \in {1, 2, 6} /\ g[k] /\ IsStringUnit(SubSeq(t, k + 1, i))]
Begun(t) ==
  LET begun[n \in 0..Len(t)] ==
          n = 0 \/ \E k \in 0..(n - 1) : n - k \in {1, 2, 6} /\ begun[k] /\ IsStringUnit(SubSeq(t, k + 1, n))
  IN begun
Cuts(t) == {n \in 0..Len(t) : Begun(t)[n]}

LEMMA BegunExists ==
  ASSUME NEW t, NEW n \in Nat
  PROVE  \E g : IsBegun(g, t, n)
<1> DEFINE S == {m \in Nat : \E g : IsBegun(g, t, m)}
<1>1. 0 \in S
  <2> DEFINE g == [i \in 0..0 |-> TRUE]
  <2>1. IsBegun(g, t, 0)
    <3>1. \A i \in 0..0 : i = 0
      OBVIOUS
    <3>. QED
      BY <3>1 DEF IsBegun
  <2>. QED
    BY <2>1
<1>2. ASSUME NEW m \in Nat, m \in S PROVE m + 1 \in S
  <2>1. PICK g : IsBegun(g, t, m)
    BY <1>2
  <2> DEFINE More(i) == \E k \in 0..(i - 1) : i - k \in {1, 2, 6} /\ g[k] /\ IsStringUnit(SubSeq(t, k + 1, i))
             h == [i \in 0..(m + 1) |-> IF i <= m THEN g[i] ELSE More(m + 1)]
  <2>2. \A i \in 0..m : h[i] = g[i]
    OBVIOUS
  <2>3. \A i \in 0..m : g[i] = (i = 0 \/ More(i))
    BY <2>1 DEF IsBegun
  <2>4. \A i \in 0..(m + 1) : h[i] = (i = 0 \/ More(i))
    <3>1. m + 1 \in 0..(m + 1) /\ ~ (m + 1 <= m) /\ m + 1 # 0
      OBVIOUS
    <3>2. h[m + 1] = More(m + 1)
      BY <3>1
    <3>3. \A i \in 0..(m + 1) : i \in 0..m \/ i = m + 1
      OBVIOUS
    <3>4. ASSUME NEW i \in 0..m PROVE h[i] = (i = 0 \/ More(i))
      <4>1. h[i] = g[i]
        BY <2>2
      <4>. HIDE DEF More, h
      <4>. QED
        BY <2>3, <4>1
    <3>5. More(m + 1) = (m + 1 = 0 \/ More(m + 1))
      BY <3>1
    <3>. HIDE DEF More, h
    <3>6. h[m + 1] = (m + 1 = 0 \/ More(m + 1))
      BY <3>2, <3>5
    <3>. QED
      BY <3>3, <3>4, <3>6, Zenon
  <2>5. \A i \in 0..(m + 1) : \A k \in 0..(i - 1) : h[k] = g[k]
    <3>1. \A i \in 0..(m + 1) : \A k \in 0..(i - 1) : k \in 0..m
      OBVIOUS
    <3>. HIDE DEF h
    <3>. QED
      BY <2>2, <3>1
  <2>6. IsBegun(h, t, m + 1)
    <3>1. h = [i \in 0..(m + 1) |-> h[i]]
      OBVIOUS
    <3>. HIDE DEF h
    <3>2. \A i \in 0..(m + 1) : h[i] = (i = 0 \/ \E k \in 0..(i - 1) : i - k \in {1, 2, 6} /\ h[k] /\ IsStringUnit(SubSeq(t, k + 1, i)))
      BY <2>4, <2>5
    <3>. QED
      BY <3>1, <3>2 DEF IsBegun
  <2>. HIDE DEF h
  <2>. QED
    BY <2>6
<1>. HIDE DEF S
<1>3. n \in S
  BY <1>1, <1>2, Induction
<1>. QED
  BY <1>3 DEF S

LEMMA CutsUnfold ==
  ASSUME NEW t, Len(t) \in Nat
  PROVE  /\ 0 \in Cuts(t) /\ Cuts(t) \subseteq 0..Len(t)
         /\ \A n \in 1..Len(t) : n \in Cuts(t) <=> \E k \in 0..(n - 1) : k \in Cuts(t) /\ Unit(t, k, n)
         /\ IsStringText(t) <=> Len(t) \in Cuts(t)
<1> DEFINE len == Len(t)
           begun[n \in 0..len] ==
             n = 0 \/ \E k \in 0..(n - 1) : n - k \in {1, 2, 6} /\ begun[k] /\ IsStringUnit(SubSeq(t, k + 1, n))
<1>1. begun = [i \in 0..len |-> i = 0 \/ \E k \in 0..(i - 1) : i - k \in {1, 2, 6} /\ begun[k] /\ IsStringUnit(SubSeq(t, k + 1, i))]
  <2>1. \E g : IsBegun(g, t, len)
    BY BegunExists
  <2>. HIDE DEF len
  <2>. QED
    BY <2>1 DEF IsBegun
<1>2. Begun(t) = begun
  BY DEF Begun
<1>3. IsStringText(t) <=> begun[len]
  BY DEF IsStringText
<1>. HIDE DEF begun
<1>4. \A n \in 0..len : begun[n] <=> (n = 0 \/ \E k \in 0..(n - 1) : begun[k] /\ Unit(t, k, n))
  BY <1>1 DEF Unit
<1>5. \A n \in 0..len : n \in Cuts(t) <=> begun[n]
  BY <1>2 DEF Cuts
<1>6. \A n \in 0..len : \A k \in 0..(n - 1) : k \in 0..len
  OBVIOUS
<1>. HIDE DEF len
<1>. QED
  BY <1>3, <1>4, <1>5, <1>6 DEF Cuts, len

UnitAt(t, k, n) ==
  \/ n = k + 1 /\ t[k + 1] \notin {"quote", "backslash"} \cup ControlCharacters
  \/ n = k + 2 /\ t[k + 1] = "backslash" /\ t[k + 2] \in Escapable
  \/ n = k + 6 /\ t[k + 1] = "backslash" /\ t[k + 2] = "u" /\ \A j \in (k + 3)..(k + 6) : t[j] \in HexDigits

LEMMA UnitIs ==
  ASSUME NEW t \in Seq(Chars), NEW k \in 0..Len(t), NEW n \in 0..Len(t), k < n
  PROVE  Unit(t, k, n) <=> UnitAt(t, k, n)
<1> DEFINE u == SubSeq(t, k + 1, n)
<1>1. Len(u) = n - k /\ \A i \in 1..(n - k) : u[i] = t[k + i]
  OBVIOUS
<1>. HIDE DEF u
<1>2. CASE n - k = 1
  BY <1>1, <1>2 DEF Unit, UnitAt, IsStringUnit, u
<1>3. CASE n - k = 2
  BY <1>1, <1>3 DEF Unit, UnitAt, IsStringUnit, u
<1>4. CASE n - k = 6
  <2>1. \A j \in 3..6 : u[j] = t[k + j]
    BY <1>1, <1>4
  <2>2. (\A j \in 3..6 : u[j] \in HexDigits) <=> \A j \in (k + 3)..(k + 6) : t[j] \in HexDigits
    <3>1. ASSUME \A j \in 3..6 : u[j] \in HexDigits, NEW j \in (k + 3)..(k + 6) PROVE t[j] \in HexDigits
      <4>1. j - k \in 3..6 /\ k + (j - k) = j
        OBVIOUS
      <4>. QED
        BY <2>1, <3>1, <4>1
    <3>. QED
      BY <2>1, <3>1
  <2>3. u[1] = t[k + 1] /\ u[2] = t[k + 2]
    BY <1>1, <1>4
  <2>4. Unit(t, k, n) <=> IsStringUnit(u)
    BY <1>4 DEF Unit, u
  <2>5. IsStringUnit(u) <=> u[1] = "backslash" /\ u[2] = "u" /\ \A j \in 3..6 : u[j] \in HexDigits
    BY <1>1, <1>4 DEF IsStringUnit
  <2>6. UnitAt(t, k, n) <=> t[k + 1] = "backslash" /\ t[k + 2] = "u" /\ \A j \in (k + 3)..(k + 6) : t[j] \in HexDigits
    BY <1>4 DEF UnitAt
  <2>. QED
    BY <2>2, <2>3, <2>4, <2>5, <2>6
<1>5. CASE n - k \notin {1, 2, 6}
  BY <1>5 DEF Unit, UnitAt
<1>. QED
  BY <1>2, <1>3, <1>4, <1>5

(* A unit is not the beginning of another, and no unit begins with a quote.*)
LEMMA UnitsDiffer ==
  ASSUME NEW t \in Seq(Chars), NEW k \in 0..Len(t), NEW m \in 0..Len(t), NEW n \in 0..Len(t), k < m, k < n,
         Unit(t, k, m), Unit(t, k, n)
  PROVE  m = n /\ t[k + 1] # "quote"
<1>1. UnitAt(t, k, m) /\ UnitAt(t, k, n)
  BY UnitIs
<1>. QED
  BY <1>1 DEF UnitAt, Escapable

(* Two texts are cut alike as far as they agree.                           *)
LEMMA SameCuts ==
  ASSUME NEW t \in Seq(Chars), NEW u \in Seq(Chars), NEW m \in Nat, m <= Len(t), m <= Len(u),
         \A i \in 1..m : t[i] = u[i]
  PROVE  \A n \in 0..m : n \in Cuts(t) <=> n \in Cuts(u)
<1> DEFINE Alike(n) == n \in Cuts(t) <=> n \in Cuts(u)
           S == {n \in Nat : n <= m => \A i \in 0..n : Alike(i)}
<1>0. Len(t) \in Nat /\ Len(u) \in Nat
  OBVIOUS
<1>1. 0 \in S
  <2>1. Alike(0) /\ \A i \in 0..0 : i = 0
    BY <1>0, CutsUnfold
  <2>. HIDE DEF Alike
  <2>. QED
    BY <2>1
<1>2. ASSUME NEW n \in Nat, n \in S PROVE n + 1 \in S
  <2>. SUFFICES ASSUME n + 1 <= m PROVE Alike(n + 1)
    <3>1. \A i \in 0..(n + 1) : i = n + 1 \/ i \in 0..n
      OBVIOUS
    <3>. HIDE DEF Alike
    <3>. QED
      BY <1>2, <3>1
  <2>1. \A i \in 0..n : Alike(i)
    BY <1>2
  <2>2. \A k \in 0..n : Unit(t, k, n + 1) <=> Unit(u, k, n + 1)
    <3>. SUFFICES ASSUME NEW k \in 0..n PROVE Unit(t, k, n + 1) <=> Unit(u, k, n + 1)
      OBVIOUS
    <3>1. SubSeq(t, k + 1, n + 1) = SubSeq(u, k + 1, n + 1)
      BY <1>0
    <3>. QED
      BY <3>1 DEF Unit
  <2>3. n + 1 \in 1..Len(t) /\ n + 1 \in 1..Len(u) /\ 0..((n + 1) - 1) = 0..n
    BY <1>0
  <2>4. n + 1 \in Cuts(t) <=> \E k \in 0..n : k \in Cuts(t) /\ Unit(t, k, n + 1)
    BY <1>0, <2>3, CutsUnfold
  <2>5. n + 1 \in Cuts(u) <=> \E k \in 0..n : k \in Cuts(u) /\ Unit(u, k, n + 1)
    BY <1>0, <2>3, CutsUnfold
  <2>. QED
    BY <2>1, <2>2, <2>4, <2>5
<1>. HIDE DEF S
<1>3. m \in S
  BY <1>1, <1>2, Induction
<1>. QED
  BY <1>3 DEF S

(***************************************************************************)
(* The scanner has come to k: the text can be cut there, whatever follows, *)
(* nothing straddles the cut, and no quote before it ends the string.      *)
(***************************************************************************)
Reached(t, k) ==
  /\ k \in Cuts(t)
  /\ \A n \in Cuts(t) : n > k => \E j \in Cuts(t) : k <= j /\ j < n /\ Unit(t, j, n)
  /\ \A n \in Cuts(t) : n < k => t[n + 1] # "quote"

LEMMA ReachedStart ==
  ASSUME NEW t \in Seq(Chars)
  PROVE  Reached(t, 0)
<1>0. Len(t) \in Nat
  OBVIOUS
<1>1. 0 \in Cuts(t) /\ Cuts(t) \subseteq 0..Len(t)
  BY <1>0, CutsUnfold
<1>2. ASSUME NEW n \in Cuts(t), n > 0 PROVE \E j \in Cuts(t) : 0 <= j /\ j < n /\ Unit(t, j, n)
  <2>1. n \in 1..Len(t)
    BY <1>0, <1>1, <1>2
  <2>2. PICK k \in 0..(n - 1) : k \in Cuts(t) /\ Unit(t, k, n)
    BY <1>0, <1>2, <2>1, CutsUnfold
  <2>. QED
    BY <2>1, <2>2
<1>. QED
  BY <1>0, <1>1, <1>2 DEF Reached

(* The first cut after k is the end of a unit that begins there.           *)
LEMMA FirstCutAfter ==
  ASSUME NEW t \in Seq(Chars), NEW k \in 0..Len(t), Reached(t, k), NEW n \in Cuts(t), n > k
  PROVE  \E m \in Cuts(t) : k < m /\ m <= n /\ Unit(t, k, m)
<1>0. Len(t) \in Nat /\ Cuts(t) \subseteq 0..Len(t)
  BY CutsUnfold
<1> DEFINE S == {i \in Cuts(t) : i > k}
<1>1. n \in S /\ S \subseteq Nat
  BY <1>0
<1>2. PICK m \in S : \A i \in S : m <= i
  BY <1>1, LeastNumber
<1>3. PICK j \in Cuts(t) : k <= j /\ j < m /\ Unit(t, j, m)
  BY <1>2 DEF Reached
<1>4. j = k
  <2>1. j \notin S
    BY <1>0, <1>2, <1>3
  <2>. QED
    BY <1>0, <1>3, <2>1
<1>. QED
  BY <1>1, <1>2, <1>3, <1>4

LEMMA ReachedNext ==
  ASSUME NEW t \in Seq(Chars), NEW k \in 0..Len(t), Reached(t, k), NEW m \in 0..Len(t), k < m, Unit(t, k, m)
  PROVE  Reached(t, m)
<1>0. Len(t) \in Nat /\ Cuts(t) \subseteq 0..Len(t) /\ k \in Cuts(t)
  BY CutsUnfold DEF Reached
<1>1. m \in Cuts(t)
  <2>1. m \in 1..Len(t) /\ k \in 0..(m - 1)
    BY <1>0
  <2>. QED
    BY <1>0, <2>1, CutsUnfold
<1>2. \A i \in Cuts(t) : i <= k \/ i >= m
  <2>. SUFFICES ASSUME NEW i \in Cuts(t), k < i, i < m PROVE FALSE
    BY <1>0
  <2>1. PICK j \in Cuts(t) : k < j /\ j <= i /\ Unit(t, k, j)
    BY <1>0, FirstCutAfter
  <2>2. j = m
    BY <1>0, <2>1, UnitsDiffer
  <2>. QED
    BY <1>0, <2>1, <2>2
<1>3. ASSUME NEW n \in Cuts(t), n > m PROVE \E j \in Cuts(t) : m <= j /\ j < n /\ Unit(t, j, n)
  <2>1. n > k
    BY <1>0, <1>3
  <2>2. PICK j \in Cuts(t) : k <= j /\ j < n /\ Unit(t, j, n)
    BY <2>1 DEF Reached
  <2>3. j # k
    <3>. SUFFICES ASSUME j = k PROVE FALSE
      OBVIOUS
    <3>1. m = n
      BY <1>0, <2>1, <2>2, UnitsDiffer
    <3>. QED
      BY <1>0, <1>3, <3>1
  <2>. QED
    BY <1>0, <1>2, <2>2, <2>3
<1>4. t[k + 1] # "quote"
  BY UnitsDiffer
<1>5. ASSUME NEW n \in Cuts(t), n < m PROVE t[n + 1] # "quote"
  <2>1. n <= k
    BY <1>0, <1>2, <1>5
  <2>. QED
    BY <1>0, <1>4, <2>1 DEF Reached
<1>. QED
  BY <1>1, <1>3, <1>5 DEF Reached

(* Where no unit begins, no cut follows.                                   *)
LEMMA ReachedDead ==
  ASSUME NEW t \in Seq(Chars), NEW k \in 0..Len(t), Reached(t, k), \A m \in (k + 1)..Len(t) : ~ UnitAt(t, k, m)
  PROVE  \A n \in Cuts(t) : n <= k
<1>0. Len(t) \in Nat /\ Cuts(t) \subseteq 0..Len(t)
  BY CutsUnfold
<1>. SUFFICES ASSUME NEW n \in Cuts(t), n > k PROVE FALSE
  BY <1>0
<1>1. PICK m \in Cuts(t) : k < m /\ m <= n /\ Unit(t, k, m)
  BY FirstCutAfter
<1>2. m \in (k + 1)..Len(t) /\ m \in 0..Len(t)
  BY <1>0, <1>1
<1>. QED
  BY <1>1, <1>2, UnitIs

(***************************************************************************)
(* The scanner of a string.                                                *)
(***************************************************************************)
ScanBody(s, g, p) ==
  CASE p > Len(s)                                -> Ends(Len(s), "unended")
    [] p <= Len(s) /\ s[p] = "quote"             -> Ends(p, "string")
    [] p <= Len(s) /\ s[p] \in ControlCharacters -> Ends(p, "illformed")
    [] p <= Len(s) /\ s[p] = "backslash"         ->
         CASE p = Len(s)                         -> Ends(p, "unended")
           [] p < Len(s) /\ s[p + 1] \in Escapable -> g[p + 2]
           [] p < Len(s) /\ s[p + 1] = "u"       ->
                LET k == FirstNoHex(s, p + 1)
                IN IF k = 5 THEN g[p + 6]
                   ELSE Ends(Len(s), IF p + 1 + k > Len(s) THEN "unended" ELSE "illformed")
           [] OTHER                              -> Ends(p, "illformed")
    [] OTHER                                     -> g[p + 1]
IsScan(g, s, from) == g = [p \in from..(Len(s) + 1) |-> ScanBody(s, g, p)]

LEMMA NoHexFound ==
  ASSUME NEW s \in Seq(Chars), NEW p \in Nat
  PROVE  /\ FirstNoHex(s, p) \in 1..5
         /\ \A j \in 1..(FirstNoHex(s, p) - 1) : p + j <= Len(s) /\ s[p + j] \in HexDigits
         /\ FirstNoHex(s, p) < 5 => p + FirstNoHex(s, p) > Len(s) \/ s[p + FirstNoHex(s, p)] \notin HexDigits
<1> DEFINE S == {k \in 1..4 : p + k > Len(s) \/ s[p + k] \notin HexDigits} \cup {5}
<1>1. S \subseteq Nat /\ 5 \in S /\ S \subseteq 1..5
  OBVIOUS
<1>. HIDE DEF S
<1>2. PICK m \in S : \A i \in S : m <= i
  BY <1>1, LeastNumber
<1>3. FirstNoHex(s, p) = CHOOSE x \in S : \A y \in S : x <= y
  BY DEF FirstNoHex, Min, S
<1> DEFINE k == FirstNoHex(s, p)
<1>4. k \in S /\ \A i \in S : k <= i
  BY <1>2, <1>3
<1>. HIDE DEF k
<1>5. \A j \in 1..(k - 1) : j \notin S /\ j \in 1..4
  BY <1>1, <1>4
<1>6. \A j \in 1..(k - 1) : p + j <= Len(s) /\ s[p + j] \in HexDigits
  BY <1>5 DEF S
<1>7. k < 5 => p + k > Len(s) \/ s[p + k] \notin HexDigits
  BY <1>4 DEF S
<1>. QED
  BY <1>1, <1>4, <1>6, <1>7 DEF k

LEMMA BodyLooksAhead ==
  ASSUME NEW s \in Seq(Chars), NEW p \in 1..(Len(s) + 1), NEW g, NEW h,
         \A i \in (p + 1)..(Len(s) + 1) : g[i] = h[i]
  PROVE  ScanBody(s, g, p) = ScanBody(s, h, p)
<1>0. Len(s) \in Nat
  OBVIOUS
<1>1. p < Len(s) => g[p + 2] = h[p + 2]
  BY <1>0
<1>2. p <= Len(s) => g[p + 1] = h[p + 1]
  BY <1>0
<1>3. FirstNoHex(s, p + 1) = 5 => g[p + 6] = h[p + 6]
  <2>. SUFFICES ASSUME FirstNoHex(s, p + 1) = 5 PROVE g[p + 6] = h[p + 6]
    OBVIOUS
  <2>1. p + 1 \in Nat /\ 4 \in 1..(5 - 1)
    OBVIOUS
  <2>2. (p + 1) + 4 <= Len(s)
    BY <2>1, NoHexFound
  <2>. QED
    BY <1>0, <2>2
<1>. QED
  BY <1>1, <1>2, <1>3 DEF ScanBody

LEMMA ScanExists ==
  ASSUME NEW s \in Seq(Chars), NEW from \in 1..(Len(s) + 1)
  PROVE  \E g : IsScan(g, s, from)
<1> DEFINE n == Len(s) + 1
           T == {p \in 1..n : \E g : IsScan(g, s, p)}
<1>1. n \in Nat
  OBVIOUS
<1>2. ASSUME NEW p \in 1..n, \A q \in (p + 1)..n : q \in T PROVE p \in T
  <2>1. \E f : \A q \in (p + 1)..n : f[q] = ScanBody(s, f, q)
    <3>1. CASE p = n
      BY <1>1, <3>1
    <3>2. CASE p # n
      <4>1. p + 1 \in (p + 1)..n
        BY <1>1, <3>2
      <4>2. PICK g : IsScan(g, s, p + 1)
        BY <1>2, <4>1
      <4>. QED
        BY <4>2 DEF IsScan
    <3>. QED
      BY <3>1, <3>2
  <2>2. PICK f : \A q \in (p + 1)..n : f[q] = ScanBody(s, f, q)
    BY <2>1
  <2> DEFINE h == [q \in p..n |-> IF q = p THEN ScanBody(s, f, p) ELSE f[q]]
  <2>3. \A i \in (p + 1)..n : h[i] = f[i]
    OBVIOUS
  <2>4. \A q \in p..n : ScanBody(s, h, q) = ScanBody(s, f, q)
    <3>. SUFFICES ASSUME NEW q \in p..n PROVE ScanBody(s, h, q) = ScanBody(s, f, q)
      OBVIOUS
    <3>1. \A i \in (q + 1)..n : h[i] = f[i]
      BY <2>3
    <3>2. q \in 1..n
      OBVIOUS
    <3>. HIDE DEF h
    <3>. QED
      BY <3>1, <3>2, BodyLooksAhead
  <2>5. h = [q \in p..n |-> ScanBody(s, f, q)]
    BY <2>2
  <2>. HIDE DEF h
  <2>6. h = [q \in p..n |-> ScanBody(s, h, q)]
    BY <2>4, <2>5
  <2>. QED
    BY <2>6 DEF IsScan
<1>3. 1..n \subseteq T
  <2>. HIDE DEF T, n
  <2>1. 1 \in Nat
    OBVIOUS
  <2>. QED
    BY <1>1, <1>2, <2>1, InductionDown
<1>. QED
  BY <1>3

(* What the scanner may say of a string's text r and what follows it.      *)
Said(r, from, e) ==
  /\ e.kind \in {"string", "unended", "illformed"}
  /\ IF e.kind = "string"
     THEN e.end - from \in 0..(Len(r) - 1) /\ r[e.end - from + 1] = "quote" /\ e.end - from \in Cuts(r) /\ e.end \in Int
     ELSE /\ \A k \in 1..Len(r) : r[k] = "quote" => k - 1 \notin Cuts(r)
          /\ CouldEnd(r) <=> e.kind = "unended"
Extends(t, r) == t \in Seq(Chars) /\ Len(r) <= Len(t) /\ \A i \in 1..Len(r) : t[i] = r[i]

LEMMA MoreExtends ==
  ASSUME NEW r \in Seq(Chars), NEW m \in Seq(Chars)
  PROVE  /\ Extends(r \o m, r) /\ Len(r \o m) = Len(r) + Len(m)
         /\ \A i \in 1..Len(m) : (r \o m)[Len(r) + i] = m[i]
BY DEF Extends

More == {<<>>, <<"n">>, <<"u">> \o Hex(4)} \cup {Hex(n) : n \in 1..4}

LEMMA MoreIs ==
  /\ More \subseteq Seq(Chars)
  /\ \A n \in 1..4 : Hex(n) \in Seq(Chars) /\ Len(Hex(n)) = n /\ \A i \in 1..n : Hex(n)[i] = "hex"
<1>1. \A n \in 1..4 : Hex(n) \in Seq(Chars) /\ Len(Hex(n)) = n /\ \A i \in 1..n : Hex(n)[i] = "hex"
  BY DEF Hex, Chars
<1>2. <<>> \in Seq(Chars) /\ <<"n">> \in Seq(Chars) /\ <<"u">> \in Seq(Chars)
  BY DEF Chars
<1>3. <<"u">> \o Hex(4) \in Seq(Chars)
  BY <1>1, <1>2
<1>. QED
  BY <1>1, <1>2, <1>3 DEF More

LEMMA EndsIfUnit ==
  ASSUME NEW r \in Seq(Chars), NEW k \in 0..Len(r), k \in Cuts(r), NEW m \in More, Len(m) > 0,
         UnitAt(r \o m, k, Len(r) + Len(m))
  PROVE  CouldEnd(r)
<1> DEFINE t == r \o m
<1>1. m \in Seq(Chars) /\ Len(m) \in Nat /\ Len(r) \in Nat /\ t \in Seq(Chars) /\ Len(t) = Len(r) + Len(m)
  BY MoreIs
<1>2. Extends(t, r)
  BY <1>1, MoreExtends
<1>3. UnitAt(t, k, Len(t))
  BY <1>1
<1>. HIDE DEF t
<1>4. Unit(t, k, Len(t))
  <2>1. k \in 0..Len(t) /\ Len(t) \in 0..Len(t) /\ k < Len(t)
    BY <1>1
  <2>. QED
    BY <1>1, <1>3, <2>1, UnitIs
<1>7. k \in Cuts(t)
  <2>1. Len(r) <= Len(r) /\ Len(r) <= Len(t) /\ \A i \in 1..Len(r) : t[i] = r[i]
    BY <1>1, <1>2 DEF Extends
  <2>2. \A n \in 0..Len(r) : n \in Cuts(t) <=> n \in Cuts(r)
    BY <1>1, <2>1, SameCuts
  <2>. QED
    BY <2>2
<1>5. Len(t) \in Cuts(t)
  <2>1. Len(t) \in 1..Len(t) /\ k \in 0..(Len(t) - 1)
    BY <1>1
  <2>2. \A n \in 1..Len(t) : (\E q \in 0..(n - 1) : q \in Cuts(t) /\ Unit(t, q, n)) => n \in Cuts(t)
    BY <1>1, CutsUnfold
  <2>. QED
    BY <1>4, <1>7, <2>1, <2>2
<1>6. IsStringText(t)
  BY <1>1, <1>5, CutsUnfold
<1>. QED
  BY <1>6 DEF CouldEnd, More, t

LEMMA EndsIfCut ==
  ASSUME NEW r \in Seq(Chars), Len(r) \in Cuts(r)
  PROVE  CouldEnd(r)
<1>1. IsStringText(r)
  BY CutsUnfold
<1>2. r \o <<>> = r
  OBVIOUS
<1>. QED
  BY <1>1, <1>2 DEF CouldEnd

(* Where no unit can begin, whatever follows, the string is over.          *)
LEMMA NeverEnds ==
  ASSUME NEW r \in Seq(Chars), NEW k \in 0..(Len(r) - 1),
         \A t : Extends(t, r) => Reached(t, k) /\ \A m \in (k + 1)..Len(t) : ~ UnitAt(t, k, m)
  PROVE  ~ CouldEnd(r)
<1>. SUFFICES ASSUME NEW m \in More, IsStringText(r \o m) PROVE FALSE
  BY DEF CouldEnd, More
<1> DEFINE t == r \o m
<1>1. m \in Seq(Chars) /\ Len(m) \in Nat /\ Len(r) \in Nat /\ t \in Seq(Chars) /\ Len(t) = Len(r) + Len(m)
  BY MoreIs
<1>2. Extends(t, r)
  BY <1>1, MoreExtends
<1>. HIDE DEF t
<1>6. IsStringText(t)
  BY DEF t
<1>3. Len(t) \in Cuts(t)
  <2>0. Len(t) \in Nat
    BY <1>1
  <2>1. IsStringText(t) <=> Len(t) \in Cuts(t)
    BY <2>0, CutsUnfold, Zenon
  <2>. QED
    BY <1>6, <2>1
<1>4. k \in 0..Len(t) /\ k < Len(t)
  BY <1>1
<1>5. \A n \in Cuts(t) : n <= k
  BY <1>1, <1>2, <1>4, ReachedDead
<1>. QED
  BY <1>1, <1>3, <1>4, <1>5

(* No quote ends the string if the scanner stopped at k for another reason.*)
LEMMA NoQuoteEnds ==
  ASSUME NEW r \in Seq(Chars), NEW k \in 0..Len(r), Reached(r, k), \A n \in Cuts(r) : n <= k,
         k = Len(r) \/ r[k + 1] # "quote"
  PROVE  \A i \in 1..Len(r) : r[i] = "quote" => i - 1 \notin Cuts(r)
<1>. SUFFICES ASSUME NEW i \in 1..Len(r), r[i] = "quote", i - 1 \in Cuts(r) PROVE FALSE
  OBVIOUS
<1>1. i - 1 <= k /\ Len(r) \in Nat /\ (i - 1) + 1 = i
  OBVIOUS
<1>2. i - 1 = k
  BY <1>1 DEF Reached
<1>. QED
  BY <1>1, <1>2

ReachedIn(r, k) == \A t : Extends(t, r) => Reached(t, k)

LEMMA StartReachedIn ==
  ASSUME NEW r \in Seq(Chars)
  PROVE  ReachedIn(r, 0)
BY ReachedStart DEF ReachedIn, Extends

(* A unit inside the text is one whatever follows.                         *)
LEMMA NextReachedIn ==
  ASSUME NEW r \in Seq(Chars), NEW k \in 0..Len(r), NEW m \in 0..Len(r), k < m, ReachedIn(r, k), UnitAt(r, k, m)
  PROVE  ReachedIn(r, m)
<1>. SUFFICES ASSUME NEW t, Extends(t, r) PROVE Reached(t, m)
  BY DEF ReachedIn
<1>1. t \in Seq(Chars) /\ Len(r) <= Len(t) /\ Len(r) \in Nat /\ Len(t) \in Nat /\ \A i \in 1..Len(r) : t[i] = r[i]
  BY DEF Extends
<1>2. k \in 0..Len(t) /\ m \in 0..Len(t) /\ Reached(t, k)
  BY <1>1 DEF ReachedIn
<1>3. UnitAt(t, k, m)
  <2>1. t[k + 1] = r[k + 1]
    BY <1>1
  <2>2. m > k + 1 => t[k + 2] = r[k + 2]
    BY <1>1
  <2>3. \A j \in (k + 1)..m : t[j] = r[j]
    BY <1>1
  <2>4. m = k + 6 => \A j \in (k + 3)..(k + 6) : j \in (k + 1)..m
    OBVIOUS
  <2>. QED
    BY <2>1, <2>2, <2>3, <2>4 DEF UnitAt
<1>4. Unit(t, k, m)
  BY <1>1, <1>2, <1>3, UnitIs
<1>. QED
  BY <1>1, <1>2, <1>4, ReachedNext

(* The scanner goes on exactly where a unit begins.                        *)
Stops(r, k) == \A t : Extends(t, r) => \A m \in (k + 1)..Len(t) : ~ UnitAt(t, k, m)

LEMMA StopsHere ==
  ASSUME NEW r \in Seq(Chars), NEW k \in 0..(Len(r) - 1), ReachedIn(r, k), Stops(r, k), NEW from \in Int, NEW e,
         r[k + 1] # "quote", e.kind = "illformed"
  PROVE  Said(r, from, e)
<1>1. ~ CouldEnd(r)
  BY NeverEnds DEF ReachedIn, Stops
<1>2. Extends(r, r) /\ Len(r) \in Nat
  BY DEF Extends
<1>3. Reached(r, k) /\ \A m \in (k + 1)..Len(r) : ~ UnitAt(r, k, m)
  BY <1>2 DEF ReachedIn, Stops
<1>4. k \in 0..Len(r)
  BY <1>2
<1>5. \A n \in Cuts(r) : n <= k
  BY <1>3, <1>4, ReachedDead
<1>6. \A i \in 1..Len(r) : r[i] = "quote" => i - 1 \notin Cuts(r)
  BY <1>3, <1>4, <1>5, NoQuoteEnds
<1>. QED
  BY <1>1, <1>6 DEF Said

LEMMA RunsOut ==
  ASSUME NEW r \in Seq(Chars), NEW k \in 0..Len(r), ReachedIn(r, k), CouldEnd(r), NEW from \in Int, NEW e,
         k = Len(r) \/ r[k + 1] # "quote", \A m \in (k + 1)..Len(r) : ~ UnitAt(r, k, m), e.kind = "unended"
  PROVE  Said(r, from, e)
<1>1. Extends(r, r) /\ Len(r) \in Nat
  BY DEF Extends
<1>2. Reached(r, k)
  BY <1>1 DEF ReachedIn
<1>3. \A n \in Cuts(r) : n <= k
  BY <1>2, ReachedDead
<1>4. \A i \in 1..Len(r) : r[i] = "quote" => i - 1 \notin Cuts(r)
  BY <1>2, <1>3, NoQuoteEnds
<1>. QED
  BY <1>4 DEF Said

LEMMA CutReached ==
  ASSUME NEW r \in Seq(Chars), NEW k \in 0..Len(r), ReachedIn(r, k)
  PROVE  k \in Cuts(r)
<1>1. Extends(r, r)
  BY DEF Extends
<1>. QED
  BY <1>1 DEF ReachedIn, Reached

(* The hex digits of \u, from k + 2 on.                                    *)
LEMMA EscapeScanned ==
  ASSUME NEW r \in Seq(Chars), NEW k \in 0..(Len(r) - 2), ReachedIn(r, k), r[k + 1] = "backslash", r[k + 2] = "u",
         NEW d \in 1..5, \A j \in 1..(d - 1) : k + 2 + j <= Len(r) /\ r[k + 2 + j] \in HexDigits,
         d < 5 => k + 2 + d > Len(r) \/ r[k + 2 + d] \notin HexDigits, NEW from \in Int, NEW e,
         e.kind = IF k + 2 + d > Len(r) THEN "unended" ELSE "illformed"
  PROVE  /\ d = 5 => k + 6 <= Len(r) /\ UnitAt(r, k, k + 6)
         /\ d < 5 => Said(r, from, e)
<1>0. Len(r) \in Nat
  OBVIOUS
<1>1. ASSUME d = 5 PROVE k + 6 <= Len(r) /\ UnitAt(r, k, k + 6)
  <2>1. \A j \in 1..4 : k + 2 + j <= Len(r) /\ r[k + 2 + j] \in HexDigits
    BY <1>1
  <2>2. k + 2 + 4 <= Len(r)
    BY <2>1
  <2>3. \A i \in (k + 3)..(k + 6) : r[i] \in HexDigits
    <3>1. \A i \in (k + 3)..(k + 6) : i - k - 2 \in 1..4 /\ k + 2 + (i - k - 2) = i
      OBVIOUS
    <3>. QED
      BY <2>1, <3>1
  <2>. QED
    BY <1>0, <2>2, <2>3 DEF UnitAt
<1>2. ASSUME d < 5, k + 2 + d > Len(r) PROVE Said(r, from, e)
  <2>1. Len(r) = k + 1 + d
    <3>1. d = 1 \/ k + 2 + (d - 1) <= Len(r)
      OBVIOUS
    <3>. QED
      BY <1>0, <1>2, <3>1
  <2> DEFINE m == Hex(5 - d)
             t == r \o m
  <2>2. m \in More /\ Len(m) = 5 - d /\ \A i \in 1..(5 - d) : m[i] = "hex"
    <3>1. 5 - d \in 1..4
      BY <1>2
    <3>. QED
      BY <3>1, MoreIs DEF More
  <2>3. m \in Seq(Chars) /\ Len(t) = k + 6
    BY <2>1, <2>2, MoreIs
  <2>4. /\ \A i \in 1..Len(r) : t[i] = r[i]
        /\ \A i \in 1..(5 - d) : t[Len(r) + i] = "hex"
    BY <2>2, <2>3
  <2>. HIDE DEF m, t
  <2>5. \A j \in (k + 3)..(k + 6) : t[j] \in HexDigits
    <3>. SUFFICES ASSUME NEW j \in (k + 3)..(k + 6) PROVE t[j] \in HexDigits
      OBVIOUS
    <3>1. CASE j <= Len(r)
      <4>1. j - k - 2 \in 1..(d - 1) /\ k + 2 + (j - k - 2) = j /\ j \in 1..Len(r)
        BY <2>1, <3>1
      <4>2. r[j] \in HexDigits
        BY <4>1
      <4>. QED
        BY <2>4, <4>1, <4>2
    <3>2. CASE j > Len(r)
      <4>1. j - Len(r) \in 1..(5 - d) /\ Len(r) + (j - Len(r)) = j
        BY <2>1, <3>2
      <4>2. t[j] = "hex"
        BY <2>4, <4>1
      <4>. QED
        BY <4>2 DEF HexDigits
    <3>. QED
      BY <1>0, <3>1, <3>2
  <2>6. UnitAt(t, k, k + 6)
    <3>1. t[k + 1] = "backslash" /\ t[k + 2] = "u"
      BY <1>0, <2>4
    <3>. QED
      BY <2>5, <3>1 DEF UnitAt
  <2>7. CouldEnd(r)
    <3>1. k \in 0..Len(r) /\ k \in Cuts(r) /\ Len(m) > 0 /\ Len(r) + Len(m) = k + 6
      BY <1>0, <1>2, <2>1, <2>2, CutReached
    <3>. QED
      BY <2>2, <2>6, <3>1, EndsIfUnit DEF t
  <2>8. \A i \in (k + 1)..Len(r) : ~ UnitAt(r, k, i)
    BY <2>1, <1>2 DEF UnitAt, Escapable
  <2>9. k \in 0..Len(r) /\ r[k + 1] # "quote" /\ e.kind = "unended"
    BY <1>0, <1>2
  <2>. QED
    BY <2>7, <2>8, <2>9, RunsOut
<1>3. ASSUME d < 5, ~ (k + 2 + d > Len(r)) PROVE Said(r, from, e)
  <2>1. r[k + 2 + d] \notin HexDigits /\ k + 2 + d \in 1..Len(r) /\ k + 2 + d \in (k + 3)..(k + 6)
    BY <1>0, <1>3
  <2>2. Stops(r, k)
    <3>. SUFFICES ASSUME NEW t, Extends(t, r), NEW i \in (k + 1)..Len(t), UnitAt(t, k, i) PROVE FALSE
      BY DEF Stops
    <3>1. t[k + 1] = "backslash" /\ t[k + 2] = "u" /\ t[k + 2 + d] \notin HexDigits
      BY <1>0, <2>1 DEF Extends
    <3>. QED
      BY <2>1, <3>1 DEF UnitAt, Escapable
  <2>3. k \in 0..(Len(r) - 1) /\ r[k + 1] # "quote" /\ e.kind = "illformed"
    BY <1>0, <1>3
  <2>. QED
    BY <2>2, <2>3, StopsHere
<1>. QED
  BY <1>1, <1>2, <1>3

LEMMA BodyIs ==
  ASSUME NEW s, NEW g, NEW p \in Int, Len(s) \in Int
  PROVE  LET e == ScanBody(s, g, p)
             d == FirstNoHex(s, p + 1)
         IN /\ p > Len(s) => e = Ends(Len(s), "unended")
            /\ p <= Len(s) /\ s[p] = "quote" => e = Ends(p, "string")
            /\ p <= Len(s) /\ s[p] \in ControlCharacters => e = Ends(p, "illformed")
            /\ p <= Len(s) /\ s[p] \notin {"quote", "backslash"} \cup ControlCharacters => e = g[p + 1]
            /\ p <= Len(s) /\ s[p] = "backslash" =>
                 /\ p = Len(s) => e = Ends(p, "unended")
                 /\ p < Len(s) /\ s[p + 1] \in Escapable => e = g[p + 2]
                 /\ p < Len(s) /\ s[p + 1] = "u" =>
                      e = IF d = 5 THEN g[p + 6] ELSE Ends(Len(s), IF p + 1 + d > Len(s) THEN "unended" ELSE "illformed")
                 /\ p < Len(s) /\ s[p + 1] \notin Escapable /\ s[p + 1] # "u" => e = Ends(p, "illformed")
<1>1. CASE p > Len(s)
  BY <1>1 DEF ScanBody
<1>2. CASE p <= Len(s) /\ s[p] = "quote"
  BY <1>2 DEF ScanBody, ControlCharacters
<1>3. CASE p <= Len(s) /\ s[p] \in ControlCharacters
  BY <1>3 DEF ScanBody, ControlCharacters
<1>4. CASE p <= Len(s) /\ s[p] \notin {"quote", "backslash"} \cup ControlCharacters
  BY <1>4 DEF ScanBody, ControlCharacters
<1>5. CASE p <= Len(s) /\ s[p] = "backslash"
  <2> DEFINE d == FirstNoHex(s, p + 1)
             inner == CASE p = Len(s)                         -> Ends(p, "unended")
                        [] p < Len(s) /\ s[p + 1] \in Escapable -> g[p + 2]
                        [] p < Len(s) /\ s[p + 1] = "u"       ->
                             IF d = 5 THEN g[p + 6]
                             ELSE Ends(Len(s), IF p + 1 + d > Len(s) THEN "unended" ELSE "illformed")
                        [] OTHER                              -> Ends(p, "illformed")
  <2>1. ScanBody(s, g, p) = inner
    BY <1>5 DEF ScanBody, ControlCharacters
  <2>. HIDE DEF d
  <2>2. CASE p = Len(s)
    BY <1>5, <2>1, <2>2 DEF ControlCharacters, d
  <2>3. CASE p < Len(s) /\ s[p + 1] \in Escapable
    BY <1>5, <2>1, <2>3 DEF ControlCharacters, Escapable, d
  <2>4. CASE p < Len(s) /\ s[p + 1] = "u"
    BY <1>5, <2>1, <2>4 DEF ControlCharacters, Escapable, d
  <2>5. CASE p < Len(s) /\ s[p + 1] \notin Escapable /\ s[p + 1] # "u"
    BY <1>5, <2>1, <2>5 DEF ControlCharacters, d
  <2>. QED
    BY <1>5, <2>2, <2>3, <2>4, <2>5
<1>. QED
  BY <1>1, <1>2, <1>3, <1>4, <1>5

IsTail(r, s, from) == r \in Seq(Chars) /\ Len(r) = Len(s) - from + 1 /\ \A i \in 1..Len(r) : r[i] = s[from + i - 1]
SaidFrom(r, from, g, p, n) == \A q \in p..n : ReachedIn(r, q - from) => Said(r, from, g[q])

LEMMA ScanStep ==
  ASSUME NEW s \in Seq(Chars), NEW from \in 1..(Len(s) + 1), NEW p \in from..(Len(s) + 1), NEW g, NEW r,
         IsTail(r, s, from), ReachedIn(r, p - from), SaidFrom(r, from, g, p + 1, Len(s) + 1)
  PROVE  Said(r, from, ScanBody(s, g, p))
<1> DEFINE k == p - from
           e == ScanBody(s, g, p)
<1>0. /\ Len(s) \in Nat /\ p \in Nat /\ from \in Nat /\ from >= 1 /\ p <= Len(s) + 1
      /\ k \in Nat /\ p = from + k /\ p - from = k /\ ReachedIn(r, k) /\ from \in Int /\ p \in Int
  OBVIOUS
<1>. SUFFICES Said(r, from, e)
  OBVIOUS
<1>. HIDE DEF k, e
<1>1. r \in Seq(Chars) /\ Len(r) = Len(s) - from + 1
  BY DEF IsTail
<1>2. \A i \in 1..Len(r) : r[i] = s[from + i - 1]
  BY DEF IsTail
<1>3. k \in 0..Len(r) /\ k \in Cuts(r)
  BY <1>0, <1>1, CutReached
<1>4. p <= Len(s) => k \in 0..(Len(r) - 1) /\ r[k + 1] = s[p]
  BY <1>0, <1>1, <1>2
<1>5. p < Len(s) => k \in 0..(Len(r) - 2) /\ r[k + 2] = s[p + 1]
  BY <1>0, <1>1, <1>2
<1>6. ASSUME NEW n \in (k + 1)..Len(r), UnitAt(r, k, n), e = g[from + n] PROVE Said(r, from, e)
  <2>1. from + n \in (p + 1)..(Len(s) + 1) /\ (from + n) - from = n /\ n \in 0..Len(r) /\ k < n
    BY <1>0, <1>1
  <2>2. ReachedIn(r, n)
    BY <1>0, <1>1, <1>3, <1>6, <2>1, NextReachedIn
  <2>. QED
    BY <1>6, <2>1, <2>2 DEF SaidFrom
<1>7. \A kind, end : Ends(end, kind).kind = kind /\ Ends(end, kind).end = end
  BY DEF Ends
<1>8. CASE p > Len(s)
  <2>1. k = Len(r) /\ e = Ends(Len(s), "unended")
    BY <1>0, <1>1, <1>8, BodyIs DEF e
  <2>2. CouldEnd(r)
    BY <1>1, <1>3, <2>1, EndsIfCut
  <2>3. \A m \in (k + 1)..Len(r) : ~ UnitAt(r, k, m)
    BY <1>1, <2>1
  <2>4. e.kind = "unended"
    BY <1>7, <2>1
  <2>. QED
    BY <1>0, <1>1, <1>3, <2>1, <2>2, <2>3, <2>4, RunsOut
<1>9. CASE p <= Len(s) /\ s[p] = "quote"
  <2>1. e = Ends(p, "string")
    BY <1>0, <1>9, BodyIs DEF e
  <2>2. e.kind = "string" /\ e.end = p
    BY <1>7, <2>1
  <2>3. k \in 0..(Len(r) - 1) /\ r[k + 1] = "quote" /\ e.end - from = k /\ e.end \in Int
    BY <1>0, <1>4, <1>9, <2>2
  <2>. QED
    BY <1>3, <2>2, <2>3 DEF Said
<1>10. CASE p <= Len(s) /\ s[p] \in ControlCharacters
  <2>1. e = Ends(p, "illformed")
    BY <1>0, <1>10, BodyIs DEF e
  <2>2. Stops(r, k)
    <3>. SUFFICES ASSUME NEW t, Extends(t, r), NEW i \in (k + 1)..Len(t), UnitAt(t, k, i) PROVE FALSE
      BY DEF Stops
    <3>1. t[k + 1] = s[p]
      <4>1. k + 1 \in 1..Len(r) /\ r[k + 1] = s[p]
        <5>1. k \in 0..(Len(r) - 1) /\ r[k + 1] = s[p]
          BY <1>4, <1>10
        <5>. QED
          BY <1>0, <5>1
      <4>. QED
        BY <4>1 DEF Extends
    <3>. QED
      BY <1>10, <3>1 DEF UnitAt, ControlCharacters
  <2>3. r[k + 1] # "quote" /\ e.kind = "illformed"
    BY <1>4, <1>7, <1>10, <2>1 DEF ControlCharacters
  <2>4. k \in 0..(Len(r) - 1)
    BY <1>4, <1>10
  <2>. QED
    BY <1>0, <1>1, <2>2, <2>3, <2>4, StopsHere
<1>11. CASE p <= Len(s) /\ s[p] = "backslash"
  <2>1. CASE p = Len(s)
    <3>1. e = Ends(p, "unended")
      BY <1>0, <1>11, <2>1, BodyIs DEF e
    <3>2. k + 1 = Len(r) /\ r[k + 1] = "backslash"
      BY <1>0, <1>1, <1>4, <1>11, <2>1
    <3>3. CouldEnd(r)
      <4> DEFINE m == <<"n">>
                 t == r \o m
      <4>1. m \in Seq(Chars) /\ Len(m) = 1 /\ m[1] = "n" /\ m \in More
        BY MoreIs DEF Chars, More
      <4>2. Len(t) = k + 2 /\ t[k + 1] = "backslash" /\ t[k + 2] = "n"
        BY <1>0, <1>1, <3>2, <4>1
      <4>. HIDE DEF m, t
      <4>3. UnitAt(t, k, k + 2)
        BY <4>2 DEF UnitAt, Escapable
      <4>4. Len(r) + Len(m) = k + 2 /\ Len(m) > 0
        BY <1>0, <3>2, <4>1
      <4>. HIDE DEF k
      <4>. QED
        BY <1>1, <1>3, <4>1, <4>3, <4>4, EndsIfUnit DEF t
    <3>4. \A m \in (k + 1)..Len(r) : ~ UnitAt(r, k, m)
      BY <1>0, <3>2 DEF UnitAt
    <3>5. e.kind = "unended" /\ r[k + 1] # "quote"
      BY <1>7, <3>1, <3>2
    <3>. QED
      BY <1>0, <1>1, <1>3, <3>3, <3>4, <3>5, RunsOut
  <2>2. CASE p < Len(s) /\ s[p + 1] \in Escapable
    <3>1. e = g[p + 2]
      BY <1>0, <1>11, <2>2, BodyIs DEF e
    <3>2. UnitAt(r, k, k + 2) /\ k + 2 \in (k + 1)..Len(r) /\ from + (k + 2) = p + 2
      BY <1>0, <1>1, <1>4, <1>5, <1>11, <2>2 DEF UnitAt
    <3>. QED
      BY <1>6, <3>1, <3>2
  <2>3. CASE p < Len(s) /\ s[p + 1] = "u"
    <3> DEFINE d == FirstNoHex(s, p + 1)
    <3>1. e = IF d = 5 THEN g[p + 6] ELSE Ends(Len(s), IF p + 1 + d > Len(s) THEN "unended" ELSE "illformed")
      BY <1>0, <1>11, <2>3, BodyIs DEF e
    <3>2. /\ d \in 1..5
          /\ \A j \in 1..(d - 1) : p + 1 + j <= Len(s) /\ s[p + 1 + j] \in HexDigits
          /\ d < 5 => p + 1 + d > Len(s) \/ s[p + 1 + d] \notin HexDigits
      <4>1. p + 1 \in Nat
        BY <1>0
      <4>. QED
        BY <4>1, NoHexFound
    <3>. HIDE DEF d
    <3>3. \A j \in 1..5 : p + 1 + j <= Len(s) => k + 2 + j <= Len(r) /\ r[k + 2 + j] = s[p + 1 + j]
      BY <1>0, <1>1, <1>2
    <3>4. \A j \in 1..5 : p + 1 + j > Len(s) <=> k + 2 + j > Len(r)
      BY <1>0, <1>1
    <3>5. \A j \in 1..(d - 1) : k + 2 + j <= Len(r) /\ r[k + 2 + j] \in HexDigits
      <4>1. \A j \in 1..(d - 1) : j \in 1..5
        BY <3>2
      <4>. QED
        BY <3>2, <3>3, <4>1
    <3>6. d < 5 => k + 2 + d > Len(r) \/ r[k + 2 + d] \notin HexDigits
    <4>. SUFFICES ASSUME d < 5, ~ (k + 2 + d > Len(r)) PROVE r[k + 2 + d] \notin HexDigits
      OBVIOUS
    <4>1. d \in 1..5 /\ ~ (p + 1 + d > Len(s))
      BY <3>2, <3>4
    <4>2. p + 1 + d <= Len(s)
      BY <1>0, <4>1
    <4>. QED
      BY <3>2, <3>3, <4>1, <4>2
    <3>7. k \in 0..(Len(r) - 2) /\ r[k + 1] = "backslash" /\ r[k + 2] = "u"
      BY <1>4, <1>5, <1>11, <2>3
    <3> DEFINE z == Ends(Len(s), IF p + 1 + d > Len(s) THEN "unended" ELSE "illformed")
    <3>8. z.kind = IF k + 2 + d > Len(r) THEN "unended" ELSE "illformed"
      BY <1>7, <3>2, <3>4
    <3>. HIDE DEF z
    <3>9. /\ d = 5 => k + 6 <= Len(r) /\ UnitAt(r, k, k + 6)
          /\ d < 5 => Said(r, from, z)
      BY <1>0, <1>1, <3>2, <3>5, <3>6, <3>7, <3>8, EscapeScanned
    <3>10. CASE d = 5
      <4>1. from + (k + 6) = p + 6 /\ k + 6 \in (k + 1)..Len(r)
        BY <1>0, <1>1, <3>9, <3>10
      <4>. QED
        BY <1>6, <3>1, <3>9, <3>10, <4>1
    <3>11. CASE d < 5
      <4>1. e = z
        BY <3>1, <3>11 DEF z
      <4>. QED
        BY <3>9, <3>11, <4>1
    <3>. QED
      BY <3>2, <3>10, <3>11
  <2>4. CASE p < Len(s) /\ s[p + 1] \notin Escapable /\ s[p + 1] # "u"
    <3>1. e = Ends(p, "illformed")
      BY <1>0, <1>11, <2>4, BodyIs DEF e
    <3>2. Stops(r, k)
      <4>. SUFFICES ASSUME NEW t, Extends(t, r), NEW i \in (k + 1)..Len(t), UnitAt(t, k, i) PROVE FALSE
        BY DEF Stops
      <4>0. k + 1 \in 1..Len(r) /\ k + 2 \in 1..Len(r) /\ r[k + 1] = s[p] /\ r[k + 2] = s[p + 1]
        BY <1>0, <1>1, <1>4, <1>5, <1>11, <2>4
      <4>1. t[k + 1] = s[p] /\ t[k + 2] = s[p + 1]
        BY <4>0 DEF Extends
      <4>. QED
        BY <1>11, <2>4, <4>1 DEF UnitAt
    <3>3. r[k + 1] # "quote" /\ e.kind = "illformed"
      BY <1>4, <1>7, <1>11, <3>1
    <3>4. k \in 0..(Len(r) - 1)
      BY <1>4, <1>11
    <3>. QED
      BY <1>0, <1>1, <3>2, <3>3, <3>4, StopsHere
  <2>. QED
    BY <1>0, <1>11, <2>1, <2>2, <2>3, <2>4
<1>12. CASE p <= Len(s) /\ s[p] \notin {"quote", "backslash"} \cup ControlCharacters
  <2>1. e = g[p + 1]
    BY <1>0, <1>12, BodyIs DEF e
  <2>2. UnitAt(r, k, k + 1) /\ k + 1 \in (k + 1)..Len(r) /\ from + (k + 1) = p + 1
    BY <1>0, <1>1, <1>4, <1>12 DEF UnitAt
  <2>. QED
    BY <1>6, <2>1, <2>2
<1>. QED
  BY <1>0, <1>8, <1>9, <1>10, <1>11, <1>12

(* parse_string_tok finds the string's end, or why it has none.            *)
LEMMA StringIsSaid ==
  ASSUME NEW s \in Seq(Chars), NEW from \in 1..(Len(s) + 1)
  PROVE  Said(SubSeq(s, from, Len(s)), from, StringEnd(s, from))
<1> DEFINE n == Len(s) + 1
           r == SubSeq(s, from, Len(s))
           scan[p \in from..(Len(s) + 1)] ==
            CASE p > Len(s)                                -> Ends(Len(s), "unended")
              [] p <= Len(s) /\ s[p] = "quote"             -> Ends(p, "string")
              [] p <= Len(s) /\ s[p] \in ControlCharacters -> Ends(p, "illformed")
              [] p <= Len(s) /\ s[p] = "backslash"         ->
                   CASE p = Len(s)                         -> Ends(p, "unended")
                     [] p < Len(s) /\ s[p + 1] \in Escapable -> scan[p + 2]
                     [] p < Len(s) /\ s[p + 1] = "u"       ->
                          LET k == FirstNoHex(s, p + 1)
                          IN IF k = 5 THEN scan[p + 6]
                             ELSE Ends(Len(s), IF p + 1 + k > Len(s) THEN "unended" ELSE "illformed")
                     [] OTHER                              -> Ends(p, "illformed")
              [] OTHER                                     -> scan[p + 1]
<1>0. n \in Nat /\ from \in Nat /\ r \in Seq(Chars) /\ Len(s) \in Nat
  OBVIOUS
<1>1. scan = [p \in from..(Len(s) + 1) |-> ScanBody(s, scan, p)]
  <2>1. \E g : IsScan(g, s, from)
    BY ScanExists
  <2>. QED
    BY <2>1 DEF IsScan, ScanBody
<1>2. StringEnd(s, from) = scan[from]
  BY DEF StringEnd
<1>. HIDE DEF scan
<1> DEFINE T == {p \in from..n : ReachedIn(r, p - from) => Said(r, from, scan[p])}
<1>3. ASSUME NEW p \in from..n, \A q \in (p + 1)..n : q \in T PROVE p \in T
  <2>. SUFFICES ASSUME ReachedIn(r, p - from) PROVE Said(r, from, scan[p])
    OBVIOUS
  <2>1. scan[p] = ScanBody(s, scan, p)
    BY <1>1
  <2>2. SaidFrom(r, from, scan, p + 1, Len(s) + 1)
    BY <1>3 DEF SaidFrom
  <2>3. Said(r, from, ScanBody(s, scan, p))
    <3>1. IsTail(r, s, from) /\ p \in from..(Len(s) + 1)
      BY <1>0 DEF IsTail
    <3>. HIDE DEF r, n, T
    <3>. QED
      BY <2>2, <3>1, ScanStep
  <2>. QED
    BY <2>1, <2>3
<1>4. from..n \subseteq T
  <2>. HIDE DEF T, n
  <2>. QED
    BY <1>0, <1>3, InductionDown
<1>5. from \in T /\ from - from = 0
  BY <1>0, <1>4
<1>6. ReachedIn(r, from - from)
  BY <1>0, <1>5, StartReachedIn
<1>. QED
  BY <1>2, <1>5, <1>6

(***************************************************************************)
(* An item and what it covers.                                             *)
(***************************************************************************)
LEMMA EndsOfRange ==
  ASSUME NEW a \in Int, NEW b \in Int, a <= b
  PROVE  Min(a..b) = a /\ Max(a..b) = b
<1>1. Min(a..b) = CHOOSE x \in a..b : \A y \in a..b : x <= y
  BY DEF Min
<1>2. Max(a..b) = CHOOSE x \in a..b : \A y \in a..b : x >= y
  BY DEF Max
<1>3. a \in a..b /\ b \in a..b
  OBVIOUS
<1>4. Min(a..b) \in a..b /\ \A y \in a..b : Min(a..b) <= y
  BY <1>1, <1>3
<1>5. Max(a..b) \in a..b /\ \A y \in a..b : Max(a..b) >= y
  <2>1. \A y \in a..b : b >= y
    OBVIOUS
  <2>. QED
    BY <1>2, <1>3, <2>1
<1>. QED
  BY <1>3, <1>4, <1>5

LEMMA PrimitiveIsSaid ==
  ASSUME NEW s \in Seq(Chars), NEW p \in 1..Len(s), s[p] \notin EndsPrimitive
  PROVE  LET e == PrimitiveEnd(s, p)
         IN \/ /\ e.kind = "primitive" /\ e.end \in p..Len(s)
               /\ \A i \in p..e.end : s[i] \notin EndsPrimitive \cup {"ctrl", "high"}
               /\ e.end = Len(s) \/ s[e.end + 1] \in EndsPrimitive
            \/ /\ e.kind = "illformed"
               /\ \E i \in p..Len(s) : s[i] \in {"ctrl", "high"} /\ \A k \in p..i : s[k] \notin EndsPrimitive
<1> DEFINE S == {i \in p..Len(s) : s[i] \in EndsPrimitive} \cup {Len(s) + 1}
           stop == Min(S)
<1>0. Len(s) \in Nat /\ p \in Nat
  OBVIOUS
<1>1. S \subseteq Nat /\ Len(s) + 1 \in S
  BY <1>0
<1>2. stop = CHOOSE x \in S : \A y \in S : x <= y
  BY DEF Min
<1>. HIDE DEF S
<1>3. PICK m \in S : \A i \in S : m <= i
  BY <1>1, LeastNumber
<1>4. stop \in S /\ \A i \in S : stop <= i
  BY <1>2, <1>3
<1>5. PrimitiveEnd(s, p) = IF \E i \in p..(stop - 1) : s[i] \in {"ctrl", "high"} THEN Ends(stop - 1, "illformed")
                           ELSE Ends(stop - 1, "primitive")
  BY DEF PrimitiveEnd, S
<1>. HIDE DEF stop
<1>6. stop \in (p + 1)..(Len(s) + 1)
  <2>1. stop \in p..(Len(s) + 1)
    BY <1>0, <1>1, <1>4 DEF S
  <2>2. stop # p
    BY <1>0, <1>4 DEF S
  <2>. QED
    BY <1>0, <2>1, <2>2
<1>7. \A i \in p..(stop - 1) : i \notin S /\ i \in p..Len(s)
  BY <1>0, <1>4, <1>6
<1>8. \A i \in p..(stop - 1) : s[i] \notin EndsPrimitive
  BY <1>7 DEF S
<1>9. stop = Len(s) + 1 \/ s[stop] \in EndsPrimitive
  BY <1>4 DEF S
<1>10. CASE \E i \in p..(stop - 1) : s[i] \in {"ctrl", "high"}
  <2>1. PICK i \in p..(stop - 1) : s[i] \in {"ctrl", "high"}
    BY <1>10
  <2>2. i \in p..Len(s) /\ \A k \in p..i : k \in p..(stop - 1)
    BY <1>0, <1>6
  <2>3. \A k \in p..i : s[k] \notin EndsPrimitive
    BY <1>8, <2>2
  <2>. QED
    BY <1>5, <1>10, <2>1, <2>2, <2>3 DEF Ends
<1>11. CASE ~ \E i \in p..(stop - 1) : s[i] \in {"ctrl", "high"}
  <2>1. (stop - 1) + 1 = stop /\ stop - 1 \in p..Len(s) /\ (stop = Len(s) + 1 => stop - 1 = Len(s))
    BY <1>0, <1>6
  <2>2. PrimitiveEnd(s, p) = Ends(stop - 1, "primitive")
    BY <1>5, <1>11
  <2>3. \A i \in p..(stop - 1) : s[i] \notin EndsPrimitive \cup {"ctrl", "high"}
    BY <1>8, <1>11
  <2>4. PrimitiveEnd(s, p).kind = "primitive" /\ PrimitiveEnd(s, p).end = stop - 1
    BY <2>2 DEF Ends
  <2>. QED
    BY <1>9, <2>1, <2>3, <2>4
<1>. QED
  BY <1>10, <1>11

(* The property's "closed" in terms of cuts.                               *)
LEMMA ClosedIsCut ==
  ASSUME NEW r \in Seq(Chars), NEW k \in 1..Len(r)
  PROVE  IsStringText(SubSeq(r, 1, k - 1)) <=> k - 1 \in Cuts(r)
<1> DEFINE t == SubSeq(r, 1, k - 1)
<1>1. t \in Seq(Chars) /\ Len(t) = k - 1 /\ Len(t) \in Nat /\ Len(t) <= Len(r) /\ \A i \in 1..Len(t) : t[i] = r[i]
  OBVIOUS
<1>. HIDE DEF t
<1>2. \A n \in 0..Len(t) : n \in Cuts(t) <=> n \in Cuts(r)
  <2>1. Len(t) <= Len(t)
    BY <1>1
  <2>. QED
    BY <1>1, <2>1, SameCuts
<1>3. IsStringText(t) <=> Len(t) \in Cuts(t)
  BY <1>1, CutsUnfold, Zenon
<1>4. Len(t) \in Cuts(t) <=> k - 1 \in Cuts(r)
  BY <1>1, <1>2
<1>. QED
  BY <1>3, <1>4 DEF t

(* The item covers the characters from p to z.                             *)
Spans(item, p, z) ==
  /\ item \in [kind : ItemKinds, text : Int \X Int]
  /\ Covered(item) = p..z /\ After(item) = z + 1

LEMMA SpansString ==
  ASSUME NEW p \in Int, NEW z \in Int
  PROVE  Spans(Item("string", <<p + 1, z - 1>>), p, z)
BY DEF Spans, Item, Covered, After, ItemKinds

LEMMA SpansOther ==
  ASSUME NEW p \in Int, NEW z \in Int, NEW kind \in ItemKinds, kind # "string"
  PROVE  Spans(Item(kind, <<p, z>>), p, z)
BY DEF Spans, Item, Covered, After

Found(s, p, item) ==
  \E z \in p..Len(s) : Spans(item, p, z) /\ IsItem(s, item) /\ (item.kind \in {"unended", "illformed"} => z = Len(s))

LEMMA ItemIsFound ==
  ASSUME NEW s \in Seq(Chars), NEW p \in 1..Len(s), s[p] \notin Blanks
  PROVE  Found(s, p, ItemAt(s, p))
<1> DEFINE item == ItemAt(s, p)
           rest == SubSeq(s, p + 1, Len(s))
           Closed(k) == rest[k] = "quote" /\ IsStringText(SubSeq(rest, 1, k - 1))
<1>0. Len(s) \in Nat /\ p \in Nat /\ p \in Int /\ Len(s) \in Int /\ p <= Len(s) /\ p \in p..Len(s) /\ Len(s) \in p..Len(s)
  OBVIOUS
<1>1. \A kind, text : Item(kind, text).kind = kind /\ Item(kind, text).text = text
  BY DEF Item
<1>2. ASSUME NEW z \in p..Len(s), Spans(item, p, z) PROVE Min(Covered(item)) = p /\ Max(Covered(item)) = z
  <2>1. Covered(item) = p..z /\ z \in Int /\ p <= z
    BY <1>2 DEF Spans
  <2>. QED
    BY <1>0, <2>1, EndsOfRange
<1>3. CASE s[p] \in Brackets \cup {",", ":"}
  <2>1. item = Item(s[p], <<p, p>>)
    BY <1>3 DEF ItemAt
  <2>2. s[p] \in ItemKinds /\ s[p] \notin {"string", "primitive", "unended", "illformed"}
    BY <1>3 DEF Brackets, ItemKinds, Open, Close
  <2>3. Spans(item, p, p)
    BY <1>0, <2>1, <2>2, SpansOther
  <2>. HIDE DEF item
  <2>4. Min(Covered(item)) = p /\ item.kind = s[p]
    BY <1>0, <1>1, <1>2, <2>1, <2>3
  <2>5. IsItem(s, item)
    BY <2>2, <2>4 DEF IsItem
  <2>. QED
    BY <1>0, <2>2, <2>3, <2>4, <2>5 DEF Found, item
<1>4. CASE s[p] = "quote"
  <2> DEFINE e == StringEnd(s, p + 1)
  <2>1. s[p] \notin Brackets \cup {",", ":"}
    BY <1>4 DEF Brackets, Open, Close
  <2>2. item = IF e.kind \in {"unended", "illformed"} THEN Item(e.kind, <<p, Len(s)>>)
               ELSE Item(e.kind, IF e.kind = "string" THEN <<p + 1, e.end - 1>> ELSE <<p, e.end>>)
    BY <1>4, <2>1 DEF ItemAt
  <2>3. p + 1 \in 1..(Len(s) + 1)
    BY <1>0
  <2>4. Said(rest, p + 1, e)
    BY <2>3, StringIsSaid
  <2>5. rest \in Seq(Chars) /\ Len(rest) = Len(s) - p /\ DOMAIN rest = 1..Len(rest) /\ Len(rest) \in Nat
    BY <1>0
  <2>6. \A k \in 1..Len(rest) : Closed(k) <=> rest[k] = "quote" /\ k - 1 \in Cuts(rest)
    <3>. HIDE DEF rest
    <3>1. \A k \in 1..Len(rest) : IsStringText(SubSeq(rest, 1, k - 1)) <=> k - 1 \in Cuts(rest)
      BY <2>5, ClosedIsCut
    <3>. QED
      BY <3>1
  <2>. HIDE DEF e, rest, item, Closed
  <2>7. CASE e.kind = "string"
    <3>1. item = Item("string", <<p + 1, e.end - 1>>)
      BY <2>2, <2>7
    <3>2. /\ e.end \in Int /\ e.end - (p + 1) \in 0..(Len(rest) - 1)
          /\ rest[e.end - (p + 1) + 1] = "quote" /\ e.end - (p + 1) \in Cuts(rest)
      BY <2>4, <2>7 DEF Said
    <3>a. e.end \in Int /\ e.end - (p + 1) \in 0..(Len(rest) - 1)
      BY <3>2
    <3>3. /\ e.end \in p..Len(s) /\ e.end - p \in 1..Len(rest)
          /\ e.end - (p + 1) + 1 = e.end - p /\ (e.end - p) - 1 = e.end - (p + 1)
      BY <1>0, <2>5, <3>a
    <3>4. Spans(item, p, e.end)
      BY <1>0, <3>1, <3>2, SpansString
    <3>5. Closed(e.end - p)
      BY <2>6, <3>2, <3>3
    <3>6. Min(Covered(item)) = p /\ Max(Covered(item)) = e.end /\ item.kind = "string"
      BY <1>1, <1>2, <3>1, <3>3, <3>4
    <3>7. IsItem(s, item)
      BY <1>4, <3>5, <3>6 DEF IsItem, Closed, rest
    <3>. QED
      BY <3>3, <3>4, <3>6, <3>7 DEF Found, item
  <2>8. CASE e.kind \in {"unended", "illformed"}
    <3>1. item = Item(e.kind, <<p, Len(s)>>) /\ e.kind \in ItemKinds /\ e.kind # "string"
      BY <2>2, <2>8 DEF ItemKinds
    <3>2. Spans(item, p, Len(s))
      BY <1>0, <3>1, SpansOther
    <3>3. Min(Covered(item)) = p /\ Max(Covered(item)) = Len(s) /\ item.kind = e.kind
      BY <1>0, <1>1, <1>2, <3>1, <3>2
    <3>4. (CouldEnd(rest) <=> e.kind = "unended") /\ \A k \in 1..Len(rest) : rest[k] = "quote" => k - 1 \notin Cuts(rest)
      BY <2>4, <2>8 DEF Said
    <3>5. \A k \in DOMAIN rest : ~ Closed(k)
      BY <2>5, <2>6, <3>4
    <3>6. IsItem(s, item)
      <4>1. CASE e.kind = "unended"
        BY <1>4, <3>3, <3>4, <3>5, <4>1 DEF IsItem, Closed, rest
      <4>2. CASE e.kind = "illformed"
        BY <1>4, <3>3, <3>4, <3>5, <4>2 DEF IsItem, Closed, rest
      <4>. QED
        BY <2>8, <4>1, <4>2
    <3>. QED
      BY <1>0, <3>2, <3>6 DEF Found, item
  <2>9. e.kind \in {"string", "unended", "illformed"}
    BY <2>4 DEF Said
  <2>. QED
    BY <2>7, <2>8, <2>9
<1>5. CASE s[p] \notin Brackets \cup {",", ":", "quote"}
  <2> DEFINE e == PrimitiveEnd(s, p)
  <2>1. item = IF e.kind \in {"unended", "illformed"} THEN Item(e.kind, <<p, Len(s)>>)
               ELSE Item(e.kind, IF e.kind = "string" THEN <<p + 1, e.end - 1>> ELSE <<p, e.end>>)
    BY <1>5 DEF ItemAt
  <2>2. s[p] \notin EndsPrimitive /\ s[p] \notin Open \cup {"quote"}
    BY <1>5 DEF EndsPrimitive, Brackets
  <2>3. \/ /\ e.kind = "primitive" /\ e.end \in p..Len(s)
           /\ \A i \in p..e.end : s[i] \notin EndsPrimitive \cup {"ctrl", "high"}
           /\ e.end = Len(s) \/ s[e.end + 1] \in EndsPrimitive
        \/ /\ e.kind = "illformed"
           /\ \E i \in p..Len(s) : s[i] \in {"ctrl", "high"} /\ \A k \in p..i : s[k] \notin EndsPrimitive
    BY <2>2, PrimitiveIsSaid
  <2>. HIDE DEF e, item
  <2>4. CASE e.kind = "primitive"
    <3>1. item = Item("primitive", <<p, e.end>>) /\ "primitive" \in ItemKinds /\ "primitive" # "string"
      BY <2>1, <2>4 DEF ItemKinds
    <3>2. /\ e.end \in p..Len(s) /\ e.end \in Int
          /\ e.end = Len(s) \/ s[e.end + 1] \in EndsPrimitive
          /\ \A i \in p..e.end : s[i] \notin EndsPrimitive \cup {"ctrl", "high"}
      BY <2>3, <2>4
    <3>3. Spans(item, p, e.end)
      BY <1>0, <3>1, <3>2, SpansOther
    <3>4. Min(Covered(item)) = p /\ Max(Covered(item)) = e.end /\ item.kind = "primitive"
      BY <1>1, <1>2, <3>1, <3>2, <3>3
    <3>5. IsItem(s, item)
      BY <2>2, <2>3, <2>4, <3>4 DEF IsItem
    <3>. QED
      BY <2>3, <2>4, <3>3, <3>4, <3>5 DEF Found, item
  <2>5. CASE e.kind = "illformed"
    <3>1. item = Item("illformed", <<p, Len(s)>>) /\ "illformed" \in ItemKinds /\ "illformed" # "string"
      BY <2>1, <2>5 DEF ItemKinds
    <3>2. Spans(item, p, Len(s))
      BY <1>0, <3>1, SpansOther
    <3>3. Min(Covered(item)) = p /\ Max(Covered(item)) = Len(s) /\ item.kind = "illformed"
      BY <1>0, <1>1, <1>2, <3>1, <3>2
    <3>4. \E i \in p..Len(s) : s[i] \in {"ctrl", "high"} /\ \A k \in p..i : s[k] \notin EndsPrimitive
      BY <2>3, <2>5
    <3>5. IsItem(s, item)
      BY <1>5, <3>3, <3>4 DEF IsItem
    <3>. QED
      BY <1>0, <3>2, <3>5 DEF Found, item
  <2>. QED
    BY <2>3, <2>4, <2>5
<1>. QED
  BY <1>3, <1>4, <1>5

(***************************************************************************)
(* The items of a text, from p on.                                         *)
(***************************************************************************)
ItemsFrom(s, g, p) ==
  CASE p > Len(s)                          -> <<>>
    [] p <= Len(s) /\ s[p] \in Blanks      -> g[p + 1]
    [] p <= Len(s) /\ s[p] \notin Blanks   -> LET item == ItemAt(s, p) IN <<item>> \o g[After(item)]

LEMMA ItemsLookAhead ==
  ASSUME NEW s \in Seq(Chars), NEW p \in 1..(Len(s) + 1), NEW g, NEW h,
         \A i \in (p + 1)..(Len(s) + 1) : g[i] = h[i]
  PROVE  ItemsFrom(s, g, p) = ItemsFrom(s, h, p)
<1>0. Len(s) \in Nat
  OBVIOUS
<1>1. p <= Len(s) => g[p + 1] = h[p + 1]
  BY <1>0
<1>2. p <= Len(s) /\ s[p] \notin Blanks => g[After(ItemAt(s, p))] = h[After(ItemAt(s, p))]
  <2>. SUFFICES ASSUME p <= Len(s), s[p] \notin Blanks PROVE g[After(ItemAt(s, p))] = h[After(ItemAt(s, p))]
    OBVIOUS
  <2>1. p \in 1..Len(s)
    BY <1>0
  <2>2. PICK z \in p..Len(s) : Spans(ItemAt(s, p), p, z)
    BY <2>1, ItemIsFound DEF Found
  <2>3. After(ItemAt(s, p)) = z + 1 /\ z + 1 \in (p + 1)..(Len(s) + 1)
    BY <1>0, <2>2 DEF Spans
  <2>. QED
    BY <2>3
<1>3. CASE p > Len(s)
  BY <1>0, <1>3 DEF ItemsFrom
<1>4. CASE p <= Len(s) /\ s[p] \in Blanks
  BY <1>0, <1>1, <1>4 DEF ItemsFrom
<1>5. CASE p <= Len(s) /\ s[p] \notin Blanks
  BY <1>0, <1>2, <1>5 DEF ItemsFrom
<1>. QED
  BY <1>0, <1>3, <1>4, <1>5

LEMMA ItemsExist ==
  ASSUME NEW s \in Seq(Chars)
  PROVE  \E g : g = [p \in 1..(Len(s) + 1) |-> ItemsFrom(s, g, p)]
<1> DEFINE n == Len(s) + 1
           Solves(g, a) == g = [p \in a..n |-> ItemsFrom(s, g, p)]
           T == {p \in 1..n : \E g : Solves(g, p)}
<1>1. n \in Nat
  OBVIOUS
<1>2. ASSUME NEW p \in 1..n, \A q \in (p + 1)..n : q \in T PROVE p \in T
  <2>1. \E f : \A q \in (p + 1)..n : f[q] = ItemsFrom(s, f, q)
    <3>1. CASE p = n
      BY <1>1, <3>1
    <3>2. CASE p # n
      <4>1. p + 1 \in (p + 1)..n
        BY <1>1, <3>2
      <4>2. PICK g : Solves(g, p + 1)
        BY <1>2, <4>1
      <4>. QED
        BY <4>2
    <3>. QED
      BY <3>1, <3>2
  <2>2. PICK f : \A q \in (p + 1)..n : f[q] = ItemsFrom(s, f, q)
    BY <2>1
  <2> DEFINE h == [q \in p..n |-> IF q = p THEN ItemsFrom(s, f, p) ELSE f[q]]
  <2>3. \A i \in (p + 1)..n : h[i] = f[i]
    OBVIOUS
  <2>4. \A q \in p..n : ItemsFrom(s, h, q) = ItemsFrom(s, f, q)
    <3>. SUFFICES ASSUME NEW q \in p..n PROVE ItemsFrom(s, h, q) = ItemsFrom(s, f, q)
      OBVIOUS
    <3>1. \A i \in (q + 1)..n : h[i] = f[i]
      BY <2>3
    <3>2. q \in 1..n
      OBVIOUS
    <3>. HIDE DEF h
    <3>. QED
      BY <3>1, <3>2, ItemsLookAhead
  <2>5. h = [q \in p..n |-> ItemsFrom(s, f, q)]
    BY <2>2
  <2>. HIDE DEF h
  <2>6. h = [q \in p..n |-> ItemsFrom(s, h, q)]
    BY <2>4, <2>5
  <2>. QED
    BY <2>6
<1>3. 1..n \subseteq T
  <2>. HIDE DEF T, n
  <2>1. 1 \in Nat
    OBVIOUS
  <2>. QED
    BY <1>1, <1>2, <2>1, InductionDown
<1>. QED
  BY <1>1, <1>3

(* What ItemsAreTheText says, of the text from p on.                       *)
ScanItems == [kind : ItemKinds, text : Int \X Int]
InTurn(s, items) == \A i, j \in DOMAIN items : i < j => Max(Covered(items[i])) < Min(Covered(items[j]))
Behind(p, items) == \A i \in DOMAIN items : Min(Covered(items[i])) \in Int /\ p <= Min(Covered(items[i]))
AllCovered(s, p, items) == \A q \in p..Len(s) : s[q] \in Blanks \/ \E i \in DOMAIN items : q \in Covered(items[i])
BadIsLast(items) == \A i \in DOMAIN items : items[i].kind \in {"unended", "illformed"} => i = Len(items)
ItemsRight(s, p, items) ==
  /\ items \in Seq(ScanItems)
  /\ p > Len(s) => items = <<>>
  /\ \A i \in DOMAIN items : IsItem(s, items[i])
  /\ InTurn(s, items) /\ Behind(p, items) /\ AllCovered(s, p, items) /\ BadIsLast(items)

LEMMA ItemsGrow ==
  ASSUME NEW s \in Seq(Chars), NEW p \in 1..Len(s), NEW item, NEW z \in p..Len(s), Spans(item, p, z), IsItem(s, item),
         item.kind \in {"unended", "illformed"} => z = Len(s), NEW tail, ItemsRight(s, z + 1, tail)
  PROVE  ItemsRight(s, p, <<item>> \o tail)
<1> DEFINE all == <<item>> \o tail
<1>0. p \in Int /\ z \in Int /\ p <= z /\ Len(s) \in Nat
  OBVIOUS
<1>1. tail \in Seq(ScanItems) /\ item \in ScanItems /\ Covered(item) = p..z
  BY DEF ItemsRight, Spans, ScanItems
<1>2. Min(Covered(item)) = p /\ Max(Covered(item)) = z
  BY <1>0, <1>1, EndsOfRange
<1>3. /\ all \in Seq(ScanItems) /\ Len(all) = Len(tail) + 1 /\ DOMAIN all = 1..(Len(tail) + 1) /\ Len(tail) \in Nat
      /\ DOMAIN tail = 1..Len(tail) /\ all[1] = item /\ \A i \in 2..(Len(tail) + 1) : all[i] = tail[i - 1] /\ i - 1 \in 1..Len(tail)
  BY <1>1
<1>. HIDE DEF all
<1>4. \A i \in 1..(Len(tail) + 1) : IsItem(s, all[i])
  <2>1. \A i \in 1..Len(tail) : IsItem(s, tail[i])
    BY <1>3 DEF ItemsRight
  <2>2. \A i \in 2..(Len(tail) + 1) : IsItem(s, all[i])
    BY <1>3, <2>1
  <2>3. \A i \in 1..(Len(tail) + 1) : i = 1 \/ i \in 2..(Len(tail) + 1)
    BY <1>3
  <2>4. IsItem(s, all[1])
    BY <1>3
  <2>. QED
    BY <2>2, <2>3, <2>4
<1>5. Behind(p, all) /\ \A i \in 2..(Len(tail) + 1) : z < Min(Covered(all[i]))
  <2>1. ASSUME NEW i \in 1..Len(tail)
        PROVE  Min(Covered(tail[i])) \in Int /\ z < Min(Covered(tail[i])) /\ p <= Min(Covered(tail[i]))
    <3>1. Min(Covered(tail[i])) \in Int /\ z + 1 <= Min(Covered(tail[i]))
      BY <1>3 DEF ItemsRight, Behind
    <3>. QED
      BY <1>0, <3>1
  <2>2. \A i \in 2..(Len(tail) + 1) : Min(Covered(all[i])) \in Int /\ z < Min(Covered(all[i])) /\ p <= Min(Covered(all[i]))
    BY <1>3, <2>1
  <2>3. Min(Covered(all[1])) \in Int /\ p <= Min(Covered(all[1]))
    BY <1>0, <1>2, <1>3
  <2>4. \A i \in DOMAIN all : i = 1 \/ i \in 2..(Len(tail) + 1)
    BY <1>3
  <2>. QED
    BY <2>2, <2>3, <2>4 DEF Behind
<1>6. InTurn(s, all)
  <2>. SUFFICES ASSUME NEW i \in 1..(Len(tail) + 1), NEW j \in 1..(Len(tail) + 1), i < j
                PROVE  Max(Covered(all[i])) < Min(Covered(all[j]))
    BY <1>3 DEF InTurn
  <2>0. j \in 2..(Len(tail) + 1)
    BY <1>3
  <2>1. CASE i = 1
    BY <1>2, <1>3, <1>5, <2>0, <2>1
  <2>2. CASE i # 1
    <3>1. i \in 2..(Len(tail) + 1) /\ i - 1 < j - 1
      BY <1>3, <2>2
    <3>2. i - 1 \in DOMAIN tail /\ j - 1 \in DOMAIN tail /\ all[i] = tail[i - 1] /\ all[j] = tail[j - 1]
      BY <1>3, <2>0, <3>1
    <3>3. InTurn(s, tail)
      BY DEF ItemsRight
    <3>. QED
      BY <3>1, <3>2, <3>3 DEF InTurn
  <2>. QED
    BY <2>1, <2>2
<1>7. AllCovered(s, p, all)
  <2>. SUFFICES ASSUME NEW q \in p..Len(s), s[q] \notin Blanks PROVE \E i \in 1..(Len(tail) + 1) : q \in Covered(all[i])
    BY <1>3 DEF AllCovered
  <2>1. CASE q <= z
    <3>1. q \in Covered(all[1]) /\ 1 \in 1..(Len(tail) + 1)
      BY <1>0, <1>1, <1>3, <2>1
    <3>. QED
      BY <3>1
  <2>2. CASE q > z
    <3>1. q \in (z + 1)..Len(s)
      BY <1>0, <2>2
    <3>2. AllCovered(s, z + 1, tail)
      BY DEF ItemsRight
    <3>3. PICK i \in 1..Len(tail) : q \in Covered(tail[i])
      BY <1>3, <3>1, <3>2 DEF AllCovered
    <3>4. i + 1 \in 2..(Len(tail) + 1) /\ (i + 1) - 1 = i /\ i + 1 \in 1..(Len(tail) + 1)
      BY <1>3
    <3>. QED
      BY <1>3, <3>3, <3>4
  <2>. QED
    BY <1>0, <2>1, <2>2
<1>8. BadIsLast(all)
  <2>. SUFFICES ASSUME NEW i \in 1..(Len(tail) + 1), all[i].kind \in {"unended", "illformed"} PROVE i = Len(tail) + 1
    BY <1>3 DEF BadIsLast
  <2>1. CASE i = 1
    <3>1. z + 1 > Len(s)
      BY <1>0, <1>3, <2>1
    <3>2. tail = <<>>
      BY <3>1 DEF ItemsRight
    <3>. QED
      BY <2>1, <3>2
  <2>2. CASE i # 1
    <3>1. i \in 2..(Len(tail) + 1) /\ i - 1 \in DOMAIN tail /\ all[i] = tail[i - 1]
      BY <1>3, <2>2
    <3>2. i - 1 = Len(tail)
      BY <3>1 DEF ItemsRight, BadIsLast
    <3>. QED
      BY <1>3, <3>2
  <2>. QED
    BY <2>1, <2>2
<1>9. ~ (p > Len(s))
  BY <1>0
<1>. QED
  BY <1>3, <1>4, <1>5, <1>6, <1>7, <1>8, <1>9 DEF ItemsRight, all

LEMMA ItemsAreRight ==
  ASSUME NEW s \in Seq(Chars)
  PROVE  ItemsRight(s, 1, JsonItems(s))
<1> DEFINE n == Len(s) + 1
           g[p \in 1..n] == CASE p > Len(s)                          -> <<>>
                              [] p <= Len(s) /\ s[p] \in Blanks      -> g[p + 1]
                              [] p <= Len(s) /\ s[p] \notin Blanks   ->
                                   LET item == ItemAt(s, p) IN <<item>> \o g[After(item)]
           T == {p \in 1..n : ItemsRight(s, p, g[p])}
<1>0. n \in Nat /\ Len(s) \in Nat
  OBVIOUS
<1>1. JsonItems(s) = g[1]
  BY DEF JsonItems
<1>2. g = [p \in 1..n |-> ItemsFrom(s, g, p)]
  <2>1. PICK h : h = [p \in 1..(Len(s) + 1) |-> ItemsFrom(s, h, p)]
    BY ItemsExist
  <2>. QED
    BY <2>1 DEF ItemsFrom
<1>. HIDE DEF g
<1>3. ASSUME NEW p \in 1..n, \A q \in (p + 1)..n : q \in T PROVE p \in T
  <2>0. g[p] = ItemsFrom(s, g, p)
    BY <1>2
  <2>. SUFFICES ItemsRight(s, p, g[p])
    OBVIOUS
  <2>1. CASE p > Len(s)
    <3>1. g[p] = <<>>
      BY <1>0, <2>0, <2>1 DEF ItemsFrom
    <3>2. <<>> \in Seq(ScanItems) /\ DOMAIN <<>> = {} /\ p..Len(s) = {}
      BY <1>0, <2>1
    <3>. QED
      BY <3>1, <3>2 DEF ItemsRight, InTurn, Behind, AllCovered, BadIsLast
  <2>2. CASE p <= Len(s) /\ s[p] \in Blanks
    <3>1. g[p] = g[p + 1] /\ p + 1 \in (p + 1)..n
      BY <1>0, <2>0, <2>2 DEF ItemsFrom
    <3>2. ItemsRight(s, p + 1, g[p])
      BY <1>3, <3>1
    <3>3. Behind(p, g[p])
      <4>1. ASSUME NEW i \in DOMAIN g[p] PROVE Min(Covered(g[p][i])) \in Int /\ p <= Min(Covered(g[p][i]))
        <5>1. Min(Covered(g[p][i])) \in Int /\ p + 1 <= Min(Covered(g[p][i]))
          BY <3>2 DEF ItemsRight, Behind
        <5>. QED
          BY <5>1
      <4>. QED
        BY <4>1 DEF Behind
    <3>4. AllCovered(s, p, g[p])
      <4>1. \A q \in p..Len(s) : q = p \/ q \in (p + 1)..Len(s)
        BY <1>0
      <4>. QED
        BY <2>2, <3>2, <4>1 DEF ItemsRight, AllCovered
    <3>5. ~ (p > Len(s))
      BY <1>0, <2>2
    <3>. QED
      BY <3>2, <3>3, <3>4, <3>5 DEF ItemsRight
  <2>3. CASE p <= Len(s) /\ s[p] \notin Blanks
    <3>0. p \in 1..Len(s)
      BY <1>0, <2>3
    <3> DEFINE item == ItemAt(s, p)
    <3>1. g[p] = <<item>> \o g[After(item)]
      BY <1>0, <2>0, <2>3 DEF ItemsFrom
    <3>2. Found(s, p, item)
      BY <2>3, <3>0, ItemIsFound
    <3>. HIDE DEF item
    <3>3. PICK z \in p..Len(s) : Spans(item, p, z) /\ IsItem(s, item) /\ (item.kind \in {"unended", "illformed"} => z = Len(s))
      BY <3>2 DEF Found
    <3>4. After(item) = z + 1 /\ z + 1 \in (p + 1)..n
      BY <1>0, <3>0, <3>3 DEF Spans
    <3>5. ItemsRight(s, z + 1, g[z + 1])
      BY <1>3, <3>4
    <3>. QED
      BY <3>0, <3>1, <3>3, <3>4, <3>5, ItemsGrow
  <2>. QED
    BY <1>0, <2>1, <2>2, <2>3
<1>4. 1..n \subseteq T
  <2>. HIDE DEF T, n
  <2>1. 1 \in Nat
    OBVIOUS
  <2>. QED
    BY <1>0, <1>3, <2>1, InductionDown
<1>. QED
  BY <1>0, <1>1, <1>4

LEMMA ScanIsRight ==
  ASSUME NEW s \in Seq(Chars)
  PROVE  ItemsAreTheText(s, JsonItems(s)) /\ JsonItems(s) \in Seq(ScanItems)
<1>1. ItemsRight(s, 1, JsonItems(s)) /\ DOMAIN s = 1..Len(s)
  BY ItemsAreRight
<1>2. InTurn(s, JsonItems(s)) /\ AllCovered(s, 1, JsonItems(s)) /\ BadIsLast(JsonItems(s))
      /\ \A i \in DOMAIN JsonItems(s) : IsItem(s, JsonItems(s)[i])
  BY <1>1 DEF ItemsRight
<1>. QED
  BY <1>1, <1>2 DEF ItemsRight, InTurn, AllCovered, BadIsLast, ItemsAreTheText

(***************************************************************************)
(* What a token says: numbers.                                             *)
(***************************************************************************)
IsReading(g, digits, n) == g = [i \in 0..n |-> IF i = 0 THEN 0 ELSE AddDigit(g[i - 1], digits[i])]

LEMMA ReadingExists ==
  ASSUME NEW digits, NEW n \in Nat
  PROVE  \E g : IsReading(g, digits, n)
<1> DEFINE S == {m \in Nat : \E g : IsReading(g, digits, m)}
<1>1. 0 \in S
  <2> DEFINE g == [i \in 0..0 |-> 0]
  <2>1. IsReading(g, digits, 0)
    <3>1. \A i \in 0..0 : i = 0
      OBVIOUS
    <3>. QED
      BY <3>1 DEF IsReading
  <2>. QED
    BY <2>1
<1>2. ASSUME NEW m \in Nat, m \in S PROVE m + 1 \in S
  <2>1. PICK g : IsReading(g, digits, m)
    BY <1>2
  <2> DEFINE h == [i \in 0..(m + 1) |-> IF i = m + 1 THEN AddDigit(g[m], digits[m + 1]) ELSE g[i]]
  <2>2. \A i \in 0..m : h[i] = g[i]
    OBVIOUS
  <2>3. \A i \in 0..(m + 1) : h[i] = IF i = 0 THEN 0 ELSE AddDigit(h[i - 1], digits[i])
    <3>. SUFFICES ASSUME NEW i \in 0..(m + 1) PROVE h[i] = IF i = 0 THEN 0 ELSE AddDigit(h[i - 1], digits[i])
      OBVIOUS
    <3>1. CASE i = m + 1
      BY <2>2, <3>1
    <3>2. CASE i # m + 1
      <4>1. i \in 0..m /\ (i # 0 => i - 1 \in 0..m)
        BY <3>2
      <4>2. g[i] = IF i = 0 THEN 0 ELSE AddDigit(g[i - 1], digits[i])
        BY <2>1, <4>1 DEF IsReading
      <4>. QED
        BY <2>2, <4>1, <4>2
    <3>. QED
      BY <3>1, <3>2
  <2>4. IsReading(h, digits, m + 1)
    BY <2>3 DEF IsReading
  <2>. QED
    BY <2>4
<1>. HIDE DEF S
<1>3. Nat \subseteq S
  BY <1>1, <1>2, Induction
<1>. QED
  BY <1>3 DEF S

(* The value read so far, v, and that of all the text up to here, p times  *)
(* which it is.                                                            *)
Counts(v, p, total) ==
  \/ v = -1 /\ total > IntMax
  \/ v \in 0..IntMax /\ v * p = total

LEMMA DigitCounts ==
  ASSUME NEW v, NEW d \in 0..9, NEW p \in Nat \ {0}, NEW total \in Nat, Counts(v, 10 * p, total)
  PROVE  Counts(AddDigit(v, d), p, total + d * p)
<1> DEFINE m == d * p
<1>0. m \in Nat /\ IntMax \in Nat
  BY JsonTextAssumption
<1>1. CASE v = -1
  <2>1. total > IntMax /\ AddDigit(v, d) = -1
    BY <1>1 DEF Counts, AddDigit
  <2>. HIDE DEF m
  <2>2. total + m > IntMax
    BY <1>0, <2>1
  <2>. QED
    BY <2>1, <2>2 DEF Counts, m
<1>2. CASE v # -1
  <2>1. v \in 0..IntMax /\ v * (10 * p) = total
    BY <1>2 DEF Counts
  <2> DEFINE w == v * 10 + d
  <2>2. w \in Nat /\ w * p = total + m
    BY <1>0, <2>1
  <2>3. v > (IntMax - d) \div 10 <=> w > IntMax
    BY <1>0, <2>1
  <2>4. CASE w > IntMax
    <3>1. AddDigit(v, d) = -1
      BY <2>3, <2>4 DEF AddDigit
    <3>2. w * p >= w
      <4>. HIDE DEF w
      <4>. QED
        BY <2>2
    <3>. HIDE DEF w, m
    <3>3. total + m > IntMax
      BY <1>0, <2>2, <2>4, <3>2
    <3>. QED
      BY <3>1, <3>3 DEF Counts, m
  <2>5. CASE ~ (w > IntMax)
    <3>1. AddDigit(v, d) = w
      BY <1>2, <2>3, <2>5 DEF AddDigit
    <3>. HIDE DEF w
    <3>2. w \in 0..IntMax
      BY <1>0, <2>2, <2>5
    <3>. QED
      BY <2>2, <3>1, <3>2 DEF Counts
  <2>. QED
    BY <2>4, <2>5
<1>. QED
  BY <1>1, <1>2

(* hlm_json_int64 reads the number its digits write, or refuses it.        *)
LEMMA NumberIsSummed ==
  ASSUME NEW digits \in Seq(0..9), digits # <<>>, NEW negative \in BOOLEAN, NEW terms,
         terms = [i \in DOMAIN digits |-> digits[i] * Raised(10, Len(digits) - i)],
         NEW v, v = SumTo(terms, Len(digits))
  PROVE  JsonInt(negative, digits) = IF v <= IntMax THEN [ok |-> TRUE, out |-> IF negative THEN -v ELSE v] ELSE Bad
<1> DEFINE n == Len(digits)
           run[i \in 0..n] == IF i = 0 THEN 0 ELSE AddDigit(run[i - 1], digits[i])
           S == {i \in 0..n : SumTo(terms, i) \in Nat /\ Counts(run[i], Raised(10, n - i), SumTo(terms, i))}
<1>0. n \in Nat /\ DOMAIN digits = 1..n /\ \A i \in 1..n : digits[i] \in 0..9
  OBVIOUS
<1>1. JsonInt(negative, digits) = IF run[n] = -1 THEN Bad ELSE [ok |-> TRUE, out |-> IF negative THEN -run[n] ELSE run[n]]
  BY DEF JsonInt
<1>2. run = [i \in 0..n |-> IF i = 0 THEN 0 ELSE AddDigit(run[i - 1], digits[i])]
  <2>1. PICK g : IsReading(g, digits, n)
    BY <1>0, ReadingExists
  <2>2. \E h : h = [i \in 0..n |-> IF i = 0 THEN 0 ELSE AddDigit(h[i - 1], digits[i])]
    BY <2>1 DEF IsReading
  <2>. QED
    BY <2>2
<1>. HIDE DEF n, run
<1>3. 0 \in S
  <2>1. run[0] = 0 /\ SumTo(terms, 0) = 0 /\ 0 \in 0..n
    BY <1>0, <1>2, SumStep
  <2>2. Raised(10, n - 0) \in Nat
    <3>1. 10 \in Nat \ {0} /\ n - 0 \in Nat
      BY <1>0
    <3>. QED
      BY <3>1, RaisedPositive
  <2>3. 0 * Raised(10, n - 0) = 0 /\ 0 \in 0..IntMax
    BY <2>2, JsonTextAssumption
  <2>. QED
    BY <2>1, <2>3 DEF Counts
<1>4. \A i \in 0..(n - 1) : i \in S => i + 1 \in S
  <2>. SUFFICES ASSUME NEW i \in 0..(n - 1), i \in S PROVE i + 1 \in S
    OBVIOUS
  <2> DEFINE k == n - (i + 1)
             p == Raised(10, k)
             d == digits[i + 1]
             total == SumTo(terms, i)
  <2>1. k \in Nat /\ n - i = k + 1 /\ i + 1 \in 1..n /\ i + 1 \in 0..n /\ i \in Nat /\ i + 1 # 0 /\ (i + 1) - 1 = i
    BY <1>0
  <2>2. p \in Nat \ {0} /\ Raised(10, n - i) = 10 * p
    <3>1. 10 \in Nat \ {0}
      OBVIOUS
    <3>2. Raised(10, k + 1) = 10 * Raised(10, k)
      BY <2>1, RaisedStep
    <3>3. Raised(10, k) \in Nat \ {0}
      BY <2>1, <3>1, RaisedPositive
    <3>. QED
      BY <2>1, <3>2, <3>3
  <2>3. d \in 0..9 /\ total \in Nat /\ Counts(run[i], 10 * p, total)
    BY <1>0, <2>1, <2>2
  <2>4. run[i + 1] = AddDigit(run[i], d)
    BY <1>2, <2>1
  <2>5. SumTo(terms, i + 1) = total + d * p
    <3>1. SumTo(terms, i + 1) = total + terms[i + 1]
      BY <2>1, SumStep
    <3>2. terms[i + 1] = d * p
      BY <1>0, <2>1 DEF n
    <3>. QED
      BY <3>1, <3>2
  <2>. HIDE DEF p, d, total, k
  <2>6. Counts(AddDigit(run[i], d), p, total + d * p)
    BY <2>2, <2>3, DigitCounts
  <2>7. total + d * p \in Nat
    <3> DEFINE m == d * p
    <3>1. m \in Nat
      BY <2>2, <2>3
    <3>. HIDE DEF m
    <3>2. total + m \in Nat
      BY <2>3, <3>1
    <3>. QED
      BY <3>2 DEF m
  <2>8. Raised(10, n - (i + 1)) = p
    BY DEF p, k
  <2>. QED
    BY <2>1, <2>4, <2>5, <2>6, <2>7, <2>8
<1>. HIDE DEF S
<1>5. 0..n \subseteq S
  BY <1>0, <1>3, <1>4, InductionUpTo
<1>6. v \in Nat /\ Counts(run[n], 1, v)
  <2>1. n \in S
    BY <1>0, <1>5
  <2>2. Raised(10, n - n) = 1
    <3>1. n - n = 0
      BY <1>0
    <3>. QED
      BY <3>1, RaisedStep
  <2>. QED
    BY <2>1, <2>2 DEF S, n
<1> DEFINE w == run[n]
<1>7. IF v <= IntMax THEN w = v ELSE w = -1
  <2>. HIDE DEF w
  <2>1. Counts(w, 1, v)
    BY <1>6 DEF w
  <2>. QED
    BY <1>6, <2>1, JsonTextAssumption DEF Counts
<1>8. v # -1
  BY <1>6
<1>. QED
  BY <1>1, <1>7, <1>8

(***************************************************************************)
(* What a token says: strings.                                             *)
(***************************************************************************)
(* The place of an element in the order of a set.                          *)
Rank(S, x) == Cardinality({y \in S : y <= x})

LEMMA RankGrows ==
  ASSUME NEW S \in SUBSET Int, IsFiniteSet(S), NEW x \in S, NEW z \in S, x < z
  PROVE  Rank(S, x) < Rank(S, z)
<1> DEFINE A == {y \in S : y <= x}
           B == {y \in S : y <= z}
<1>1. A \subseteq S /\ B \subseteq S /\ A \cup {z} \subseteq B /\ z \notin A
  <2>1. z \in Int /\ x \in Int /\ ~ (z <= x) /\ z <= z
    OBVIOUS
  <2>2. \A y \in S : y <= x => y <= z
    <3>1. \A y \in Int : y <= x => y <= z
      BY <2>1
    <3>. QED
      BY <3>1
  <2>. QED
    BY <2>1, <2>2
<1>2. IsFiniteSet(A) /\ IsFiniteSet(B)
  BY <1>1, FS_Subset
<1>. HIDE DEF A, B
<1>3. Cardinality(A) \in Nat /\ Cardinality(B) \in Nat
  BY <1>2, FS_CardinalityType
<1>4. Cardinality(A \cup {z}) = Cardinality(A) + 1
  BY <1>1, <1>2, FS_AddElement
<1>5. Cardinality(A \cup {z}) <= Cardinality(B)
  BY <1>1, <1>2, FS_Subset
<1>6. Cardinality(A) < Cardinality(B)
  BY <1>3, <1>4, <1>5
<1>. QED
  BY <1>6 DEF Rank, A, B

LEMMA NthIs ==
  ASSUME NEW S \in SUBSET Int, IsFiniteSet(S), NEW x \in S, NEW n, Rank(S, x) = n
  PROVE  Nth(S, n) = x
<1>1. \A z \in S : Rank(S, z) = n => z = x
  <2>. SUFFICES ASSUME NEW z \in S, Rank(S, z) = n, z # x PROVE FALSE
    OBVIOUS
  <2>1. z \in Int /\ x \in Int /\ (x < z \/ z < x)
    OBVIOUS
  <2>2. Rank(S, x) \in Nat
    <3>1. {y \in S : y <= x} \subseteq S
      OBVIOUS
    <3>. QED
      BY <3>1, FS_Subset, FS_CardinalityType DEF Rank
  <2>3. CASE x < z
    BY <2>2, <2>3, RankGrows
  <2>4. CASE z < x
    BY <2>2, <2>4, RankGrows
  <2>. QED
    BY <2>1, <2>3, <2>4
<1> DEFINE P(y) == y \in S /\ Rank(S, y) = n
<1>2. Nth(S, n) = CHOOSE y \in S : Rank(S, y) = n
  BY DEF Nth, Rank
<1>. QED
  BY <1>1, <1>2

LEMMA SumGrows ==
  ASSUME NEW f, NEW n \in Nat, \A i \in 1..n : f[i] \in Nat
  PROVE  \A m \in 0..n : SumTo(f, m) \in Nat /\ SumTo(f, m) <= SumTo(f, n)
<1>1. \A m \in 0..n : SumTo(f, m) \in Nat
  BY SumIsNat
<1> DEFINE S == {d \in 0..n : SumTo(f, n - d) <= SumTo(f, n)}
<1>2. 0 \in S
  <2>1. n - 0 = n /\ n \in 0..n
    OBVIOUS
  <2>. QED
    BY <1>1, <2>1
<1>3. \A d \in 0..(n - 1) : d \in S => d + 1 \in S
  <2>. SUFFICES ASSUME NEW d \in 0..(n - 1), SumTo(f, n - d) <= SumTo(f, n) PROVE SumTo(f, n - (d + 1)) <= SumTo(f, n)
    OBVIOUS
  <2> DEFINE k == n - (d + 1)
  <2>1. k \in Nat /\ n - d = k + 1 /\ k \in 0..n /\ k + 1 \in 1..n
    OBVIOUS
  <2>2. SumTo(f, k + 1) = SumTo(f, k) + f[k + 1] /\ f[k + 1] \in Nat
    BY <2>1, SumStep
  <2>3. SumTo(f, k) \in Nat /\ SumTo(f, n) \in Nat
    BY <1>1, <2>1
  <2>4. SumTo(f, k + 1) <= SumTo(f, n)
    BY <2>1
  <2>. QED
    BY <2>2, <2>3, <2>4
<1>. HIDE DEF S
<1>4. 0..n \subseteq S
  BY <1>2, <1>3, InductionUpTo
<1>5. ASSUME NEW m \in 0..n PROVE SumTo(f, m) <= SumTo(f, n)
  <2> DEFINE d == n - m
  <2>1. d \in 0..n /\ n - d = m
    OBVIOUS
  <2>. HIDE DEF d
  <2>2. d \in S
    BY <1>4, <2>1
  <2>. QED
    BY <2>1, <2>2 DEF S
<1>. QED
  BY <1>1, <1>5

(***************************************************************************)
(* UTF-8.                                                                  *)
(***************************************************************************)
Octets == 0..255

\* The bytes that belong to a leading one.
Extra(b) == IF b < 128 THEN 0 ELSE IF b < 224 THEN 1 ELSE IF b < 240 THEN 2 ELSE 3

Begins(b) == b < 128 \/ b >= 192

(* The numbers of characters; a name, since numbers this large are more    *)
(* than Zenon can write.                                                   *)
Points == {n \in Nat : n <= 1114111}

LEMMA SixBits ==
  ASSUME NEW q \in Nat
  PROVE  q \div 64 \in Nat /\ q % 64 \in 0..63 /\ q = (q \div 64) * 64 + (q % 64)
  OBVIOUS

LEMMA DivideTwice ==
  ASSUME NEW q \in Nat, NEW r \in 0..63, NEW p \in Nat, NEW t \in 0..63, NEW n \in Nat, n = q * 64 + r, q = p * 64 + t
  PROVE  n \div 4096 = p
<1>1. n = p * 4096 + (t * 64 + r) /\ t * 64 + r \in Nat /\ t * 64 + r < 4096
  BY SMTT(10)
<1>. QED
  BY <1>1, SMTT(10)

LEMMA DivideThrice ==
  ASSUME NEW q \in Nat, NEW r \in Nat, r < 4096, NEW p \in Nat, NEW t \in 0..63, NEW n \in Nat, n = q * 4096 + r, q = p * 64 + t
  PROVE  n \div 262144 = p
<1>1. n = p * 262144 + (t * 4096 + r) /\ t * 4096 + r \in Nat /\ t * 4096 + r < 262144
  BY SMTT(10)
<1>. QED
  BY <1>1, SMTT(10)

(* What utf8_emit writes of a character.                                   *)
Emits(bytes, cp) ==
  /\ bytes \in Seq(Octets) /\ Len(bytes) = Utf8Length(cp) /\ Len(bytes) = 1 + Extra(bytes[1])
  /\ Begins(bytes[1]) /\ \A k \in 2..Len(bytes) : ~ Begins(bytes[k])
  /\ CodePointAt(bytes, 1) = cp

TwoBytes == {n \in Nat : 128 <= n /\ n < 2048}
ThreeBytes == {n \in Nat : 2048 <= n /\ n < 65536}

LEMMA Utf8Emits ==
  ASSUME NEW cp \in Points
  PROVE  Emits(Utf8(cp), cp)
<1> DEFINE q1 == cp \div 64
           q2 == q1 \div 64
           q3 == q2 \div 64
           r0 == cp % 64
           r1 == q1 % 64
           r2 == q2 % 64
<1>1. cp \in Nat
  BY SMTT(10) DEF Points
<1>2. q1 \in Nat /\ r0 \in 0..63 /\ cp = q1 * 64 + r0
  BY <1>1, SixBits
<1>3. q2 \in Nat /\ r1 \in 0..63 /\ q1 = q2 * 64 + r1
  BY <1>2, SixBits
<1>4. q3 \in Nat /\ r2 \in 0..63 /\ q2 = q3 * 64 + r2
  BY <1>3, SixBits
<1>. HIDE DEF q3, r2
<1>5. cp \div 4096 = q2
  <2>. HIDE DEF q1, q2, r0, r1
  <2>. QED
    BY <1>1, <1>2, <1>3, DivideTwice, SMTT(10)
<1>6. cp \div 262144 = q3
  <2>. HIDE DEF q1, q2, r0, r1
  <2>1. cp = q2 * 4096 + (r1 * 64 + r0) /\ r1 * 64 + r0 \in Nat /\ r1 * 64 + r0 < 4096
    BY <1>2, <1>3, SMTT(10)
  <2>2. cp = q2 * 4096 + (r1 * 64 + r0) /\ r1 * 64 + r0 \in Nat /\ r1 * 64 + r0 < 4096 /\ q2 = q3 * 64 + r2
    BY <2>1, <1>4, SMTT(10)
  <2>. QED
    BY <1>1, <1>3, <1>4, <2>2, DivideThrice, SMTT(10)
<1>7. /\ (cp \div 1) % 64 = r0 /\ (cp \div 64) % 64 = r1 /\ (cp \div 4096) % 64 = r2
      /\ cp \div 64 = q1
  BY <1>1, <1>5, SMTT(10) DEF r2
<1>. HIDE DEF q1, q2, r0, r1
<1>8. CASE cp \in 0..127
  <2>1. Utf8(cp) = <<cp>>
    BY <1>8, SMTT(10) DEF Utf8
  <2>2. <<cp>> \in Seq(Octets) /\ Len(<<cp>>) = 1 /\ Utf8Length(cp) = 1 /\ Extra(cp) = 0 /\ Begins(cp) /\ <<cp>>[1] = cp
    BY <1>8, SMTT(10) DEF Begins, Extra, Utf8Length, Octets
  <2>3. CodePointAt(<<cp>>, 1) = cp
    BY <1>8 DEF CodePointAt
  <2>4. Emits(<<cp>>, cp)
    BY <2>2, <2>3 DEF Emits
  <2>. QED
    BY <2>1, <2>4
<1>9. CASE cp \in TwoBytes
  <2> DEFINE a == 192 + q1
             b == 128 + r0
             s == <<a, b>>
  <2>1. Utf8(cp) = s
    BY <1>7, <1>9, SMTT(10) DEF Utf8, TwoBytes
  <2>2. a \in 194..223 /\ b \in 128..191 /\ a % 32 = q1 /\ b % 64 = r0
    BY <1>2, <1>9, SMTT(10) DEF TwoBytes
  <2>3. cp = (a % 32) * 64 + (b % 64)
    BY <1>2, <2>2
  <2>. HIDE DEF a, b
  <2>4. CodePointAt(s, 1) = (a % 32) * 64 + (b % 64)
    BY <2>2 DEF CodePointAt
  <2>5. /\ s \in Seq(Octets) /\ Len(s) = 2 /\ s[1] = a /\ s[2] = b /\ Utf8Length(cp) = 2 /\ Extra(a) = 1
        /\ Begins(a) /\ ~ Begins(b)
    BY <1>9, <2>2, SMTT(10) DEF Begins, Extra, Utf8Length, Octets, TwoBytes
  <2>. HIDE DEF s
  <2>6. Emits(s, cp)
    BY <2>3, <2>4, <2>5 DEF Emits
  <2>. QED
    BY <2>1, <2>6
<1>10. CASE cp \in ThreeBytes
  <2> DEFINE a == 224 + q2
             b == 128 + r1
             c == 128 + r0
             s == <<a, b, c>>
  <2>1. Utf8(cp) = s
    BY <1>5, <1>7, <1>10, SMTT(10) DEF Utf8, ThreeBytes
  <2>2. a \in 224..239 /\ b \in 128..191 /\ c \in 128..191 /\ a % 16 = q2 /\ b % 64 = r1 /\ c % 64 = r0
    <3>1. q2 \in 0..15
      BY <1>2, <1>3, <1>10, SMTT(10) DEF ThreeBytes
    <3>. QED
      BY <1>2, <1>3, <3>1
  <2>3. cp = ((a % 16) * 64 + (b % 64)) * 64 + (c % 64)
    BY <1>2, <1>3, <2>2
  <2>. HIDE DEF a, b, c
  <2>4. CodePointAt(s, 1) = ((a % 16) * 64 + (b % 64)) * 64 + (c % 64)
    BY <2>2 DEF CodePointAt
  <2>5. /\ s \in Seq(Octets) /\ Len(s) = 3 /\ s[1] = a /\ s[2] = b /\ s[3] = c
        /\ Extra(a) = 2 /\ Begins(a) /\ ~ Begins(b) /\ ~ Begins(c)
    BY <2>2 DEF Begins, Extra, Octets
  <2>6. Utf8Length(cp) = 3
    BY <1>10, SMTT(10) DEF Utf8Length, ThreeBytes
  <2>. HIDE DEF s
  <2>7. Emits(s, cp)
    <3>1. \A k \in 2..3 : k = 2 \/ k = 3
      OBVIOUS
    <3>. QED
      BY <2>3, <2>4, <2>5, <2>6, <3>1 DEF Emits
  <2>. QED
    BY <2>1, <2>7
<1> DEFINE Far == ~ (cp < 128) /\ cp \notin TwoBytes /\ cp \notin ThreeBytes
<1>11. Far => q3 <= 4 /\ Utf8Length(cp) = 4
  BY <1>1, <1>2, <1>3, <1>4, SMTT(10) DEF Points, Utf8Length, TwoBytes, ThreeBytes
<1>12. Far => Utf8(cp) = <<240 + q3, 128 + r2, 128 + r1, 128 + r0>>
  BY <1>1, <1>5, <1>6, <1>7, SMTT(10) DEF Utf8, TwoBytes, ThreeBytes
<1>13. cp \in 0..127 \/ cp \in TwoBytes \/ cp \in ThreeBytes \/ Far
  BY <1>1
<1>. HIDE DEF Far
<1>14. CASE Far
  <2> DEFINE a == 240 + q3
             b == 128 + r2
             c == 128 + r1
             d == 128 + r0
             s == <<a, b, c, d>>
  <2>1. Utf8(cp) = s
    BY <1>12, <1>14
  <2>2. /\ a \in 240..244 /\ b \in 128..191 /\ c \in 128..191 /\ d \in 128..191
        /\ a % 8 = q3 /\ b % 64 = r2 /\ c % 64 = r1 /\ d % 64 = r0
    BY <1>2, <1>3, <1>4, <1>11, <1>14
  <2>3. cp = (((a % 8) * 64 + (b % 64)) * 64 + (c % 64)) * 64 + (d % 64)
    BY <1>2, <1>3, <1>4, <2>2
  <2>. HIDE DEF a, b, c, d
  <2>4. CodePointAt(s, 1) = (((a % 8) * 64 + (b % 64)) * 64 + (c % 64)) * 64 + (d % 64)
    BY <2>2 DEF CodePointAt
  <2>5. /\ s \in Seq(Octets) /\ Len(s) = 4 /\ s[1] = a /\ s[2] = b /\ s[3] = c /\ s[4] = d
        /\ Extra(a) = 3 /\ Begins(a) /\ ~ Begins(b) /\ ~ Begins(c) /\ ~ Begins(d)
    BY <2>2 DEF Begins, Extra, Octets
  <2>. HIDE DEF s
  <2>7. Emits(s, cp)
    <3>1. \A k \in 2..4 : k = 2 \/ k = 3 \/ k = 4
      OBVIOUS
    <3>. QED
      BY <1>11, <1>14, <2>3, <2>4, <2>5, <3>1 DEF Emits
  <2>. QED
    BY <2>1, <2>7
<1>. QED
  BY <1>8, <1>9, <1>10, <1>13, <1>14

(* A character is read where it stands.                                    *)
LEMMA ExtraIs ==
  ASSUME NEW a \in Octets, Begins(a)
  PROVE  \/ a < 128 /\ Extra(a) = 0
         \/ a >= 192 /\ a < 224 /\ Extra(a) = 1
         \/ a >= 224 /\ a < 240 /\ Extra(a) = 2
         \/ a >= 240 /\ Extra(a) = 3
  BY DEF Extra, Begins, Octets

LEMMA PointWithTail ==
  ASSUME NEW s, NEW i, s[i] \in Octets
  PROVE  /\ s[i] < 128 => CodePointAt(s, i) = s[i]
         /\ (s[i] >= 192 /\ s[i] < 224) => CodePointAt(s, i) = (s[i] % 32) * 64 + (s[i + 1] % 64)
         /\ (s[i] >= 224 /\ s[i] < 240) =>
               CodePointAt(s, i) = ((s[i] % 16) * 64 + (s[i + 1] % 64)) * 64 + (s[i + 2] % 64)
         /\ s[i] >= 240 =>
               CodePointAt(s, i) = (((s[i] % 8) * 64 + (s[i + 1] % 64)) * 64 + (s[i + 2] % 64)) * 64 + (s[i + 3] % 64)
<1> DEFINE a == s[i]
<1>1. a \in Octets
  OBVIOUS
<1>2. CASE a < 128
  <2>1. ~ (a \in 192..223) /\ ~ (a \in 224..239) /\ ~ (a >= 240)
    BY <1>1, <1>2 DEF Octets
  <2>2. CodePointAt(s, i) = s[i]
    BY <1>2, <2>1, SMTT(10) DEF CodePointAt
  <2>. QED
    BY <1>1, <1>2, <2>2 DEF Octets
<1>3. CASE a >= 192 /\ a < 224
  <2>1. a \in 192..223 /\ ~ (a < 128)
    BY <1>1, <1>3 DEF Octets
  <2>2. CodePointAt(s, i) = (s[i] % 32) * 64 + (s[i + 1] % 64)
    BY <2>1, SMTT(10) DEF CodePointAt
  <2>. QED
    BY <1>1, <1>3, <2>2 DEF Octets
<1>4. CASE a >= 224 /\ a < 240
  <2>1. a \in 224..239 /\ ~ (a < 128) /\ ~ (a \in 192..223)
    BY <1>1, <1>4 DEF Octets
  <2>2. CodePointAt(s, i) = ((s[i] % 16) * 64 + (s[i + 1] % 64)) * 64 + (s[i + 2] % 64)
    BY <2>1, SMTT(10) DEF CodePointAt
  <2>. QED
    BY <1>1, <1>4, <2>2 DEF Octets
<1>5. CASE a >= 240
  <2>1. ~ (a < 128) /\ ~ (a \in 192..223) /\ ~ (a \in 224..239)
    BY <1>1, <1>5 DEF Octets
  <2>2. CodePointAt(s, i) = (((s[i] % 8) * 64 + (s[i + 1] % 64)) * 64 + (s[i + 2] % 64)) * 64 + (s[i + 3] % 64)
    BY <1>5, <2>1, SMTT(10) DEF CodePointAt
  <2>. QED
    BY <1>1, <1>5, <2>2 DEF Octets
<1>. QED
  BY <1>2, <1>3, <1>4, <1>5

LEMMA PointIsLocal ==
  ASSUME NEW s \in Seq(Octets), NEW t \in Seq(Octets), NEW i \in 1..Len(s), NEW p \in Int, i + p \in 1..Len(t),
         i + Extra(s[i]) <= Len(s), i + p + Extra(s[i]) <= Len(t), Begins(s[i]),
         \A k \in 0..Extra(s[i]) : t[i + p + k] = s[i + k]
  PROVE  CodePointAt(t, i + p) = CodePointAt(s, i)
<1> DEFINE q == i + p
           e == Extra(s[i])
<1>1. s[i] \in Octets /\ q \in Int /\ i \in Int
  OBVIOUS
<1>2. e \in Nat
  BY DEF Extra
<1>3. \A k \in 0..e : t[q + k] = s[i + k]
  OBVIOUS
<1>4. t[q] = s[i]
  <2>1. 0 \in 0..e /\ i + 0 = i /\ q + 0 = q
    BY <1>1, <1>2
  <2>. QED
    BY <1>3, <2>1
<1>5. /\ e >= 1 => t[q + 1] = s[i + 1]
      /\ e >= 2 => t[q + 2] = s[i + 2]
      /\ e >= 3 => t[q + 3] = s[i + 3]
  BY <1>2, <1>3
<1>. HIDE DEF q
<1>6. t[q] \in Octets
  BY <1>1, <1>4
<1>7. \/ s[i] < 128 /\ e = 0
      \/ s[i] >= 192 /\ s[i] < 224 /\ e = 1
      \/ s[i] >= 224 /\ s[i] < 240 /\ e = 2
      \/ s[i] >= 240 /\ e = 3
  BY <1>1, ExtraIs
<1>. HIDE DEF e
<1>8. CodePointAt(t, q) = CodePointAt(s, i)
  <2>1. CASE s[i] < 128
    BY <1>1, <1>4, <1>6, <2>1, PointWithTail
  <2>2. CASE s[i] >= 192 /\ s[i] < 224 /\ e = 1
    <3>1. CodePointAt(t, q) = (t[q] % 32) * 64 + (t[q + 1] % 64)
      BY <1>4, <1>6, <2>2, PointWithTail
    <3>2. CodePointAt(s, i) = (s[i] % 32) * 64 + (s[i + 1] % 64)
      BY <1>1, <2>2, PointWithTail
    <3>. QED
      BY <1>4, <1>5, <2>2, <3>1, <3>2
  <2>3. CASE s[i] >= 224 /\ s[i] < 240 /\ e = 2
    <3>1. CodePointAt(t, q) = ((t[q] % 16) * 64 + (t[q + 1] % 64)) * 64 + (t[q + 2] % 64)
      BY <1>4, <1>6, <2>3, PointWithTail
    <3>2. CodePointAt(s, i) = ((s[i] % 16) * 64 + (s[i + 1] % 64)) * 64 + (s[i + 2] % 64)
      BY <1>1, <2>3, PointWithTail
    <3>. QED
      BY <1>4, <1>5, <2>3, <3>1, <3>2
  <2>4. CASE s[i] >= 240 /\ e = 3
    <3>1. CodePointAt(t, q) = (((t[q] % 8) * 64 + (t[q + 1] % 64)) * 64 + (t[q + 2] % 64)) * 64 + (t[q + 3] % 64)
      BY <1>4, <1>6, <2>4, PointWithTail
    <3>2. CodePointAt(s, i) = (((s[i] % 8) * 64 + (s[i + 1] % 64)) * 64 + (s[i + 2] % 64)) * 64 + (s[i + 3] % 64)
      BY <1>1, <2>4, PointWithTail
    <3>. QED
      BY <1>4, <1>5, <2>4, <3>1, <3>2
  <2>. QED
    BY <1>7, <2>1, <2>2, <2>3, <2>4
<1>. QED
  BY <1>8 DEF q

(* The first c points, and nothing else, are in the bytes.                 *)
Encodes(out, pts, c) ==
  /\ out \in Seq(Octets) /\ Cardinality(Leads(out)) = c
  /\ \A i \in Leads(out) : i + Extra(out[i]) <= Len(out)
  /\ \A k \in 1..c : \E i \in Leads(out) : Rank(Leads(out), i) = k /\ CodePointAt(out, i) = pts[k]

LEMMA LeadsAre ==
  ASSUME NEW out \in Seq(Octets)
  PROVE  /\ Leads(out) = {i \in 1..Len(out) : Begins(out[i])}
         /\ Leads(out) \in SUBSET Int /\ IsFiniteSet(Leads(out))
<1>1. Leads(out) = {i \in 1..Len(out) : Begins(out[i])}
  BY DEF Leads, Begins
<1>2. IsFiniteSet(1..Len(out))
  BY FS_Interval
<1>3. Leads(out) \subseteq 1..Len(out)
  BY <1>1
<1>. QED
  BY <1>1, <1>2, <1>3, FS_Subset

LEMMA NothingEncoded ==
  ASSUME NEW pts
  PROVE  Encodes(<<>>, pts, 0)
<1>1. Leads(<<>>) = {}
  BY DEF Leads
<1>2. <<>> \in Seq(Octets) /\ Cardinality({}) = 0 /\ \A k \in 1..0 : FALSE
  BY FS_EmptySet
<1>. QED
  BY <1>1, <1>2 DEF Encodes

LEMMA EncodesMore ==
  ASSUME NEW out, NEW pts, NEW c \in Nat, Encodes(out, pts, c), NEW cp \in Points, pts[c + 1] = cp
  PROVE  Encodes(out \o Utf8(cp), pts, c + 1)
<1> DEFINE bytes == Utf8(cp)
           all == out \o bytes
           n == Len(out)
           old == Leads(out)
           new == Leads(all)
<1>1. Emits(bytes, cp)
  BY Utf8Emits
<1>. HIDE DEF bytes
<1>2. out \in Seq(Octets) /\ bytes \in Seq(Octets) /\ n \in Nat /\ Len(bytes) \in Nat /\ Len(bytes) >= 1
  <2>1. bytes \in Seq(Octets) /\ Len(bytes) = 1 + Extra(bytes[1])
    BY <1>1 DEF Emits
  <2>2. Extra(bytes[1]) \in Nat
    BY DEF Extra
  <2>. QED
    BY <2>1, <2>2 DEF Encodes
<1>3. /\ all \in Seq(Octets) /\ Len(all) = n + Len(bytes)
      /\ \A i \in 1..n : all[i] = out[i]
      /\ \A k \in 1..Len(bytes) : all[n + k] = bytes[k]
  BY <1>2
<1>. HIDE DEF all
<1>4. new = old \cup {n + 1} /\ n + 1 \notin old
  <2>1. old = {i \in 1..n : Begins(out[i])} /\ new = {i \in 1..(n + Len(bytes)) : Begins(all[i])}
    BY <1>2, <1>3, LeadsAre
  <2>2. all[n + 1] = bytes[1] /\ Begins(bytes[1]) /\ n + 1 \in 1..(n + Len(bytes))
    BY <1>1, <1>2, <1>3 DEF Emits
  <2>3. ASSUME NEW i \in (n + 2)..(n + Len(bytes)) PROVE ~ Begins(all[i])
    <3> DEFINE k == i - n
    <3>1. k \in 2..Len(bytes) /\ k \in 1..Len(bytes) /\ n + k = i
      BY <1>2
    <3>. HIDE DEF k
    <3>2. all[n + k] = bytes[k] /\ ~ Begins(bytes[k])
      BY <1>1, <1>3, <3>1 DEF Emits
    <3>. QED
      BY <3>1, <3>2
  <2>4. \A i \in 1..n : i \in new <=> i \in old
    BY <1>2, <1>3, <2>1
  <2>5. n + 1 \in new /\ n + 1 \notin old
    BY <1>2, <2>1, <2>2
  <2>6. \A i \in new : i \in 1..n \/ i = n + 1
    <3>. SUFFICES ASSUME NEW i \in new, i \notin 1..n, i # n + 1 PROVE FALSE
      OBVIOUS
    <3>1. i \in 1..(n + Len(bytes)) /\ Begins(all[i])
      BY <2>1
    <3>2. i \in (n + 2)..(n + Len(bytes))
      <4>. HIDE DEF new, old
      <4>. QED
        BY <1>2, <3>1
    <3>. QED
      BY <2>3, <3>1, <3>2
  <2>7. old \subseteq 1..n
    BY <2>1
  <2>. HIDE DEF old, new
  <2>. QED
    BY <2>4, <2>5, <2>6, <2>7
<1>5. old \in SUBSET Int /\ IsFiniteSet(old) /\ new \in SUBSET Int /\ IsFiniteSet(new) /\ old \subseteq 1..n
  BY <1>2, <1>3, LeadsAre
<1>6. Cardinality(old) = c /\ Cardinality(new) = c + 1
  <2>1. Cardinality(old) = c
    BY DEF Encodes
  <2>2. Cardinality(old \cup {n + 1}) = Cardinality(old) + 1
    BY <1>4, <1>5, FS_AddElement
  <2>. QED
    BY <1>4, <2>1, <2>2
<1>7. /\ \A i \in old : i + Extra(out[i]) <= n /\ Begins(out[i])
      /\ \A k \in 1..c : \E i \in old : Rank(old, i) = k /\ CodePointAt(out, i) = pts[k]
  BY <1>2, LeadsAre DEF Encodes
<1>8. ASSUME NEW i \in old
      PROVE  /\ i + Extra(all[i]) <= Len(all) /\ CodePointAt(all, i) = CodePointAt(out, i)
             /\ Rank(new, i) = Rank(old, i)
  <2>1. i \in 1..n /\ all[i] = out[i] /\ Extra(out[i]) \in Nat
    BY <1>3, <1>5 DEF Extra
  <2>2. i + Extra(out[i]) <= n /\ Begins(out[i])
    BY <1>7
  <2>3. i + Extra(all[i]) <= Len(all)
    BY <1>2, <1>3, <2>1, <2>2
  <2>4. CodePointAt(all, i + 0) = CodePointAt(out, i)
    <3>1. \A k \in 0..Extra(out[i]) : all[i + 0 + k] = out[i + k]
      <4>. SUFFICES ASSUME NEW k \in 0..Extra(out[i]) PROVE all[i + 0 + k] = out[i + k]
        OBVIOUS
      <4> DEFINE e == Extra(out[i])
      <4>1. e \in Nat /\ k \in 0..e /\ i + e <= n /\ i \in 1..n
        BY <2>1, <2>2
      <4>. HIDE DEF e
      <4>2. i + k \in 1..n /\ i + 0 + k = i + k
        BY <1>2, <4>1
      <4>. QED
        BY <1>3, <4>2
    <3>2. i + 0 \in 1..Len(all) /\ i + 0 + Extra(out[i]) <= Len(all) /\ 0 \in Int
      BY <1>2, <1>3, <2>1, <2>2
    <3>. QED
      BY <1>2, <1>3, <2>1, <2>2, <3>1, <3>2, PointIsLocal
  <2>5. {y \in new : y <= i} = {y \in old : y <= i}
    BY <1>2, <1>4, <1>5, <2>1
  <2>6. Rank(new, i) = Rank(old, i)
    BY <2>5 DEF Rank
  <2>7. i + 0 = i
    BY <2>1
  <2>. QED
    BY <2>3, <2>4, <2>6, <2>7
<1>9. /\ (n + 1) + Extra(all[n + 1]) <= Len(all) /\ CodePointAt(all, n + 1) = cp
      /\ Rank(new, n + 1) = c + 1
  <2>1. all[n + 1] = bytes[1] /\ Len(bytes) = 1 + Extra(bytes[1]) /\ Begins(bytes[1]) /\ CodePointAt(bytes, 1) = cp
    BY <1>1, <1>2, <1>3 DEF Emits
  <2>2. Extra(bytes[1]) \in Nat
    BY DEF Extra
  <2>3. (n + 1) + Extra(all[n + 1]) <= Len(all)
    BY <1>2, <1>3, <2>1, <2>2
  <2>4. CodePointAt(all, 1 + n) = CodePointAt(bytes, 1)
    <3>1. \A k \in 0..Extra(bytes[1]) : all[1 + n + k] = bytes[1 + k]
      <4>. SUFFICES ASSUME NEW k \in 0..Extra(bytes[1]) PROVE all[1 + n + k] = bytes[1 + k]
        OBVIOUS
      <4>1. 1 + k \in 1..Len(bytes) /\ n + (1 + k) = 1 + n + k
        BY <1>2, <2>1, <2>2
      <4>. QED
        BY <1>3, <4>1
    <3>2. 1 + n \in 1..Len(all) /\ 1 + n + Extra(bytes[1]) <= Len(all) /\ n \in Int /\ 1 \in 1..Len(bytes)
          /\ 1 + Extra(bytes[1]) <= Len(bytes)
      BY <1>2, <1>3, <2>1, <2>2
    <3>. QED
      BY <1>2, <1>3, <2>1, <3>1, <3>2, PointIsLocal
  <2>5. {y \in new : y <= n + 1} = new
    BY <1>2, <1>4, <1>5
  <2>6. 1 + n = n + 1
    BY <1>2
  <2>. QED
    BY <1>6, <2>1, <2>3, <2>4, <2>5, <2>6 DEF Rank
<1>10. \A i \in new : i + Extra(all[i]) <= Len(all)
  BY <1>4, <1>8, <1>9
<1>11. ASSUME NEW k \in 1..(c + 1) PROVE \E i \in new : Rank(new, i) = k /\ CodePointAt(all, i) = pts[k]
  <2>1. CASE k = c + 1
    BY <1>4, <1>9, <2>1
  <2>2. CASE k # c + 1
    <3>1. k \in 1..c
      BY <2>2
    <3>2. PICK i \in old : Rank(old, i) = k /\ CodePointAt(out, i) = pts[k]
      BY <1>7, <3>1
    <3>. QED
      BY <1>4, <1>8, <3>2
  <2>. QED
    BY <2>1, <2>2
<1>12. Encodes(all, pts, c + 1)
  BY <1>3, <1>6, <1>10, <1>11 DEF Encodes
<1>. QED
  BY <1>12 DEF all, bytes

LEMMA EncodedIsRead ==
  ASSUME NEW out, NEW c \in Nat, NEW pts, pts = [k \in 1..c |-> pts[k]], Encodes(out, pts, c)
  PROVE  CodePoints(out) = pts
<1> DEFINE S == Leads(out)
<1>1. out \in Seq(Octets) /\ Cardinality(S) = c
  BY DEF Encodes
<1>2. S \in SUBSET Int /\ IsFiniteSet(S)
  BY <1>1, LeadsAre
<1>3. ASSUME NEW k \in 1..c PROVE CodePointAt(out, Nth(S, k)) = pts[k]
  <2>1. PICK i \in S : Rank(S, i) = k /\ CodePointAt(out, i) = pts[k]
    BY DEF Encodes
  <2>2. Nth(S, k) = i
    BY <1>2, <2>1, NthIs
  <2>. QED
    BY <2>1, <2>2
<1>4. CodePoints(out) = [k \in 1..c |-> CodePointAt(out, Nth(S, k))]
  BY <1>1 DEF CodePoints
<1>. HIDE DEF S
<1>5. [k \in 1..c |-> CodePointAt(out, Nth(S, k))] = [k \in 1..c |-> pts[k]]
  BY <1>3
<1>. QED
  BY <1>4, <1>5

(***************************************************************************)
(* Strings: the units of a text, its points in order, and how far the code *)
(* has come with them.                                                     *)
(***************************************************************************)
Units == [kind : {"plain", "escape", "u"}, value : Nat]
OfString(units) ==
  /\ units \in Seq(Units)
  /\ \A i \in DOMAIN units : units[i].value < (IF units[i].kind = "u" THEN 65536 ELSE 128)

\* The points whose last unit is among the first i, and the half pair the i-th may leave behind.
Finished(units, i) == {j \in Starts(units) : j < i \/ (j = i /\ ~ High(units[j]))}
Pending(units, i) == i > 0 /\ High(units[i])

PointLengths(pts) == [k \in DOMAIN pts |-> Utf8Length(pts[k])]

LEMMA LengthIsNat ==
  ASSUME NEW cp
  PROVE  Utf8Length(cp) \in Nat
  BY SMTT(10) DEF Utf8Length

LEMMA HalfIsHalf ==
  ASSUME NEW u \in Units
  PROVE  ~ (High(u) /\ Low(u)) /\ (High(u) \/ Low(u) => u.kind = "u")
<1> DEFINE n == u.value
<1>1. n \in Nat
  BY DEF Units
<1>. HIDE DEF n
<1>2. ~ (n < 56320 /\ 56320 <= n)
  BY <1>1, SMTT(10)
<1>. QED
  BY <1>2, SMTT(10) DEF High, Low, n

LEMMA StartsAre ==
  ASSUME NEW units \in Seq(Units)
  PROVE  /\ Starts(units) \subseteq 1..Len(units) /\ Starts(units) \in SUBSET Int /\ IsFiniteSet(Starts(units))
         /\ Cardinality(Starts(units)) \in Nat
         /\ \A i \in 1..Len(units) : i \in Starts(units) <=> ~ Pending(units, i - 1)
<1>1. Starts(units) \subseteq 1..Len(units) /\ IsFiniteSet(1..Len(units))
  BY FS_Interval DEF Starts
<1>2. IsFiniteSet(Starts(units)) /\ Cardinality(Starts(units)) \in Nat
  BY <1>1, FS_Subset, FS_CardinalityType
<1>3. ASSUME NEW i \in 1..Len(units) PROVE i \in Starts(units) <=> ~ Pending(units, i - 1)
  <2>1. i > 1 <=> i - 1 > 0
    OBVIOUS
  <2>2. i \in DOMAIN units
    OBVIOUS
  <2>. QED
    BY <2>1, <2>2 DEF Starts, Pending
<1>. QED
  BY <1>1, <1>2, <1>3

(* The point that is finished next is the next of the string's points.     *)
LEMMA NextPoint ==
  ASSUME NEW units \in Seq(Units), NEW F \in SUBSET Starts(units), NEW s \in Starts(units), s \notin F,
         {y \in Starts(units) : y <= s} = F \cup {s}
  PROVE  /\ Cardinality(F) \in Nat /\ Cardinality(F \cup {s}) = Cardinality(F) + 1
         /\ Cardinality(F) + 1 \in 1..Cardinality(Starts(units))
         /\ Utf16(units)[Cardinality(F) + 1] = PointAt(units, s)
<1> DEFINE S == Starts(units)
           c == Cardinality(F)
<1>1. S \in SUBSET Int /\ IsFiniteSet(S) /\ Cardinality(S) \in Nat
  BY StartsAre
<1>2. IsFiniteSet(F) /\ c \in Nat
  BY <1>1, FS_Subset, FS_CardinalityType
<1>3. Cardinality(F \cup {s}) = c + 1
  BY <1>2, FS_AddElement
<1>4. c + 1 <= Cardinality(S)
  <2>1. F \cup {s} \subseteq S
    OBVIOUS
  <2>. QED
    BY <1>1, <1>3, <2>1, FS_Subset
<1>5. Rank(S, s) = c + 1
  BY <1>3 DEF Rank
<1>6. Nth(S, c + 1) = s
  BY <1>1, <1>5, NthIs
<1>7. c + 1 \in 1..Cardinality(S)
  BY <1>1, <1>2, <1>4
<1>8. Utf16(units)[c + 1] = PointAt(units, Nth(S, c + 1))
  BY <1>7 DEF Utf16
<1>. QED
  BY <1>2, <1>3, <1>6, <1>7, <1>8

(* What the bytes written so far are.                                      *)
Written(units, out, c) ==
  /\ Encodes(out, Utf16(units), c)
  /\ Len(out) = SumTo(PointLengths(Utf16(units)), c)

LEMMA PointsSummed ==
  ASSUME NEW units \in Seq(Units)
  PROVE  \A k \in 0..Cardinality(Starts(units)) :
           /\ SumTo(PointLengths(Utf16(units)), k) \in Nat
           /\ SumTo(PointLengths(Utf16(units)), k) <= SumTo(PointLengths(Utf16(units)), Cardinality(Starts(units)))
<1> DEFINE f == PointLengths(Utf16(units))
           m == Cardinality(Starts(units))
<1>1. m \in Nat
  BY StartsAre
<1>2. \A k \in 1..m : f[k] \in Nat
  BY LengthIsNat DEF PointLengths, Utf16
<1>. HIDE DEF f, m
<1>3. \A k \in 0..m : SumTo(f, k) \in Nat /\ SumTo(f, k) <= SumTo(f, m)
  BY <1>1, <1>2, SumGrows
<1>. QED
  BY <1>3 DEF f, m

LEMMA WritesMore ==
  ASSUME NEW units \in Seq(Units), NEW out, NEW c \in Nat, Written(units, out, c),
         c + 1 \in 1..Cardinality(Starts(units)), NEW cp \in Points, Utf16(units)[c + 1] = cp
  PROVE  /\ Written(units, out \o Utf8(cp), c + 1)
         /\ out \in Seq(Octets) /\ Utf8(cp) \in Seq(Octets)
         /\ Len(out) + Len(Utf8(cp)) = SumTo(PointLengths(Utf16(units)), c + 1)
<1> DEFINE f == PointLengths(Utf16(units))
           m == Cardinality(Starts(units))
           bytes == Utf8(cp)
<1>1. Emits(bytes, cp)
  BY Utf8Emits
<1>2. bytes \in Seq(Octets) /\ Len(bytes) = Utf8Length(cp) /\ out \in Seq(Octets)
  BY <1>1 DEF Emits, Written, Encodes
<1>3. f[c + 1] = Utf8Length(cp)
  BY DEF PointLengths, Utf16
<1>4. SumTo(f, c + 1) = SumTo(f, c) + f[c + 1]
  BY SumStep
<1>5. Len(out) = SumTo(f, c)
  BY DEF Written
<1>6. Encodes(out \o bytes, Utf16(units), c + 1)
  <2>1. Encodes(out, Utf16(units), c)
    BY DEF Written
  <2>. QED
    BY <2>1, EncodesMore
<1>. HIDE DEF f, bytes
<1>7. Len(out) + Len(bytes) = SumTo(f, c + 1)
  BY <1>2, <1>3, <1>4, <1>5
<1>8. Len(out \o bytes) = Len(out) + Len(bytes)
  <2>1. bytes \in Seq(Octets) /\ out \in Seq(Octets)
    BY <1>2
  <2>. HIDE <1>1, <1>2, <1>3, <1>4, <1>5, <1>6, <1>7
  <2>. QED
    BY <2>1
<1>9. Written(units, out \o bytes, c + 1)
  BY <1>6, <1>7, <1>8 DEF Written, f
<1>. QED
  BY <1>2, <1>7, <1>9 DEF f, bytes

(* What the code knows after i units.                                      *)
RunState == [ok : BOOLEAN, out : Seq(Octets), high : Seq(Units)]
Fits(units, cap) == SumTo(PointLengths(Utf16(units)), Cardinality(Starts(units))) <= cap

PairedUpTo(units, i) ==
  /\ \A p \in 1..Len(units) : p < i /\ High(units[p]) => Low(units[p + 1])
  /\ \A p \in 1..i : Low(units[p]) => p > 1 /\ High(units[p - 1])

Reads(units, cap, i, st) ==
  /\ st \in RunState
  /\ st.ok =>
       /\ st.high = IF Pending(units, i) THEN <<units[i]>> ELSE <<>>
       /\ Pending(units, i) => i \in Starts(units)
       /\ Written(units, st.out, Cardinality(Finished(units, i)))
       /\ PairedUpTo(units, i)
  /\ ~ st.ok => ~ (Paired(units) /\ Fits(units, cap))

(* A finished point is written, or there is no room for the string.        *)
LEMMA PutReads ==
  ASSUME NEW units \in Seq(Units), NEW cap \in Nat, NEW st \in RunState, st.ok, NEW c \in Nat, Written(units, st.out, c),
         c + 1 \in 1..Cardinality(Starts(units)), NEW cp \in Points, Utf16(units)[c + 1] = cp
  PROVE  /\ Put(st, Utf8(cp), cap) \in RunState
         /\ Put(st, Utf8(cp), cap).high = st.high
         /\ Put(st, Utf8(cp), cap).ok => Written(units, Put(st, Utf8(cp), cap).out, c + 1)
         /\ ~ Put(st, Utf8(cp), cap).ok => ~ Fits(units, cap)
<1> DEFINE bytes == Utf8(cp)
           total == SumTo(PointLengths(Utf16(units)), c + 1)
           whole == SumTo(PointLengths(Utf16(units)), Cardinality(Starts(units)))
<1>1. /\ Written(units, st.out \o bytes, c + 1) /\ st.out \in Seq(Octets) /\ bytes \in Seq(Octets)
      /\ Len(st.out) + Len(bytes) = total
  BY WritesMore
<1>2. total <= whole /\ total \in Nat /\ whole \in Nat
  <2>1. Cardinality(Starts(units)) \in Nat
    BY StartsAre
  <2>2. c + 1 \in 0..Cardinality(Starts(units)) /\ Cardinality(Starts(units)) \in 0..Cardinality(Starts(units))
    BY <2>1
  <2>. QED
    BY <2>2, PointsSummed
<1>. HIDE DEF bytes, total, whole
<1>3. CASE total > cap
  <2>1. Put(st, bytes, cap) = [st EXCEPT !.ok = FALSE]
    BY <1>1, <1>3 DEF Put
  <2>2. ~ (whole <= cap)
    BY <1>2, <1>3
  <2>3. ~ Fits(units, cap)
    BY <2>2 DEF Fits, whole
  <2>. QED
    BY <2>1, <2>3 DEF RunState, bytes
<1>4. CASE ~ (total > cap)
  <2>1. Put(st, bytes, cap) = [st EXCEPT !.out = @ \o bytes]
    BY <1>1, <1>4 DEF Put
  <2>2. st.out \o bytes \in Seq(Octets)
    BY <1>1
  <2>. QED
    BY <1>1, <2>1, <2>2 DEF RunState, bytes
<1>. QED
  BY <1>3, <1>4

(* The points.                                                             *)
LEMMA AsciiIsItself ==
  ASSUME NEW n \in Nat, n < 128
  PROVE  Utf8(n) = <<n>>
<1>1. n \in 0..127
  OBVIOUS
<1>. QED
  BY <1>1, SMTT(30) DEF Utf8

LEMMA UnitPoint ==
  ASSUME NEW units, OfString(units), NEW s \in 1..Len(units)
  PROVE  /\ ~ High(units[s]) => PointAt(units, s) = units[s].value /\ units[s].value \in Points
         /\ units[s].kind # "u" => Utf8(units[s].value) = <<units[s].value>>
<1> DEFINE u == units[s]
           n == u.value
<1>1. u \in Units /\ n \in Nat
  <2>1. units \in Seq(Units)
    BY DEF OfString
  <2>2. u \in Units
    BY <2>1
  <2>. HIDE DEF u
  <2>. QED
    BY <2>2 DEF Units
<1>2. n < (IF u.kind = "u" THEN 65536 ELSE 128)
  BY DEF OfString
<1>. HIDE DEF n
<1>3. n \in Points
  BY <1>1, <1>2, SMTT(10) DEF Points
<1>4. u.kind # "u" => Utf8(n) = <<n>>
  <2>1. u.kind # "u" => n < 128
    BY <1>2
  <2>. QED
    BY <1>1, <2>1, AsciiIsItself
<1>5. ~ High(u) => PointAt(units, s) = n
  BY DEF PointAt, n
<1>. QED
  BY <1>3, <1>4, <1>5 DEF n

LEMMA PairPoint ==
  ASSUME NEW units, OfString(units), NEW s \in 1..Len(units), s + 1 \in 1..Len(units), High(units[s]), Low(units[s + 1])
  PROVE  PointAt(units, s) = Pair(units[s], units[s + 1]) /\ Pair(units[s], units[s + 1]) \in Points
<1> DEFINE hi == units[s].value
           lo == units[s + 1].value
<1>1. hi \in Nat /\ lo \in Nat
  <2>1. units \in Seq(Units)
    BY DEF OfString
  <2>2. units[s] \in Units /\ units[s + 1] \in Units
    BY <2>1
  <2>. QED
    BY <2>2 DEF Units
<1>2. 55296 <= hi /\ hi < 56320 /\ 56320 <= lo /\ lo < 57344
  BY SMTT(10) DEF High, Low
<1>3. PointAt(units, s) = (hi - 55232) * 1024 + lo - 56320
  BY SMTT(10) DEF PointAt
<1>4. Pair(units[s], units[s + 1]) = 65536 + (hi - 55296) * 1024 + (lo - 56320)
  BY SMTT(10) DEF Pair
<1>. HIDE DEF hi, lo
<1>5. (hi - 55232) * 1024 + lo - 56320 = 65536 + (hi - 55296) * 1024 + (lo - 56320)
  BY <1>1, SMTT(10)
<1>6. 65536 + (hi - 55296) * 1024 + (lo - 56320) \in Points
  BY <1>1, <1>2, SMTT(10) DEF Points
<1>. QED
  BY <1>3, <1>4, <1>5, <1>6

LEMMA FinishedOfPair ==
  ASSUME NEW units \in Seq(Units), NEW i \in 0..(Len(units) - 1), Pending(units, i), i \in Starts(units)
  PROVE  /\ Finished(units, i) \subseteq Starts(units) /\ i \notin Finished(units, i)
         /\ {y \in Starts(units) : y <= i} = Finished(units, i) \cup {i}
         /\ ~ High(units[i + 1]) => Finished(units, i + 1) = Finished(units, i) \cup {i}
<1> DEFINE S == Starts(units)
<1>1. S \subseteq 1..Len(units) /\ Len(units) \in Nat
  BY StartsAre
<1>2. High(units[i])
  BY DEF Pending
<1>3. i + 1 \notin S
  <2>1. i + 1 \in 1..Len(units) /\ (i + 1) - 1 = i
    BY <1>1
  <2>. QED
    BY <2>1, StartsAre
<1>4. \A j \in S : (j <= i <=> j < i \/ j = i) /\ (j < i + 1 <=> j < i \/ j = i) /\ j # i + 1
  BY <1>1, <1>3
<1>. HIDE DEF S
<1>5. Finished(units, i) = {j \in S : j < i}
  BY <1>2 DEF Finished, S
<1>6. i \in S
  BY DEF S
<1>7. {y \in S : y <= i} = {j \in S : j < i} \cup {i}
  BY <1>4, <1>6
<1>8. Finished(units, i + 1) = {j \in S : j < i} \cup {i}
  BY <1>4, <1>6 DEF Finished, S
<1>9. i \notin {j \in S : j < i}
  OBVIOUS
<1>. QED
  BY <1>5, <1>7, <1>8, <1>9 DEF S

LEMMA FinishedOfUnit ==
  ASSUME NEW units \in Seq(Units), NEW i \in 0..(Len(units) - 1), ~ Pending(units, i)
  PROVE  /\ i + 1 \in Starts(units)
         /\ Finished(units, i) \subseteq Starts(units) /\ i + 1 \notin Finished(units, i)
         /\ {y \in Starts(units) : y <= i + 1} = Finished(units, i) \cup {i + 1}
         /\ High(units[i + 1]) => Finished(units, i + 1) = Finished(units, i)
         /\ ~ High(units[i + 1]) => Finished(units, i + 1) = Finished(units, i) \cup {i + 1}
<1> DEFINE S == Starts(units)
           s == i + 1
<1>1. S \subseteq 1..Len(units) /\ Len(units) \in Nat
  BY StartsAre
<1>2. s \in S
  <2>1. s \in 1..Len(units) /\ s - 1 = i
    BY <1>1
  <2>. QED
    BY <2>1, StartsAre
<1>3. \A j \in S : j = i => ~ High(units[j])
  BY <1>1 DEF Pending
<1>4. \A j \in S : (j <= s <=> j < s \/ j = s) /\ (j < s <=> j < i \/ j = i) /\ ~ (s < i) /\ s # i
  BY <1>1
<1>5. ~ (s < s)
  OBVIOUS
<1>. HIDE DEF S, s
<1>6. Finished(units, i) = {j \in S : j < s}
  BY <1>3, <1>4 DEF Finished, S
<1>7. {y \in S : y <= s} = {j \in S : j < s} \cup {s}
  BY <1>2, <1>4
<1>8. Finished(units, s) = {j \in S : j < s \/ (j = s /\ ~ High(units[s]))}
  BY DEF Finished, S
<1>9. High(units[s]) => Finished(units, s) = {j \in S : j < s}
  BY <1>8
<1>10. ~ High(units[s]) => Finished(units, s) = {j \in S : j < s} \cup {s}
  BY <1>2, <1>8
<1>. QED
  BY <1>2, <1>5, <1>6, <1>7, <1>9, <1>10 DEF S, s

LEMMA FinishedAtEnd ==
  ASSUME NEW units \in Seq(Units), ~ Pending(units, Len(units))
  PROVE  Finished(units, Len(units)) = Starts(units)
<1> DEFINE S == Starts(units)
           n == Len(units)
<1>1. S \subseteq 1..n /\ n \in Nat
  BY StartsAre
<1>2. \A j \in S : j < n \/ (j = n /\ ~ High(units[j]))
  <2>1. \A j \in S : j < n \/ (j = n /\ j > 0)
    BY <1>1
  <2>. QED
    BY <2>1 DEF Pending
<1>. QED
  BY <1>2 DEF Finished

LEMMA CountFinished ==
  ASSUME NEW units \in Seq(Units), NEW i
  PROVE  Finished(units, i) \in SUBSET Starts(units) /\ Cardinality(Finished(units, i)) \in Nat
<1>1. Finished(units, i) \subseteq Starts(units)
  BY DEF Finished
<1>. QED
  BY <1>1, StartsAre, FS_Subset, FS_CardinalityType

(* A unit that does not pair as it should spoils the string for good.      *)
LEMMA Unpaired ==
  ASSUME NEW units \in Seq(Units), NEW i \in 0..(Len(units) - 1),
         \/ i > 0 /\ High(units[i]) /\ ~ Low(units[i + 1])
         \/ ~ (i > 0 /\ High(units[i])) /\ Low(units[i + 1])
  PROVE  ~ Paired(units)
<1>1. i + 1 \in DOMAIN units /\ (i > 0 => i \in DOMAIN units) /\ (i + 1) - 1 = i /\ (i + 1 > 1 <=> i > 0)
  OBVIOUS
<1>. QED
  BY <1>1 DEF Paired

LEMMA PairedFurther ==
  ASSUME NEW units \in Seq(Units), NEW i \in 0..(Len(units) - 1), PairedUpTo(units, i),
         Pending(units, i) <=> Low(units[i + 1])
  PROVE  PairedUpTo(units, i + 1)
<1>1. ASSUME NEW p \in 1..Len(units), p < i + 1, High(units[p]) PROVE Low(units[p + 1])
  <2>1. CASE p < i
    BY <1>1, <2>1 DEF PairedUpTo
  <2>2. CASE ~ (p < i)
    <3>1. p = i /\ i > 0
      BY <1>1, <2>2
    <3>. QED
      BY <1>1, <3>1 DEF Pending
  <2>. QED
    BY <2>1, <2>2
<1>2. ASSUME NEW p \in 1..(i + 1), Low(units[p]) PROVE p > 1 /\ High(units[p - 1])
  <2>1. CASE p = i + 1
    <3>1. i > 0 /\ High(units[i])
      BY <1>2, <2>1 DEF Pending
    <3>2. p - 1 = i /\ p > 1
      BY <2>1, <3>1
    <3>. QED
      BY <3>1, <3>2
  <2>2. CASE p # i + 1
    <3>1. p \in 1..i
      BY <2>2
    <3>. QED
      BY <1>2, <3>1 DEF PairedUpTo
  <2>. QED
    BY <2>1, <2>2
<1>. QED
  BY <1>1, <1>2 DEF PairedUpTo

(* One unit more.                                                          *)
LEMMA UnescapeReads ==
  ASSUME NEW units, OfString(units), NEW cap \in Nat, NEW i \in 0..(Len(units) - 1), NEW st, Reads(units, cap, i, st)
  PROVE  Reads(units, cap, i + 1, Unescape(st, units[i + 1], cap))
<1> DEFINE u == units[i + 1]
           next == Unescape(st, u, cap)
           c == Cardinality(Finished(units, i))
<1>1. /\ units \in Seq(Units) /\ i + 1 \in 1..Len(units) /\ i \in Nat /\ (i > 0 => i \in 1..Len(units)) /\ i + 1 > 0
  BY DEF OfString
<1>2. u \in Units /\ st \in RunState /\ ~ (High(u) /\ Low(u)) /\ (High(u) \/ Low(u) => u.kind = "u")
  BY <1>1, HalfIsHalf DEF Reads
<1>3. CASE ~ st.ok
  <2>1. next = st
    BY <1>3 DEF Unescape
  <2>. QED
    BY <1>3, <2>1 DEF Reads
<1>4. CASE st.ok /\ Pending(units, i)
  <2>1. st.high = <<units[i]>> /\ i \in Starts(units) /\ Written(units, st.out, c) /\ PairedUpTo(units, i)
    BY <1>4 DEF Reads
  <2>2. st.high # <<>> /\ st.high[1] = units[i] /\ i > 0 /\ High(units[i])
    BY <1>4, <2>1 DEF Pending
  <2>3. CASE ~ Low(u)
    <3>1. next = [st EXCEPT !.ok = FALSE]
      BY <1>4, <2>2, <2>3 DEF Unescape
    <3>2. ~ Paired(units)
      BY <1>1, <2>2, <2>3, Unpaired
    <3>3. next \in RunState /\ ~ next.ok
      BY <1>2, <3>1 DEF RunState
    <3>. QED
      BY <3>2, <3>3 DEF Reads
  <2>4. CASE Low(u)
    <3> DEFINE open == [st EXCEPT !.high = <<>>]
               cp == Pair(units[i], u)
    <3>1. next = Put(open, Utf8(cp), cap)
      BY <1>4, <2>2, <2>4 DEF Unescape
    <3>2. cp \in Points /\ PointAt(units, i) = cp
      BY <1>1, <2>2, <2>4, PairPoint
    <3>3. /\ Finished(units, i) \in SUBSET Starts(units) /\ i \notin Finished(units, i)
          /\ {y \in Starts(units) : y <= i} = Finished(units, i) \cup {i}
          /\ Finished(units, i + 1) = Finished(units, i) \cup {i}
      BY <1>1, <1>2, <1>4, <2>1, <2>4, FinishedOfPair
    <3>4. /\ c \in Nat /\ Cardinality(Finished(units, i + 1)) = c + 1 /\ c + 1 \in 1..Cardinality(Starts(units))
          /\ Utf16(units)[c + 1] = cp
      BY <1>1, <2>1, <3>2, <3>3, NextPoint
    <3>5. open \in RunState /\ open.ok /\ open.out = st.out /\ open.high = <<>>
      <4> DEFINE none == <<>>
      <4>1. none \in Seq(Units)
        OBVIOUS
      <4>. HIDE DEF none
      <4>2. open = [st EXCEPT !.high = none]
        BY DEF none
      <4>. HIDE DEF open
      <4>. QED
        BY <1>2, <1>4, <4>1, <4>2 DEF RunState, none
    <3>. HIDE DEF open, cp, next, c
    <3>6. /\ next \in RunState /\ next.high = <<>> /\ (next.ok => Written(units, next.out, c + 1))
          /\ (~ next.ok => ~ Fits(units, cap))
      BY <1>1, <2>1, <3>1, <3>2, <3>4, <3>5, PutReads
    <3>7. ~ Pending(units, i + 1)
      BY <1>2, <2>4 DEF Pending
    <3>8. PairedUpTo(units, i + 1)
      BY <1>1, <1>4, <2>1, <2>4, PairedFurther
    <3>9. Reads(units, cap, i + 1, next)
      BY <3>4, <3>6, <3>7, <3>8 DEF Reads
    <3>. QED
      BY <3>9 DEF next
  <2>. QED
    BY <2>3, <2>4
<1>5. CASE st.ok /\ ~ Pending(units, i)
  <2>1. st.high = <<>> /\ Written(units, st.out, c) /\ PairedUpTo(units, i)
    BY <1>5 DEF Reads
  <2>2. /\ i + 1 \in Starts(units)
        /\ Finished(units, i) \subseteq Starts(units) /\ i + 1 \notin Finished(units, i)
        /\ {y \in Starts(units) : y <= i + 1} = Finished(units, i) \cup {i + 1}
        /\ High(u) => Finished(units, i + 1) = Finished(units, i)
        /\ ~ High(u) => Finished(units, i + 1) = Finished(units, i) \cup {i + 1}
    BY <1>1, <1>5, FinishedOfUnit
  <2>3. CASE Low(u)
    <3>1. next = [st EXCEPT !.ok = FALSE]
      BY <1>2, <1>5, <2>1, <2>3 DEF Unescape
    <3>2. ~ Paired(units)
      BY <1>1, <1>5, <2>3, Unpaired DEF Pending
    <3>3. next \in RunState /\ ~ next.ok
      BY <1>2, <3>1 DEF RunState
    <3>. QED
      BY <3>2, <3>3 DEF Reads
  <2>4. CASE High(u)
    <3>1. next = [st EXCEPT !.high = <<u>>]
      BY <1>2, <1>5, <2>1, <2>4 DEF Unescape
    <3>2. next \in RunState /\ next.ok /\ next.out = st.out /\ next.high = <<u>>
      <4> DEFINE half == <<u>>
      <4>1. half \in Seq(Units)
        BY <1>2
      <4>. HIDE DEF half, u
      <4>2. next = [st EXCEPT !.high = half]
        BY <3>1 DEF half
      <4>. HIDE DEF next
      <4>. QED
        BY <1>2, <1>5, <4>1, <4>2 DEF RunState, half
    <3>3. Pending(units, i + 1)
      BY <1>1, <2>4 DEF Pending
    <3>4. PairedUpTo(units, i + 1)
      BY <1>1, <1>2, <1>5, <2>1, <2>4, PairedFurther
    <3>5. Written(units, next.out, Cardinality(Finished(units, i + 1)))
      BY <2>1, <2>2, <2>4, <3>2
    <3>. HIDE DEF next, c
    <3>6. Reads(units, cap, i + 1, next)
      BY <2>2, <3>2, <3>3, <3>4, <3>5 DEF Reads
    <3>. QED
      BY <3>6 DEF next
  <2>5. CASE ~ High(u) /\ ~ Low(u)
    <3> DEFINE cp == u.value
    <3>1. next = Put(st, Utf8(cp), cap)
      <4>1. u.kind = "u" => next = Put(st, Utf8(u.value), cap)
        BY <1>5, <2>1, <2>5 DEF Unescape
      <4>2. u.kind # "u" => next = Put(st, <<u.value>>, cap)
        BY <1>5, <2>1, <2>5 DEF Unescape
      <4>3. u.kind # "u" => Utf8(u.value) = <<u.value>>
        BY <1>1, UnitPoint
      <4>. QED
        BY <4>1, <4>2, <4>3
    <3>2. cp \in Points /\ PointAt(units, i + 1) = cp
      BY <1>1, <2>5, UnitPoint
    <3>3. /\ c \in Nat /\ Cardinality(Finished(units, i + 1)) = c + 1 /\ c + 1 \in 1..Cardinality(Starts(units))
          /\ Utf16(units)[c + 1] = cp
      <4>1. Finished(units, i) \in SUBSET Starts(units) /\ Finished(units, i + 1) = Finished(units, i) \cup {i + 1}
        BY <2>2, <2>5
      <4>. QED
        BY <1>1, <2>2, <3>2, <4>1, NextPoint
    <3>. HIDE DEF cp, next, c
    <3>4. /\ next \in RunState /\ next.high = <<>> /\ (next.ok => Written(units, next.out, c + 1))
          /\ (~ next.ok => ~ Fits(units, cap))
      BY <1>1, <1>2, <1>5, <2>1, <3>1, <3>2, <3>3, PutReads
    <3>5. ~ Pending(units, i + 1)
      BY <2>5 DEF Pending
    <3>6. PairedUpTo(units, i + 1)
      BY <1>1, <1>5, <2>1, <2>5, PairedFurther
    <3>7. Reads(units, cap, i + 1, next)
      BY <3>3, <3>4, <3>5, <3>6 DEF Reads
    <3>. QED
      BY <3>7 DEF next
  <2>. QED
    BY <2>3, <2>4, <2>5
<1>. QED
  BY <1>3, <1>4, <1>5

IsUnescaping(g, units, cap, n) ==
  g = [i \in 0..n |-> IF i = 0 THEN [ok |-> TRUE, out |-> <<>>, high |-> <<>>] ELSE Unescape(g[i - 1], units[i], cap)]

LEMMA UnescapingExists ==
  ASSUME NEW units, NEW cap, NEW n \in Nat
  PROVE  \E g : IsUnescaping(g, units, cap, n)
<1> DEFINE begun == [ok |-> TRUE, out |-> <<>>, high |-> <<>>]
           S == {m \in Nat : \E g : IsUnescaping(g, units, cap, m)}
<1>1. 0 \in S
  <2> DEFINE g == [i \in 0..0 |-> begun]
  <2>1. IsUnescaping(g, units, cap, 0)
    <3>1. \A i \in 0..0 : i = 0
      OBVIOUS
    <3>. QED
      BY <3>1 DEF IsUnescaping
  <2>. QED
    BY <2>1
<1>2. ASSUME NEW m \in Nat, m \in S PROVE m + 1 \in S
  <2>1. PICK g : IsUnescaping(g, units, cap, m)
    BY <1>2
  <2> DEFINE h == [i \in 0..(m + 1) |-> IF i = m + 1 THEN Unescape(g[m], units[m + 1], cap) ELSE g[i]]
  <2>2. \A i \in 0..m : h[i] = g[i]
    OBVIOUS
  <2>3. \A i \in 0..(m + 1) : h[i] = IF i = 0 THEN begun ELSE Unescape(h[i - 1], units[i], cap)
    <3>. SUFFICES ASSUME NEW i \in 0..(m + 1) PROVE h[i] = IF i = 0 THEN begun ELSE Unescape(h[i - 1], units[i], cap)
      OBVIOUS
    <3>1. CASE i = m + 1
      BY <2>2, <3>1
    <3>2. CASE i # m + 1
      <4>1. i \in 0..m /\ (i # 0 => i - 1 \in 0..m)
        BY <3>2
      <4>2. g[i] = IF i = 0 THEN begun ELSE Unescape(g[i - 1], units[i], cap)
        BY <2>1, <4>1 DEF IsUnescaping
      <4>. QED
        BY <2>2, <4>1, <4>2
    <3>. QED
      BY <3>1, <3>2
  <2>4. IsUnescaping(h, units, cap, m + 1)
    BY <2>3 DEF IsUnescaping
  <2>. QED
    BY <2>4
<1>. HIDE DEF S
<1>3. Nat \subseteq S
  BY <1>1, <1>2, Induction
<1>. QED
  BY <1>3 DEF S

LEMMA NothingRead ==
  ASSUME NEW units, OfString(units), NEW cap \in Nat
  PROVE  Reads(units, cap, 0, [ok |-> TRUE, out |-> <<>>, high |-> <<>>])
<1> DEFINE st == [ok |-> TRUE, out |-> <<>>, high |-> <<>>]
           pts == Utf16(units)
<1>1. units \in Seq(Units)
  BY DEF OfString
<1>2. st \in RunState
  BY DEF RunState
<1>3. ~ Pending(units, 0)
  BY DEF Pending
<1>4. Cardinality(Finished(units, 0)) = 0
  <2>1. Starts(units) \subseteq 1..Len(units)
    BY <1>1, StartsAre
  <2>2. Finished(units, 0) = {}
    BY <1>1, <2>1 DEF Finished
  <2>. QED
    BY <2>2, FS_EmptySet
<1>5. Encodes(<<>>, pts, 0)
  BY NothingEncoded
<1>6. SumTo(PointLengths(pts), 0) = 0 /\ Len(<<>>) = 0
  BY SumStep
<1>. HIDE DEF pts
<1>7. Written(units, <<>>, 0)
  BY <1>5, <1>6 DEF Written, pts
<1>8. PairedUpTo(units, 0)
  <2>1. \A p \in 1..Len(units) : ~ (p < 0)
    BY <1>1
  <2>2. \A p \in 1..0 : FALSE
    OBVIOUS
  <2>. QED
    BY <2>1, <2>2 DEF PairedUpTo
<1>9. st.ok /\ st.out = <<>> /\ st.high = <<>>
  OBVIOUS
<1>. HIDE DEF st
<1>10. Reads(units, cap, 0, st)
  BY <1>2, <1>3, <1>4, <1>7, <1>8, <1>9 DEF Reads
<1>. QED
  BY <1>10 DEF st

LEMMA AllRead ==
  ASSUME NEW units, OfString(units), NEW cap \in Nat, NEW st, Reads(units, cap, Len(units), st)
  PROVE  /\ st.ok /\ st.high = <<>> =>
              /\ Paired(units) /\ st.out \in Seq(Octets)
              /\ Len(st.out) = SumTo(PointLengths(Utf16(units)), Cardinality(Starts(units)))
              /\ CodePoints(st.out) = Utf16(units)
         /\ ~ (st.ok /\ st.high = <<>>) => ~ (Paired(units) /\ Fits(units, cap))
<1> DEFINE n == Len(units)
           m == Cardinality(Starts(units))
<1>1. units \in Seq(Units) /\ n \in Nat /\ DOMAIN units = 1..n /\ m \in Nat
  BY StartsAre DEF OfString
<1>2. CASE ~ st.ok
  BY <1>2 DEF Reads
<1>3. CASE st.ok /\ Pending(units, n)
  <2>1. st.high # <<>>
    <3>1. st.high = <<units[n]>>
      BY <1>3 DEF Reads
    <3>2. Len(<<units[n]>>) = 1 /\ Len(<<>>) = 0
      OBVIOUS
    <3>. QED
      BY <3>1, <3>2
  <2>2. High(units[n]) /\ n \in 1..n /\ ~ (n < n)
    BY <1>1, <1>3 DEF Pending
  <2>3. ~ Paired(units)
    BY <1>1, <2>2 DEF Paired
  <2>. QED
    BY <2>1, <2>3
<1>4. CASE st.ok /\ ~ Pending(units, n)
  <2>1. st.high = <<>> /\ Written(units, st.out, Cardinality(Finished(units, n))) /\ PairedUpTo(units, n)
    BY <1>4 DEF Reads
  <2>2. Written(units, st.out, m)
    BY <1>1, <1>4, <2>1, FinishedAtEnd
  <2>3. Paired(units)
    <3>1. ASSUME NEW p \in 1..n, High(units[p]) PROVE p < n /\ Low(units[p + 1])
      <4>3. ~ (n > 0 /\ High(units[n]))
        BY <1>4 DEF Pending
      <4>. HIDE DEF n
      <4>1. p # n
        <5>. SUFFICES ASSUME p = n PROVE FALSE
          OBVIOUS
        <5>1. n > 0
          BY <1>1
        <5>. QED
          BY <3>1, <4>3, <5>1, Zenon
      <4>2. p < n
        BY <1>1, <4>1
      <4>. QED
        BY <2>1, <3>1, <4>2 DEF PairedUpTo, n
    <3>2. ASSUME NEW p \in 1..n, Low(units[p]) PROVE p > 1 /\ High(units[p - 1])
      BY <2>1, <3>2 DEF PairedUpTo
    <3>. QED
      BY <1>1, <3>1, <3>2 DEF Paired
  <2>4. st.out \in Seq(Octets) /\ Len(st.out) = SumTo(PointLengths(Utf16(units)), m) /\ Encodes(st.out, Utf16(units), m)
    BY <2>2 DEF Written, Encodes
  <2>5. CodePoints(st.out) = Utf16(units)
    <3> DEFINE pts == Utf16(units)
    <3>1. pts = [k \in 1..m |-> pts[k]]
      BY DEF Utf16
    <3>. HIDE DEF pts
    <3>2. Encodes(st.out, pts, m)
      BY <2>4 DEF pts
    <3>3. CodePoints(st.out) = pts
      BY <1>1, <3>1, <3>2, EncodedIsRead
    <3>. QED
      BY <3>3 DEF pts
  <2>. QED
    BY <1>4, <2>1, <2>3, <2>4, <2>5
<1>. QED
  BY <1>2, <1>3, <1>4

(* hlm_json_string gives back the points the units say, or refuses.        *)
LEMMA StringIsDecoded ==
  ASSUME NEW units, OfString(units), NEW cap \in Nat, NEW length,
         length = SumTo(PointLengths(Utf16(units)), Len(Utf16(units)))
  PROVE  IF Paired(units) /\ length < cap
         THEN /\ JsonString(units, cap).ok /\ CodePoints(JsonString(units, cap).out) = Utf16(units)
              /\ Len(JsonString(units, cap).out) = length
         ELSE ~ JsonString(units, cap).ok
<1> DEFINE n == Len(units)
           m == Cardinality(Starts(units))
           begun == [ok |-> TRUE, out |-> <<>>, high |-> <<>>]
           run[i \in 0..n] == IF i = 0 THEN begun ELSE Unescape(run[i - 1], units[i], cap)
           end == run[n]
           S == {i \in 0..n : Reads(units, cap, i, run[i])}
<1>1. n \in Nat /\ units \in Seq(Units) /\ m \in Nat
  BY StartsAre DEF OfString
<1>2. run = [i \in 0..n |-> IF i = 0 THEN begun ELSE Unescape(run[i - 1], units[i], cap)]
  <2>1. \E g : IsUnescaping(g, units, cap, n)
    BY <1>1, UnescapingExists
  <2>2. \E h : h = [i \in 0..n |-> IF i = 0 THEN begun ELSE Unescape(h[i - 1], units[i], cap)]
    BY <2>1 DEF IsUnescaping
  <2>. QED
    BY <2>2
<1>3. JsonString(units, cap) =
        IF end.ok /\ end.high = <<>> /\ Len(end.out) + 1 <= cap THEN [ok |-> TRUE, out |-> end.out] ELSE Bad
  BY DEF JsonString
<1>. HIDE DEF run, n
<1>4. 0 \in S
  <2>1. run[0] = begun /\ 0 \in 0..n
    BY <1>1, <1>2
  <2>. HIDE DEF begun
  <2>2. Reads(units, cap, 0, begun)
    BY NothingRead DEF begun
  <2>. QED
    BY <2>1, <2>2
<1>. HIDE DEF begun
<1>5. \A i \in 0..(n - 1) : i \in S => i + 1 \in S
  <2>. SUFFICES ASSUME NEW i \in 0..(n - 1), Reads(units, cap, i, run[i]) PROVE Reads(units, cap, i + 1, run[i + 1])
    BY <1>1
  <2>1. i + 1 \in 0..n /\ i + 1 # 0 /\ (i + 1) - 1 = i
    BY <1>1
  <2>2. run[i + 1] = Unescape(run[i], units[i + 1], cap)
    BY <1>2, <2>1
  <2>3. i \in 0..(Len(units) - 1)
    BY DEF n
  <2>. QED
    BY <2>2, <2>3, UnescapeReads
<1>. HIDE DEF S
<1>6. 0..n \subseteq S
  BY <1>1, <1>4, <1>5, InductionUpTo
<1>7. Reads(units, cap, Len(units), end)
  <2>1. n \in 0..n
    BY <1>1
  <2>. QED
    BY <1>6, <2>1 DEF S, n
<1>. HIDE DEF end
<1>8. length = SumTo(PointLengths(Utf16(units)), m) /\ length \in Nat
  <2>1. Len(Utf16(units)) = m
    BY <1>1 DEF Utf16
  <2>2. m \in 0..m
    BY <1>1
  <2>. QED
    BY <1>1, <2>1, <2>2, PointsSummed
<1>9. CASE end.ok /\ end.high = <<>>
  <2>1. /\ Paired(units) /\ end.out \in Seq(Octets) /\ Len(end.out) = length
        /\ CodePoints(end.out) = Utf16(units)
    BY <1>7, <1>8, <1>9, AllRead
  <2>2. Len(end.out) + 1 <= cap <=> length < cap
    BY <1>8, <2>1
  <2>3. CASE length < cap
    <3>1. JsonString(units, cap) = [ok |-> TRUE, out |-> end.out]
      BY <1>3, <1>9, <2>2, <2>3
    <3>. QED
      BY <2>1, <2>3, <3>1
  <2>4. CASE ~ (length < cap)
    <3>1. JsonString(units, cap) = Bad
      BY <1>3, <2>2, <2>4
    <3>. QED
      BY <2>4, <3>1 DEF Bad
  <2>. QED
    BY <2>3, <2>4
<1>10. CASE ~ (end.ok /\ end.high = <<>>)
  <2>1. ~ (Paired(units) /\ Fits(units, cap))
    BY <1>7, <1>10, AllRead
  <2>2. length < cap => Fits(units, cap)
    BY <1>8 DEF Fits
  <2>3. JsonString(units, cap) = Bad
    BY <1>3, <1>10
  <2>. QED
    BY <2>1, <2>2, <2>3 DEF Bad
<1>. QED
  BY <1>9, <1>10
=============================================================================
