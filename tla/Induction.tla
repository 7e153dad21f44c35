------------------------------ MODULE Induction ------------------------------
(***************************************************************************)
(* Facts about data that the proofs of the modules share: induction on     *)
(* numbers in a form without operator parameters, for which it is enough   *)
(* to name the set of the numbers that have the property, the sum of a     *)
(* function, and sequences into which an element is put or that lose one.  *)
(***************************************************************************)
EXTENDS Sums, Sequences, SequencesExt, SequenceTheorems, FiniteSetTheorems, TLAPS

-----------------------------------------------------------------------------
(* Induction on the natural numbers, for the set of those numbers that     *)
(* have the property: a smallest number outside the set would follow one   *)
(* inside.                                                                 *)
LEMMA SetInduction ==
  ASSUME NEW S, 0 \in S, \A n \in Nat : n \in S => n + 1 \in S
  PROVE  Nat \subseteq S
<1> DEFINE T == Nat \ S
<1>1. SUFFICES ASSUME T # {} PROVE FALSE
  OBVIOUS
<1>2. IsWellFoundedOn(OpToRel(<, Nat), Nat)
  BY NatLessThanWellFounded
<1>3. PICK x \in T : \A y \in T : ~ (<<y, x>> \in OpToRel(<, Nat))
  BY <1>1, <1>2, WFMin
<1>4. \A y \in T : ~ (y < x)
  BY <1>3 DEF OpToRel
<1>5. x # 0 /\ x \in Nat
  OBVIOUS
<1>6. x - 1 \in Nat /\ x - 1 < x /\ (x - 1) + 1 = x
  BY <1>5
<1>7. x - 1 \in S
  BY <1>4, <1>6
<1> QED BY <1>6, <1>7

(* The same as far as a bound.                                             *)
LEMMA IntervalInduction ==
  ASSUME NEW n \in Nat, NEW S, 0 \in S, \A k \in 0 .. n - 1 : k \in S => k + 1 \in S
  PROVE  \A k \in 0 .. n : k \in S
<1> DEFINE U == {k \in Nat : k <= n => k \in S}
<1>1. 0 \in U
  OBVIOUS
<1>2. \A k \in Nat : k \in U => k + 1 \in U
  OBVIOUS
<1>3. Nat \subseteq U
  <2> HIDE DEF U
  <2> QED BY <1>1, <1>2, SetInduction
<1> QED BY <1>3

(* A set that holds every number above one of its own begins somewhere.    *)
LEMMA Threshold ==
  ASSUME NEW n \in Nat, NEW T, \A i, j \in 1 .. n : i < j /\ i \in T => j \in T
  PROVE  \E F \in 0 .. n : \A i \in 1 .. n : i \in T <=> i > F
<1> DEFINE S == {k \in Nat : \E F \in 0 .. k : \A i \in 1 .. k : i \in T <=> i > F}
<1>1. 0 \in S
  OBVIOUS
<1>2. ASSUME NEW k \in 0 .. n - 1, k \in S PROVE k + 1 \in S
  <2>1. PICK F \in 0 .. k : \A i \in 1 .. k : i \in T <=> i > F
    BY <1>2
  <2>2. CASE k + 1 \in T
    <3>1. F \in 0 .. k + 1 /\ \A i \in 1 .. k + 1 : i \in T <=> i > F
      BY <2>1, <2>2
    <3> QED BY <3>1
  <2>3. CASE k + 1 \notin T
    <3>1. \A i \in 1 .. k : i \notin T
      <4>1. \A i \in 1 .. k : i \in 1 .. n /\ k + 1 \in 1 .. n /\ i < k + 1
        OBVIOUS
      <4> QED BY <2>3, <4>1
    <3>2. k + 1 \in 0 .. k + 1 /\ \A i \in 1 .. k + 1 : i \in T <=> i > k + 1
      BY <2>3, <3>1
    <3> QED BY <3>2
  <2> QED BY <2>2, <2>3
<1>3. \A k \in 0 .. n : k \in S
  <2> HIDE DEF S
  <2> QED BY <1>1, <1>2, IntervalInduction
<1>4. n \in S
  <2> HIDE DEF S
  <2> QED BY <1>3
<1> QED BY <1>4

(* A product grows with its factor.                                        *)
LEMMA TimesMonotone ==
  ASSUME NEW c \in Nat, NEW a \in Nat, NEW b \in Nat, a <= b
  PROVE  c * a <= c * b
<1> DEFINE S == {d \in Nat : c * a <= c * (a + d)}
<1>1. 0 \in S
  OBVIOUS
<1>2. ASSUME NEW d \in Nat, d \in S PROVE d + 1 \in S
  <2>1. c * (a + (d + 1)) = c * (a + d) + c
    OBVIOUS
  <2>2. c * a \in Nat /\ c * (a + d) \in Nat
    OBVIOUS
  <2> QED BY <1>2, <2>1, <2>2
<1>3. b - a \in S
  <2>1. Nat \subseteq S
    <3> HIDE DEF S
    <3> QED BY <1>1, <1>2, SetInduction
  <2> QED BY <2>1
<1>4. a + (b - a) = b
  OBVIOUS
<1> QED BY <1>3, <1>4

-----------------------------------------------------------------------------
(* The pairs of a function with finite domain are a finite set, and their  *)
(* number is a number.                                                     *)
LEMMA TotalNat ==
  ASSUME NEW f, IsFiniteSet(DOMAIN f), \A x \in DOMAIN f : f[x] \in Nat
  PROVE  IsFiniteSet(Pairs(f)) /\ Total(f) \in Nat
<1> DEFINE col(x) == {x} \X (1 .. f[x])
           C == {col(x) : x \in DOMAIN f}
           g == [x \in DOMAIN f |-> col(x)]
<1>1. g \in Surjection(DOMAIN f, C)
  BY DEF Surjection
<1>2. IsFiniteSet(C)
  <2> HIDE DEF g, C
  <2> QED BY <1>1, FS_Surjection
<1>3. \A x \in DOMAIN f : IsFiniteSet(col(x))
  <2> TAKE x \in DOMAIN f
  <2>1. IsFiniteSet({x})
    BY FS_Singleton
  <2>2. IsFiniteSet(1 .. f[x])
    BY FS_Interval
  <2> QED BY <2>1, <2>2, FS_Product
<1>4. IsFiniteSet(UNION C)
  <2>1. \A c \in C : IsFiniteSet(c)
    BY <1>3
  <2> HIDE DEF C
  <2> QED BY <1>2, <2>1, FS_UNION
<1>5. IsFiniteSet(Pairs(f))
  BY <1>4 DEF Pairs
<1> QED BY <1>5, FS_CardinalityType DEF Total

(* A function with no arguments sums to nothing.                           *)
LEMMA TotalEmpty ==
  ASSUME NEW f, DOMAIN f = {}
  PROVE  Total(f) = 0
<1>1. Pairs(f) = {}
  BY DEF Pairs
<1> QED BY <1>1, FS_EmptySet DEF Total

(* A further argument adds its value.                                      *)
LEMMA TotalAdd ==
  ASSUME NEW f, NEW g, NEW x,
         IsFiniteSet(DOMAIN f), \A y \in DOMAIN f : f[y] \in Nat,
         x \notin DOMAIN f, DOMAIN g = DOMAIN f \cup {x}, g[x] \in Nat,
         \A y \in DOMAIN f : g[y] = f[y]
  PROVE  Total(g) = Total(f) + g[x]
<1> DEFINE col == {x} \X (1 .. g[x])
<1>1. Pairs(g) = Pairs(f) \cup col
  BY DEF Pairs
<1>2. Pairs(f) \cap col = {}
  BY DEF Pairs
<1>3. IsFiniteSet(col) /\ Cardinality(col) = g[x]
  <2>1. IsFiniteSet({x}) /\ Cardinality({x}) = 1
    BY FS_Singleton
  <2>2. IsFiniteSet(1 .. g[x]) /\ Cardinality(1 .. g[x]) = g[x]
    BY FS_Interval
  <2>3. IsFiniteSet(col) /\ Cardinality(col) = Cardinality({x}) * Cardinality(1 .. g[x])
    BY <2>1, <2>2, FS_Product
  <2> QED BY <2>1, <2>2, <2>3
<1>4. IsFiniteSet(Pairs(f)) /\ Total(f) \in Nat
  BY TotalNat
<1>5. Cardinality({}) = 0
  BY FS_EmptySet
<1> HIDE DEF col
<1>6. Cardinality(Pairs(f) \cup col) = Cardinality(Pairs(f)) + Cardinality(col) - Cardinality(Pairs(f) \cap col)
  BY <1>3, <1>4, FS_Union
<1>7. Cardinality(Pairs(f) \cap col) = 0
  BY <1>2, <1>5
<1>8. Cardinality(Pairs(g)) = Cardinality(Pairs(f)) + Cardinality(col) - 0
  BY <1>1, <1>6, <1>7
<1>9. Cardinality(Pairs(f)) \in Nat
  BY <1>4 DEF Total
<1> QED BY <1>3, <1>8, <1>9 DEF Total

(* Fewer arguments do not sum to more.                                     *)
LEMMA TotalSubset ==
  ASSUME NEW f, NEW g,
         IsFiniteSet(DOMAIN g), \A x \in DOMAIN g : g[x] \in Nat,
         DOMAIN f \subseteq DOMAIN g, \A x \in DOMAIN f : f[x] = g[x]
  PROVE  Total(f) <= Total(g)
<1>1. IsFiniteSet(Pairs(g))
  BY TotalNat
<1>2. Pairs(f) \subseteq Pairs(g)
  BY DEF Pairs
<1> QED BY <1>1, <1>2, FS_Subset DEF Total

(* The arguments may be split.                                             *)
LEMMA TotalSplit ==
  ASSUME NEW f, NEW g, NEW h,
         IsFiniteSet(DOMAIN h), \A x \in DOMAIN h : h[x] \in Nat,
         DOMAIN h = DOMAIN f \cup DOMAIN g, DOMAIN f \cap DOMAIN g = {},
         \A x \in DOMAIN f : f[x] = h[x], \A x \in DOMAIN g : g[x] = h[x]
  PROVE  Total(h) = Total(f) + Total(g)
<1>1. IsFiniteSet(DOMAIN f) /\ IsFiniteSet(DOMAIN g)
  BY FS_Subset
<1>2. IsFiniteSet(Pairs(f)) /\ Total(f) \in Nat
  BY <1>1, TotalNat
<1>3. IsFiniteSet(Pairs(g)) /\ Total(g) \in Nat
  BY <1>1, TotalNat
<1>4. Pairs(h) = Pairs(f) \cup Pairs(g)
  BY DEF Pairs
<1>5. Pairs(f) \cap Pairs(g) = {}
  BY DEF Pairs
<1>6. Cardinality({}) = 0
  BY FS_EmptySet
<1>7. Cardinality(Pairs(f) \cup Pairs(g)) =
        Cardinality(Pairs(f)) + Cardinality(Pairs(g)) - Cardinality(Pairs(f) \cap Pairs(g))
  BY <1>2, <1>3, FS_Union
<1>8. Cardinality(Pairs(f) \cap Pairs(g)) = 0
  BY <1>5, <1>6
<1>9. Cardinality(Pairs(h)) = Cardinality(Pairs(f)) + Cardinality(Pairs(g)) - 0
  BY <1>4, <1>7, <1>8
<1>10. Cardinality(Pairs(f)) \in Nat /\ Cardinality(Pairs(g)) \in Nat
  BY <1>2, <1>3 DEF Total
<1> QED BY <1>9, <1>10 DEF Total

(* It makes no difference how the arguments are called.                    *)
LEMMA TotalRenamed ==
  ASSUME NEW f, NEW g, NEW b,
         IsFiniteSet(DOMAIN f), \A x \in DOMAIN f : f[x] \in Nat,
         b \in [DOMAIN f -> DOMAIN g],
         \A x, y \in DOMAIN f : b[x] = b[y] => x = y,
         \A y \in DOMAIN g : \E x \in DOMAIN f : b[x] = y,
         \A x \in DOMAIN f : g[b[x]] = f[x]
  PROVE  Total(g) = Total(f)
<1> DEFINE c == [p \in Pairs(f) |-> <<b[p[1]], p[2]>>]
<1>1. \A p \in Pairs(f) : p[1] \in DOMAIN f /\ p[2] \in 1 .. f[p[1]] /\ p = <<p[1], p[2]>>
  BY DEF Pairs
<1>2. \A p \in Pairs(f) : c[p] \in Pairs(g)
  BY <1>1 DEF Pairs
<1>3. \A p, q \in Pairs(f) : c[p] = c[q] => p = q
  BY <1>1
<1>4. ASSUME NEW q \in Pairs(g) PROVE \E p \in Pairs(f) : c[p] = q
  <2>1. q[1] \in DOMAIN g /\ q[2] \in 1 .. g[q[1]] /\ q = <<q[1], q[2]>>
    BY DEF Pairs
  <2>2. PICK x \in DOMAIN f : b[x] = q[1]
    BY <2>1
  <2>3. <<x, q[2]>> \in Pairs(f)
    BY <2>1, <2>2 DEF Pairs
  <2>4. c[<<x, q[2]>>] = q
    BY <2>1, <2>2, <2>3
  <2> QED BY <2>3, <2>4
<1>5. c \in Bijection(Pairs(f), Pairs(g))
  <2>1. c \in [Pairs(f) -> Pairs(g)]
    BY <1>2
  <2> HIDE DEF c
  <2> QED BY <1>3, <1>4, <2>1 DEF Bijection, Injection, Surjection, IsInjective
<1>6. ExistsBijection(Pairs(f), Pairs(g))
  BY <1>5 DEF ExistsBijection
<1>7. IsFiniteSet(Pairs(f))
  BY TotalNat
<1> QED BY <1>6, <1>7, FS_Bijection DEF Total

-----------------------------------------------------------------------------
(* An element put at a place of a sequence moves those behind it.          *)
LEMMA InsertAtFacts ==
  ASSUME NEW S, NEW s \in Seq(S), NEW i \in 1 .. Len(s) + 1, NEW e \in S
  PROVE  /\ InsertAt(s, i, e) \in Seq(S)
         /\ Len(InsertAt(s, i, e)) = Len(s) + 1
         /\ \A j \in 1 .. Len(s) + 1 :
              InsertAt(s, i, e)[j] = IF j < i THEN s[j] ELSE IF j = i THEN e ELSE s[j - 1]
<1> DEFINE a == SubSeq(s, 1, i - 1)
           c == SubSeq(s, i, Len(s))
<1>1. Len(s) \in Nat /\ \A j \in 1 .. Len(s) : s[j] \in S
  BY LenProperties
<1>2. a \in Seq(S) /\ Len(a) = i - 1 /\ \A j \in 1 .. i - 1 : a[j] = s[j]
  BY <1>1, SubSeqProperties
<1>3. c \in Seq(S) /\ Len(c) = Len(s) - i + 1 /\ \A j \in 1 .. Len(s) - i + 1 : c[j] = s[i + j - 1]
  BY <1>1, SubSeqProperties
<1>4. <<e>> \in Seq(S) /\ Len(<<e>>) = 1 /\ <<e>>[1] = e
  OBVIOUS
<1> HIDE DEF a, c
<1>5. /\ a \o <<e>> \in Seq(S)
      /\ Len(a \o <<e>>) = i
      /\ \A j \in 1 .. i : (a \o <<e>>)[j] = IF j <= i - 1 THEN a[j] ELSE e
  BY <1>1, <1>2, <1>4, ConcatProperties
<1>6. /\ (a \o <<e>>) \o c \in Seq(S)
      /\ Len((a \o <<e>>) \o c) = Len(s) + 1
      /\ \A j \in 1 .. Len(s) + 1 :
           ((a \o <<e>>) \o c)[j] = IF j <= i THEN (a \o <<e>>)[j] ELSE c[j - i]
  <2> DEFINE d == a \o <<e>>
  <2>0. d \in Seq(S) /\ Len(d) = i
    BY <1>5
  <2> HIDE DEF d
  <2>1. /\ d \o c \in Seq(S)
        /\ Len(d \o c) = Len(d) + Len(c)
        /\ \A j \in 1 .. Len(d) + Len(c) : (d \o c)[j] = IF j <= Len(d) THEN d[j] ELSE c[j - Len(d)]
    BY <1>3, <2>0, ConcatProperties
  <2>2. i + (Len(s) - i + 1) = Len(s) + 1
    BY <1>1
  <2> QED BY <1>3, <2>0, <2>1, <2>2 DEF d
<1>7. InsertAt(s, i, e) = (a \o <<e>>) \o c
  BY DEF InsertAt, a, c
<1>8. ASSUME NEW j \in 1 .. Len(s) + 1
      PROVE  ((a \o <<e>>) \o c)[j] = IF j < i THEN s[j] ELSE IF j = i THEN e ELSE s[j - 1]
  <2>1. CASE j < i
    BY <1>1, <1>2, <1>5, <1>6, <2>1
  <2>2. CASE j = i
    BY <1>1, <1>5, <1>6, <2>2
  <2>3. CASE j > i
    <3>1. j - i \in 1 .. Len(s) - i + 1 /\ i + (j - i) - 1 = j - 1
      BY <1>1, <2>3
    <3>2. c[j - i] = s[j - 1]
      BY <1>3, <3>1
    <3> QED BY <1>1, <1>6, <2>3, <3>2
  <2>4. j \in Int /\ i \in Int
    BY <1>1
  <2>5. j < i \/ j = i \/ j > i
    BY <2>4
  <2> QED BY <2>1, <2>2, <2>3, <2>5
<1> QED BY <1>6, <1>7, <1>8

(* The sequence is one element longer.                                     *)
LEMMA InsertAtSeq ==
  ASSUME NEW S, NEW s \in Seq(S), NEW i \in 1 .. Len(s) + 1, NEW e \in S
  PROVE  InsertAt(s, i, e) \in Seq(S) /\ Len(InsertAt(s, i, e)) = Len(s) + 1
BY InsertAtFacts

(* What is in front of the place stays.                                    *)
LEMMA InsertAtBefore ==
  ASSUME NEW S, NEW s \in Seq(S), NEW i \in 1 .. Len(s) + 1, NEW e \in S, NEW j \in 1 .. i - 1
  PROVE  InsertAt(s, i, e)[j] = s[j]
<1>1. Len(s) \in Nat
  BY LenProperties
<1>2. j \in 1 .. Len(s) + 1 /\ j < i
  BY <1>1
<1> QED BY <1>2, InsertAtFacts

(* The element is at its place.                                            *)
LEMMA InsertAtHere ==
  ASSUME NEW S, NEW s \in Seq(S), NEW i \in 1 .. Len(s) + 1, NEW e \in S
  PROVE  InsertAt(s, i, e)[i] = e
<1>1. Len(s) \in Nat
  BY LenProperties
<1>2. ~ (i < i)
  BY <1>1
<1> QED BY <1>2, InsertAtFacts

(* What was at the place or behind moves back by one.                      *)
LEMMA InsertAtBehind ==
  ASSUME NEW S, NEW s \in Seq(S), NEW i \in 1 .. Len(s) + 1, NEW e \in S, NEW j \in i .. Len(s)
  PROVE  InsertAt(s, i, e)[j + 1] = s[j]
<1>1. Len(s) \in Nat
  BY LenProperties
<1>2. j + 1 \in 1 .. Len(s) + 1 /\ ~ (j + 1 < i) /\ j + 1 # i /\ (j + 1) - 1 = j
  BY <1>1
<1>3. \A k \in 1 .. Len(s) + 1 : ~ (k < i) /\ k # i => InsertAt(s, i, e)[k] = s[k - 1]
  BY InsertAtFacts
<1>4. InsertAt(s, i, e)[j + 1] = s[(j + 1) - 1]
  BY <1>2, <1>3
<1> QED BY <1>2, <1>4

(* An element taken out of a sequence lets those behind it move up.        *)
LEMMA RemoveAtFacts ==
  ASSUME NEW S, NEW s \in Seq(S), NEW i \in 1 .. Len(s)
  PROVE  /\ RemoveAt(s, i) \in Seq(S)
         /\ Len(RemoveAt(s, i)) = Len(s) - 1
         /\ \A j \in 1 .. Len(s) - 1 : RemoveAt(s, i)[j] = IF j < i THEN s[j] ELSE s[j + 1]
<1> DEFINE a == SubSeq(s, 1, i - 1)
           c == SubSeq(s, i + 1, Len(s))
<1>1. Len(s) \in Nat /\ \A j \in 1 .. Len(s) : s[j] \in S
  BY LenProperties
<1>2. a \in Seq(S) /\ Len(a) = i - 1 /\ \A j \in 1 .. i - 1 : a[j] = s[j]
  BY <1>1, SubSeqProperties
<1>3. c \in Seq(S) /\ Len(c) = Len(s) - i /\ \A j \in 1 .. Len(s) - i : c[j] = s[i + j]
  BY <1>1, SubSeqProperties
<1> HIDE DEF a, c
<1>4. /\ a \o c \in Seq(S)
      /\ Len(a \o c) = Len(s) - 1
      /\ \A j \in 1 .. Len(s) - 1 : (a \o c)[j] = IF j <= i - 1 THEN a[j] ELSE c[j - (i - 1)]
  <2>1. /\ a \o c \in Seq(S)
        /\ Len(a \o c) = Len(a) + Len(c)
        /\ \A j \in 1 .. Len(a) + Len(c) : (a \o c)[j] = IF j <= Len(a) THEN a[j] ELSE c[j - Len(a)]
    BY <1>2, <1>3, ConcatProperties
  <2>2. (i - 1) + (Len(s) - i) = Len(s) - 1
    BY <1>1
  <2> QED BY <1>2, <1>3, <2>1, <2>2
<1>5. RemoveAt(s, i) = a \o c
  BY DEF RemoveAt, a, c
<1>6. ASSUME NEW j \in 1 .. Len(s) - 1
      PROVE  (a \o c)[j] = IF j < i THEN s[j] ELSE s[j + 1]
  <2>1. CASE j < i
    BY <1>1, <1>2, <1>4, <2>1
  <2>2. CASE j >= i
    <3>1. j - (i - 1) \in 1 .. Len(s) - i /\ i + (j - (i - 1)) = j + 1
      BY <1>1, <2>2
    <3>2. c[j - (i - 1)] = s[j + 1]
      BY <1>3, <3>1
    <3> QED BY <1>1, <1>4, <2>2, <3>2
  <2>3. j < i \/ j >= i
    BY <1>1
  <2> QED BY <2>1, <2>2, <2>3
<1> QED BY <1>4, <1>5, <1>6

(* The sequence is one element shorter.                                    *)
LEMMA RemoveAtSeq ==
  ASSUME NEW S, NEW s \in Seq(S), NEW i \in 1 .. Len(s)
  PROVE  RemoveAt(s, i) \in Seq(S) /\ Len(RemoveAt(s, i)) = Len(s) - 1
BY RemoveAtFacts

(* What is in front of the place stays.                                    *)
LEMMA RemoveAtBefore ==
  ASSUME NEW S, NEW s \in Seq(S), NEW i \in 1 .. Len(s), NEW j \in 1 .. i - 1
  PROVE  RemoveAt(s, i)[j] = s[j]
<1>1. Len(s) \in Nat
  BY LenProperties
<1>2. j \in 1 .. Len(s) - 1 /\ j < i
  BY <1>1
<1> QED BY <1>2, RemoveAtFacts

(* What was behind the place moves up by one.                              *)
LEMMA RemoveAtBehind ==
  ASSUME NEW S, NEW s \in Seq(S), NEW i \in 1 .. Len(s), NEW j \in i .. Len(s) - 1
  PROVE  RemoveAt(s, i)[j] = s[j + 1]
<1>1. Len(s) \in Nat
  BY LenProperties
<1>2. j \in 1 .. Len(s) - 1 /\ ~ (j < i)
  BY <1>1
<1> QED BY <1>2, RemoveAtFacts

-----------------------------------------------------------------------------
(* Induction downwards, from the last number of an interval to the first.  *)
LEMMA DownInduction ==
  ASSUME NEW n \in Nat \ {0}, NEW S, n \in S, \A i \in 1 .. n - 1 : i + 1 \in S => i \in S
  PROVE  \A i \in 1 .. n : i \in S
<1> DEFINE T == {k \in Nat : k > n - 1 \/ n - k \in S}
<1>1. 0 \in T
  OBVIOUS
<1>2. ASSUME NEW k \in Nat, k \in T PROVE k + 1 \in T
  <2>1. CASE k + 1 > n - 1
    BY <2>1
  <2>2. CASE ~ (k + 1 > n - 1)
    <3>1. n - k \in S /\ n - (k + 1) \in 1 .. n - 1 /\ (n - (k + 1)) + 1 = n - k
      BY <1>2, <2>2
    <3>2. n - (k + 1) \in S
      BY <3>1
    <3> QED BY <3>2
  <2> QED BY <2>1, <2>2
<1>3. Nat \subseteq T
  <2> HIDE DEF T
  <2> QED BY <1>1, <1>2, SetInduction
<1> SUFFICES ASSUME NEW i \in 1 .. n PROVE i \in S
  OBVIOUS
<1>4. n - i \in Nat /\ n - (n - i) = i /\ ~ (n - i > n - 1)
  OBVIOUS
<1>5. n - i \in T
  BY <1>3, <1>4
<1> QED BY <1>4, <1>5

(* A function on m .. n with values in V that begins with b and goes on by *)
(* g, upwards and, on 1 .. n, downwards.                                   *)
Recurs(f, m, n, V, b, g) ==
  f \in [m .. n -> V] /\ f[m] = b /\ \A k \in m .. n : k > m => f[k] = g[<<k, f[k - 1]>>]
RecursDown(f, n, V, b, g) ==
  f \in [1 .. n -> V] /\ f[n] = b /\ \A i \in 1 .. n - 1 : f[i] = g[<<i, f[i + 1]>>]

(* A recursive function on an interval exists: it takes the value b at the *)
(* first number, and every other value follows from the one before by a    *)
(* function g of the number and that value.                                *)
LEMMA Recursion ==
  ASSUME NEW m \in Nat, NEW n \in Nat, m <= n, NEW V, NEW b \in V,
         NEW g, \A k \in m .. n, v \in V : g[<<k, v>>] \in V
  PROVE  \E f : Recurs(f, m, n, V, b, g)
<1> DEFINE Is(f, d) == f[m] = b /\ \A k \in m + 1 .. m + d : f[k] = g[<<k, f[k - 1]>>]
           S == {d \in Nat : d <= n - m => \E f \in [m .. m + d -> V] : Is(f, d)}
<1>1. 0 \in S
  <2>1. [k \in m .. m + 0 |-> b] \in [m .. m + 0 -> V] /\ Is([k \in m .. m + 0 |-> b], 0)
    OBVIOUS
  <2> HIDE DEF Is
  <2> QED BY <2>1
<1>2. ASSUME NEW d \in Nat, d \in S PROVE d + 1 \in S
  <2>1. SUFFICES ASSUME d + 1 <= n - m PROVE \E f \in [m .. m + (d + 1) -> V] : Is(f, d + 1)
    OBVIOUS
  <2>2. d <= n - m
    BY <2>1
  <2>3. PICK f \in [m .. m + d -> V] : Is(f, d)
    BY <1>2, <2>2
  <2> DEFINE e == m + (d + 1)
             h == [k \in m .. e |-> IF k = e THEN g[<<k, f[k - 1]>>] ELSE f[k]]
  <2>4. e \in m .. n /\ e - 1 = m + d /\ e - 1 \in m .. m + d /\ m # e
    <3>1. m \in Nat /\ n \in Nat /\ d \in Nat /\ d + 1 <= n - m
      BY <2>1
    <3> QED BY ONLY <3>1
  <2>5. g[<<e, f[e - 1]>>] \in V
    BY <2>4
  <2>6. \A k \in m .. e : k # e => k \in m .. m + d /\ (k > m => k \in m + 1 .. m + d /\ k - 1 \in m .. m + d)
    OBVIOUS
  <2>7. h \in [m .. e -> V]
    BY <2>5, <2>6
  <2>8. h[m] = b
    BY <2>3, <2>4
  <2>9. ASSUME NEW k \in m + 1 .. e PROVE h[k] = g[<<k, h[k - 1]>>]
    <3>1. k \in m .. e /\ k - 1 \in m .. e /\ k - 1 # e /\ k > m
      OBVIOUS
    <3>2. h[k - 1] = f[k - 1]
      BY <3>1
    <3>3. CASE k = e
      BY <3>1, <3>2, <3>3
    <3>4. CASE k # e
      <4>1. k \in m + 1 .. m + d
        BY <2>6, <3>1, <3>4
      <4>2. f[k] = g[<<k, f[k - 1]>>] /\ h[k] = f[k]
        BY <2>3, <3>1, <3>4, <4>1
      <4> QED BY <3>2, <4>2
    <3> QED BY <3>3, <3>4
  <2>10. Is(h, d + 1)
    BY <2>8, <2>9
  <2> HIDE DEF h, Is
  <2> QED BY <2>7, <2>10
<1>3. Nat \subseteq S
  <2> HIDE DEF S
  <2> QED BY <1>1, <1>2, SetInduction
<1>4. n - m \in Nat /\ m + (n - m) = n
  OBVIOUS
<1>5. PICK f \in [m .. m + (n - m) -> V] : Is(f, n - m)
  <2>1. n - m \in S
    BY <1>3, <1>4
  <2> QED BY <2>1
<1>6. \A k \in m .. n : k > m => k \in m + 1 .. m + (n - m)
  OBVIOUS
<1> QED BY <1>4, <1>5, <1>6 DEF Recurs

(* The same from the last number down to the first.                        *)
LEMMA RecursionDown ==
  ASSUME NEW n \in Nat \ {0}, NEW V, NEW b \in V, NEW g,
         \A i \in 1 .. n, v \in V : g[<<i, v>>] \in V
  PROVE  \E f : RecursDown(f, n, V, b, g)
<1> DEFINE h == [x \in (1 .. n) \X V |-> g[<<n + 1 - x[1], x[2]>>]]
<1>1. \A k \in 1 .. n, v \in V : h[<<k, v>>] = g[<<n + 1 - k, v>>] /\ n + 1 - k \in 1 .. n
  <2>1. \A k \in 1 .. n : n + 1 - k \in 1 .. n
    OBVIOUS
  <2>2. ASSUME NEW k \in 1 .. n, NEW v \in V PROVE h[<<k, v>>] = g[<<n + 1 - k, v>>]
    <3>1. <<k, v>> \in (1 .. n) \X V
      OBVIOUS
    <3> QED BY <3>1
  <2> QED BY <2>1, <2>2
<1>2. PICK f : Recurs(f, 1, n, V, b, h)
  <2>1. 1 \in Nat /\ n \in Nat /\ 1 <= n /\ \A k \in 1 .. n, v \in V : h[<<k, v>>] \in V
    BY <1>1
  <2> HIDE DEF h
  <2> QED BY <2>1, Recursion
<1> USE DEF Recurs
<1> DEFINE e == [i \in 1 .. n |-> f[n + 1 - i]]
<1>3. e \in [1 .. n -> V] /\ e[n] = b
  <2>1. \A i \in 1 .. n : n + 1 - i \in 1 .. n
    OBVIOUS
  <2>2. n + 1 - n = 1 /\ n \in 1 .. n
    OBVIOUS
  <2> QED BY <1>2, <2>1, <2>2
<1>4. ASSUME NEW i \in 1 .. n - 1 PROVE e[i] = g[<<i, e[i + 1]>>]
  <2> DEFINE k == n + 1 - i
  <2>1. /\ k > 1 /\ k - 1 = n + 1 - (i + 1) /\ n + 1 - k = i
        /\ i \in 1 .. n /\ i + 1 \in 1 .. n /\ k - 1 \in 1 .. n /\ k \in 1 .. n
    OBVIOUS
  <2>2. f[k] = h[<<k, f[k - 1]>>] /\ f[k - 1] \in V
    BY <1>2, <2>1
  <2>3. h[<<k, f[k - 1]>>] = g[<<n + 1 - k, f[k - 1]>>]
    BY <1>1, <2>1, <2>2
  <2>4. e[i + 1] = f[k - 1] /\ e[i] = f[k]
    BY <2>1
  <2> QED BY <2>1, <2>2, <2>3, <2>4
<1> HIDE DEF e
<1> QED BY <1>3, <1>4 DEF RecursDown

-----------------------------------------------------------------------------
(* What holds at the first number of an interval and is handed on from one *)
(* to the next holds on all of it.                                         *)
LEMMA StepInduction ==
  ASSUME NEW m \in Nat, NEW n \in Nat, NEW S, m \in S,
         \A k \in m .. n : k > m /\ k - 1 \in S => k \in S
  PROVE  \A k \in m .. n : k \in S
<1> DEFINE W == {j \in Nat : m + j <= n => m + j \in S}
<1>1. 0 \in W
  OBVIOUS
<1>2. ASSUME NEW j \in Nat, j \in W PROVE j + 1 \in W
  <2>1. CASE m + (j + 1) <= n
    <3>1. /\ m + (j + 1) \in m .. n /\ m + (j + 1) > m /\ (m + (j + 1)) - 1 = m + j /\ m + j <= n
      BY <2>1
    <3>2. m + j \in S
      BY <1>2, <3>1
    <3> QED BY <3>1, <3>2
  <2> QED BY <2>1
<1>3. Nat \subseteq W
  <2> HIDE DEF W
  <2> QED BY <1>1, <1>2, SetInduction
<1> SUFFICES ASSUME NEW k \in m .. n PROVE k \in S
  OBVIOUS
<1>4. k - m \in Nat /\ m + (k - m) = k /\ k <= n
  OBVIOUS
<1>5. k - m \in W
  BY <1>3, <1>4
<1> QED BY <1>4, <1>5

(* A function whose values are sequences that only grow at the end.        *)
Growing(f, m, n, S) ==
  /\ \A k \in m .. n : f[k] \in Seq(S)
  /\ \A k \in m .. n : k > m => \E u \in Seq(S) : f[k] = f[k - 1] \o u

LEMMA GrowingStep ==
  ASSUME NEW f, NEW m \in Nat, NEW n \in Nat, NEW S, Growing(f, m, n, S), NEW i \in m .. n, NEW j \in m .. n, i <= j
  PROVE  Len(f[i]) <= Len(f[j]) /\ \A x \in 1 .. Len(f[i]) : f[j][x] = f[i][x]
<1> DEFINE P(k) == Len(f[i]) <= Len(f[k]) /\ \A x \in 1 .. Len(f[i]) : f[k][x] = f[i][x]
           E == {k \in i .. n : P(k)}
<1>0. \A k \in m .. n : f[k] \in Seq(S) /\ Len(f[k]) \in Nat
  BY DEF Growing
<1>1. i \in E
  BY <1>0
<1>2. ASSUME NEW k \in i .. n, k > i, k - 1 \in E PROVE k \in E
  <2>1. k \in m .. n /\ k > m /\ k - 1 \in m .. n
    BY <1>2
  <2>2. PICK u \in Seq(S) : f[k] = f[k - 1] \o u
    BY <2>1 DEF Growing
  <2>3. f[k - 1] \in Seq(S) /\ Len(f[k - 1]) \in Nat /\ Len(f[i]) \in Nat
    BY <1>0, <2>1
  <2>4. Len(f[k]) = Len(f[k - 1]) + Len(u) /\ \A x \in 1 .. Len(f[k - 1]) : f[k][x] = f[k - 1][x]
    BY <2>2, <2>3, ConcatProperties
  <2>5. P(k - 1)
    BY <1>2
  <2>6. Len(f[i]) <= Len(f[k])
    <3>1. Len(u) \in Nat
      BY LenProperties
    <3> QED BY <2>3, <2>4, <2>5, <3>1
  <2>7. ASSUME NEW x \in 1 .. Len(f[i]) PROVE f[k][x] = f[i][x]
    <3>1. x \in 1 .. Len(f[k - 1])
      BY <2>3, <2>5
    <3> QED BY <2>4, <2>5, <3>1
  <2> QED BY <1>2, <2>6, <2>7
<1>3. \A k \in i .. n : k \in E
  <2> HIDE DEF E
  <2>1. i \in Nat
    OBVIOUS
  <2> QED BY <1>1, <1>2, <2>1, StepInduction
<1>4. j \in i .. n
  OBVIOUS
<1> QED BY <1>3, <1>4

LEMMA GrowingLen ==
  ASSUME NEW f, NEW m \in Nat, NEW n \in Nat, NEW S, Growing(f, m, n, S), NEW i \in m .. n, NEW j \in m .. n, i <= j
  PROVE  Len(f[i]) <= Len(f[j])
BY GrowingStep

LEMMA GrowingKeeps ==
  ASSUME NEW f, NEW m \in Nat, NEW n \in Nat, NEW S, Growing(f, m, n, S), NEW i \in m .. n, NEW j \in m .. n, i <= j,
         NEW x \in 1 .. Len(f[i])
  PROVE  f[j][x] = f[i][x]
BY GrowingStep

-----------------------------------------------------------------------------
(* The numbers outside such a set can be counted: they are the first ones. *)
LEMMA CountBelow ==
  ASSUME NEW n \in Nat, NEW T, \A i, j \in 1 .. n : i < j /\ i \in T => j \in T
  PROVE  /\ Cardinality({i \in 1 .. n : i \notin T}) \in 0 .. n
         /\ \A i \in 1 .. n : i \in T <=> i > Cardinality({j \in 1 .. n : j \notin T})
<1>1. PICK F \in 0 .. n : \A i \in 1 .. n : i \in T <=> i > F
  BY Threshold
<1>2. {i \in 1 .. n : i \notin T} = 1 .. F
  BY <1>1
<1>3. Cardinality(1 .. F) = F
  BY FS_Interval
<1> QED BY <1>1, <1>2, <1>3
=============================================================================
