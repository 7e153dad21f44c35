--------------------------- MODULE EncodingProofs ---------------------------
(***************************************************************************)
(* Theorems about the bytes of modules Bytes, TableFile and RowBytes, for  *)
(* any byte, any table of characters and any length of a record: what is   *)
(* written as bytes reads back as what it was.                             *)
(*                                                                         *)
(* An integer that fits its type reads back from its bytes. The header of  *)
(* a table reads back as its schema, and is refused when it is cut off at  *)
(* any byte. The values of a row read back, whatever their types, each one *)
(* where the one before it ends.                                           *)
(***************************************************************************)
EXTENDS RowBytes, Induction

-----------------------------------------------------------------------------
(* Numbers and their bytes.                                                *)

(* What is assumed of the number of values of a byte.                      *)
LEMMA BaseFacts == Base \in Nat /\ Base > 1 /\ Base # 0
BY BaseAssumption

(* What the functions by which the numbers are taken apart and put         *)
(* together compute, step by step.                                         *)
Powers(p, n) == p \in [0 .. n -> Nat \ {0}] /\ p[0] = 1 /\ \A k \in 1 .. n : p[k] = Base * p[k - 1]

(* What n bytes can tell apart, byte by byte.                              *)
LEMMA PowerDef ==
  ASSUME NEW n \in Nat
  PROVE  \E p : Powers(p, n) /\ Power(n) = p[n]
<1> DEFINE V == Nat \ {0}
           g == [x \in (0 .. n) \X V |-> Base * x[2]]
           Is(f) == f = [k \in 0 .. n |-> IF k = 0 THEN 1 ELSE Base * f[k - 1]]
<1>1. n \in Nat /\ 0 <= n /\ 0 \in Nat /\ 1 \in V
  OBVIOUS
<1>2. ASSUME NEW k \in 0 .. n, NEW v \in V PROVE g[<<k, v>>] = Base * v /\ g[<<k, v>>] \in V
  <2>1. Base * v \in Nat /\ Base * v # 0
    BY BaseFacts
  <2> QED BY <2>1
<1>3. PICK f : Recurs(f, 0, n, V, 1, g)
  <2>1. \A k \in 0 .. n, v \in V : g[<<k, v>>] \in V
    BY <1>2
  <2> HIDE DEF g, V
  <2> QED BY <1>1, <2>1, Recursion
<1>4. f \in [0 .. n -> V] /\ f[0] = 1 /\ \A k \in 0 .. n : k > 0 => f[k] = g[<<k, f[k - 1]>>]
  <2> HIDE DEF g, V
  <2> QED BY <1>3 DEF Recurs
<1>5. \A k \in 0 .. n : (k > 0 => k - 1 \in 0 .. n /\ k # 0) /\ (k # 0 => k > 0)
  OBVIOUS
<1>6. \A k \in 0 .. n : f[k] = IF k = 0 THEN 1 ELSE Base * f[k - 1]
  <2> HIDE DEF g, V
  <2>1. ASSUME NEW k \in 0 .. n, k > 0 PROVE f[k] = Base * f[k - 1]
    <3>1. f[k - 1] \in V /\ k # 0 /\ f[k] = g[<<k, f[k - 1]>>]
      BY <2>1, <1>4, <1>5
    <3> QED BY <1>2, <3>1
  <2> QED BY <1>4, <1>5, <2>1
<1>7. Is(f)
  <2> HIDE DEF g, V
  <2> QED BY <1>4, <1>6
<1> DEFINE t == CHOOSE h : Is(h)
<1>8. Is(t)
  <2> HIDE DEF Is
  <2> QED BY <1>7
<1>9. Power(n) = t[n]
  BY DEF Power
<1> HIDE DEF t
<1>10. \A k \in 0 .. n : t[k] = IF k = 0 THEN 1 ELSE Base * t[k - 1]
  BY <1>8
<1>11. t[0] = 1 /\ \A k \in 1 .. n : t[k] = Base * t[k - 1]
  BY <1>10
<1>12. \A k \in 0 .. n : t[k] \in V
  <2> DEFINE W == {k \in 0 .. n : t[k] \in V}
  <2> HIDE DEF V
  <2>1. 0 \in W
    BY <1>1, <1>11
  <2>2. ASSUME NEW k \in 0 .. n, k > 0, k - 1 \in W PROVE k \in W
    <3>1. t[k - 1] \in V /\ k \in 1 .. n
      BY <2>2
    <3>2. t[k] = g[<<k, t[k - 1]>>] /\ g[<<k, t[k - 1]>>] \in V
      BY <1>2, <1>11, <3>1
    <3> QED BY <3>2
  <2>3. \A k \in 0 .. n : k \in W
    <3> HIDE DEF W
    <3> QED BY <1>1, <2>1, <2>2, StepInduction
  <2> QED BY <2>3
<1>13. t \in [0 .. n -> V]
  <2>1. t = [k \in 0 .. n |-> t[k]]
    BY <1>8
  <2> QED BY <2>1, <1>12
<1> QED BY <1>9, <1>11, <1>13 DEF Powers

(* A number is its last digit and the digits before it.                    *)
LEMMA Divides ==
  ASSUME NEW m \in Nat
  PROVE  /\ m \div Base \in Nat /\ m % Base \in 0 .. Base - 1
         /\ (m \div Base) * Base + (m % Base) = m
<1>1. Base \in Nat \ {0}
  BY BaseFacts
<1> QED BY <1>1

(* A number below c times Base has digits before the last that are a       *)
(* number below c.                                                         *)
LEMMA Shrinks ==
  ASSUME NEW m \in Nat, NEW p \in Nat, m < Base * p
  PROVE  m \div Base < p
<1> DEFINE q == m \div Base
           r == m % Base
<1>1. q \in Nat /\ r \in Nat /\ q * Base + r = m /\ Base \in Nat
  BY Divides, BaseFacts
<1> HIDE DEF q, r
<1>2. SUFFICES ASSUME p <= q PROVE FALSE
  BY <1>1 DEF q
<1>3. Base * p <= Base * q
  BY <1>1, <1>2, TimesMonotone
<1>4. Base * q = q * Base /\ Base * p \in Nat /\ Base * q \in Nat
  BY <1>1
<1> QED BY <1>1, <1>3, <1>4

(* What is left of a number after each division.                           *)
Rests(r, n, width) ==
  r \in [0 .. width -> Nat] /\ r[0] = n /\ \A k \in 1 .. width : r[k] = r[k - 1] \div Base

(* The digits of a number are what its repeated divisions leave.           *)
LEMMA BigEndianDef ==
  ASSUME NEW n \in Nat, NEW width \in Nat
  PROVE  \E r : Rests(r, n, width) /\ BigEndian(n, width) = [i \in 1 .. width |-> r[width - i] % Base]
<1> DEFINE V == Nat
           g == [x \in (0 .. width) \X V |-> x[2] \div Base]
           Is(f) == f = [k \in 0 .. width |-> IF k = 0 THEN n ELSE f[k - 1] \div Base]
<1>1. width \in Nat /\ 0 <= width /\ 0 \in Nat /\ n \in V
  OBVIOUS
<1>2. ASSUME NEW k \in 0 .. width, NEW v \in V PROVE g[<<k, v>>] = v \div Base /\ g[<<k, v>>] \in V
  BY Divides
<1>3. PICK f : Recurs(f, 0, width, V, n, g)
  <2>1. \A k \in 0 .. width, v \in V : g[<<k, v>>] \in V
    BY <1>2
  <2> HIDE DEF g, V
  <2> QED BY <1>1, <2>1, Recursion
<1>4. f \in [0 .. width -> V] /\ f[0] = n /\ \A k \in 0 .. width : k > 0 => f[k] = g[<<k, f[k - 1]>>]
  <2> HIDE DEF g, V
  <2> QED BY <1>3 DEF Recurs
<1>5. \A k \in 0 .. width : (k > 0 => k - 1 \in 0 .. width /\ k # 0) /\ (k # 0 => k > 0)
  OBVIOUS
<1>6. \A k \in 0 .. width : f[k] = IF k = 0 THEN n ELSE f[k - 1] \div Base
  <2> HIDE DEF g, V
  <2>1. ASSUME NEW k \in 0 .. width, k > 0 PROVE f[k] = f[k - 1] \div Base
    <3>1. f[k - 1] \in V /\ k # 0 /\ f[k] = g[<<k, f[k - 1]>>]
      BY <2>1, <1>4, <1>5
    <3> QED BY <1>2, <3>1
  <2> QED BY <1>4, <1>5, <2>1
<1>7. Is(f)
  <2> HIDE DEF g, V
  <2> QED BY <1>4, <1>6
<1> DEFINE t == CHOOSE h : Is(h)
<1>8. Is(t)
  <2> HIDE DEF Is
  <2> QED BY <1>7
<1>9. BigEndian(n, width) = [i \in 1 .. width |-> t[width - i] % Base]
  BY DEF BigEndian
<1> HIDE DEF t
<1>10. \A k \in 0 .. width : t[k] = IF k = 0 THEN n ELSE t[k - 1] \div Base
  BY <1>8
<1>11. t[0] = n /\ \A k \in 1 .. width : t[k] = t[k - 1] \div Base
  BY <1>10
<1>12. \A k \in 0 .. width : t[k] \in V
  <2> DEFINE W == {k \in 0 .. width : t[k] \in V}
  <2> HIDE DEF V
  <2>1. 0 \in W
    BY <1>1, <1>11
  <2>2. ASSUME NEW k \in 0 .. width, k > 0, k - 1 \in W PROVE k \in W
    <3>1. t[k - 1] \in V /\ k \in 1 .. width
      BY <2>2
    <3>2. t[k] = g[<<k, t[k - 1]>>] /\ g[<<k, t[k - 1]>>] \in V
      BY <1>2, <1>11, <3>1
    <3> QED BY <3>2
  <2>3. \A k \in 0 .. width : k \in W
    <3> HIDE DEF W
    <3> QED BY <1>1, <2>1, <2>2, StepInduction
  <2> QED BY <2>3
<1>13. t \in [0 .. width -> V]
  <2>1. t = [k \in 0 .. width |-> t[k]]
    BY <1>8
  <2> QED BY <2>1, <1>12
<1> QED BY <1>9, <1>11, <1>13 DEF Rests

(* The number its first bytes stand for.                                   *)
Sofar(v, b) ==
  v \in [0 .. Len(b) -> Nat] /\ v[0] = 0 /\ \A k \in 1 .. Len(b) : v[k] = v[k - 1] * Base + b[k]

(* The number some bytes stand for, byte by byte.                          *)
LEMMA NumberDef ==
  ASSUME NEW b \in Seq(Nat)
  PROVE  \E v : Sofar(v, b) /\ Number(b) = v[Len(b)]
<1> DEFINE n == Len(b)
           V == Nat
           g == [x \in (0 .. n) \X V |-> IF x[1] = 0 THEN 0 ELSE x[2] * Base + b[x[1]]]
           Is(f) == f = [k \in 0 .. n |-> IF k = 0 THEN 0 ELSE f[k - 1] * Base + b[k]]
<1>1. n \in Nat /\ 0 <= n /\ 0 \in Nat /\ 0 \in V
  OBVIOUS
<1>2. ASSUME NEW k \in 0 .. n, NEW v \in V
      PROVE  /\ k # 0 => g[<<k, v>>] = v * Base + b[k]
             /\ g[<<k, v>>] \in V
  <2>1. CASE k = 0
    BY <2>1
  <2>2. CASE k # 0
    <3>1. b[k] \in Nat
      BY <1>1, <2>2
    <3>2. v * Base \in Nat
      BY BaseFacts
    <3>3. v * Base + b[k] \in Nat
      BY <3>1, <3>2
    <3> QED BY <3>3, <2>2
  <2> QED BY <2>1, <2>2
<1>3. PICK f : Recurs(f, 0, n, V, 0, g)
  <2>1. \A k \in 0 .. n, v \in V : g[<<k, v>>] \in V
    BY <1>2
  <2> HIDE DEF g, V, n
  <2> QED BY <1>1, <2>1, Recursion
<1>4. f \in [0 .. n -> V] /\ f[0] = 0 /\ \A k \in 0 .. n : k > 0 => f[k] = g[<<k, f[k - 1]>>]
  <2> HIDE DEF g, V, n
  <2> QED BY <1>3 DEF Recurs
<1>5. \A k \in 0 .. n : (k > 0 => k - 1 \in 0 .. n /\ k # 0) /\ (k # 0 => k > 0)
  BY <1>1
<1>6. \A k \in 0 .. n : f[k] = IF k = 0 THEN 0 ELSE f[k - 1] * Base + b[k]
  <2> HIDE DEF g, V, n
  <2>1. ASSUME NEW k \in 0 .. n, k > 0 PROVE f[k] = f[k - 1] * Base + b[k]
    <3>1. f[k - 1] \in V /\ k # 0 /\ f[k] = g[<<k, f[k - 1]>>]
      BY <2>1, <1>4, <1>5
    <3> QED BY <1>2, <3>1
  <2> QED BY <1>4, <1>5, <2>1
<1>7. Is(f)
  <2> HIDE DEF g, V, n
  <2> QED BY <1>4, <1>6
<1> DEFINE t == CHOOSE h : Is(h)
<1>8. Is(t)
  <2> HIDE DEF Is
  <2> QED BY <1>7
<1>9. Number(b) = t[n]
  BY DEF Number
<1> HIDE DEF t
<1>10. \A k \in 0 .. n : t[k] = IF k = 0 THEN 0 ELSE t[k - 1] * Base + b[k]
  BY <1>8
<1>11. t[0] = 0 /\ \A k \in 1 .. n : t[k] = t[k - 1] * Base + b[k]
  BY <1>1, <1>10
<1>12. \A k \in 0 .. n : t[k] \in V
  <2> DEFINE W == {k \in 0 .. n : t[k] \in V}
  <2> HIDE DEF V, n
  <2>1. 0 \in W
    BY <1>1, <1>11
  <2>2. ASSUME NEW k \in 0 .. n, k > 0, k - 1 \in W PROVE k \in W
    <3>1. t[k - 1] \in V /\ k \in 1 .. n /\ k # 0
      BY <1>1, <2>2
    <3>2. t[k] = g[<<k, t[k - 1]>>] /\ g[<<k, t[k - 1]>>] \in V
      <4> HIDE DEF g
      <4> QED BY <1>2, <1>11, <3>1
    <3> QED BY <3>2
  <2>3. \A k \in 0 .. n : k \in W
    <3> HIDE DEF W
    <3> QED BY <1>1, <2>1, <2>2, StepInduction
  <2> QED BY <2>3
<1>13. t \in [0 .. n -> V]
  <2>1. t = [k \in 0 .. n |-> t[k]]
    BY <1>8
  <2> QED BY <2>1, <1>12
<1> QED BY <1>9, <1>11, <1>13 DEF Sofar

(* What is left of a number after as many divisions as it has bytes is     *)
(* nothing.                                                                *)
LEMMA NothingLeft ==
  ASSUME NEW n \in Nat, NEW w \in Nat, n < Power(w), NEW r, Rests(r, n, w)
  PROVE  r[w] = 0
<1> PICK p : Powers(p, w) /\ Power(w) = p[w]
  BY PowerDef
<1> DEFINE W == {k \in 0 .. w : r[k] < p[w - k]}
<1>1. \A k \in 0 .. w : r[k] \in Nat /\ p[k] \in Nat
  BY DEF Rests, Powers
<1>2. 0 \in W
  BY DEF Rests
<1>3. ASSUME NEW k \in 0 .. w, k > 0, k - 1 \in W PROVE k \in W
  <2>1. k \in 1 .. w /\ w - k + 1 \in 1 .. w /\ (w - k + 1) - 1 = w - k /\ w - (k - 1) = w - k + 1
    BY <1>3
  <2>2. r[k] = r[k - 1] \div Base
    BY <2>1 DEF Rests
  <2>3. p[w - (k - 1)] = Base * p[w - k]
    BY <2>1 DEF Powers
  <2>4. r[k - 1] < Base * p[w - k]
    BY <1>3, <2>3
  <2>5. r[k - 1] \in Nat /\ p[w - k] \in Nat
    BY <1>1, <2>1
  <2>6. r[k - 1] \div Base < p[w - k]
    BY <2>4, <2>5, Shrinks
  <2> QED BY <2>1, <2>2, <2>6
<1>4. \A k \in 0 .. w : k \in W
  <2> HIDE DEF W
  <2> QED BY <1>2, <1>3, StepInduction
<1>5. r[w] < p[0] /\ p[0] = 1 /\ r[w] \in Nat
  <2>1. w \in W /\ w - w = 0
    BY <1>4
  <2> QED BY <1>1, <2>1 DEF Powers
<1> QED BY <1>5

(* The bytes of a number are digits, as many as the width says.            *)
LEMMA BigEndianBytes ==
  ASSUME NEW n \in Nat, NEW w \in Nat
  PROVE  BigEndian(n, w) \in Seq(Nat) /\ Len(BigEndian(n, w)) = w
<1> PICK r : Rests(r, n, w) /\ BigEndian(n, w) = [i \in 1 .. w |-> r[w - i] % Base]
  BY BigEndianDef
<1>1. ASSUME NEW i \in 1 .. w PROVE r[w - i] % Base \in Nat
  <2>1. w - i \in 0 .. w
    OBVIOUS
  <2>2. r[w - i] \in Nat
    BY <2>1 DEF Rests
  <2>3. r[w - i] % Base \in 0 .. Base - 1
    BY <2>2, Divides
  <2> QED BY <2>3, BaseFacts
<1> QED BY <1>1

(* A number that fits the bytes reads back.                                *)
LEMMA NumberBack ==
  ASSUME NEW n \in Nat, NEW w \in Nat, n < Power(w)
  PROVE  Number(BigEndian(n, w)) = n
<1> DEFINE b == BigEndian(n, w)
<1>0. b \in Seq(Nat) /\ Len(b) = w
  BY BigEndianBytes
<1>1. PICK r : Rests(r, n, w) /\ b = [i \in 1 .. w |-> r[w - i] % Base]
  BY BigEndianDef
<1>2. PICK v : Sofar(v, b) /\ Number(b) = v[w]
  BY <1>0, NumberDef
<1> HIDE DEF b
<1> DEFINE W == {k \in 0 .. w : v[k] = r[w - k]}
<1>3. 0 \in W
  BY <1>0, <1>1, <1>2, NothingLeft DEF Sofar
<1>4. ASSUME NEW k \in 0 .. w, k > 0, k - 1 \in W PROVE k \in W
  <2>1. k \in 1 .. w /\ w - k + 1 \in 1 .. w /\ (w - k + 1) - 1 = w - k /\ w - (k - 1) = w - k + 1
        /\ w - k \in 0 .. w
    BY <1>4
  <2>2. v[k] = v[k - 1] * Base + b[k]
    BY <1>0, <1>2, <2>1 DEF Sofar
  <2>3. v[k - 1] = r[w - k + 1]
    BY <1>4, <2>1
  <2>4. r[w - k + 1] = r[w - k] \div Base
    BY <1>1, <2>1 DEF Rests
  <2>5. b[k] = r[w - k] % Base
    BY <1>1, <2>1
  <2>6. r[w - k] \in Nat
    BY <1>1, <2>1 DEF Rests
  <2>7. (r[w - k] \div Base) * Base + (r[w - k] % Base) = r[w - k]
    BY <2>6, Divides
  <2>8. v[k] = r[w - k]
    BY <2>2, <2>3, <2>4, <2>5, <2>7
  <2> QED BY <2>1, <2>8
<1>5. \A k \in 0 .. w : k \in W
  <2> HIDE DEF W
  <2> QED BY <1>3, <1>4, StepInduction
<1>6. w \in W /\ w - w = 0 /\ r[0] = n
  BY <1>1, <1>5 DEF Rests
<1> QED BY <1>2, <1>6 DEF b

(* What two bytes tell apart.                                              *)
LEMMA TwoBytes == Power(2) = Base * Base
<1>1. PICK p : Powers(p, 2) /\ Power(2) = p[2]
  BY PowerDef
<1>2. p[0] = 1 /\ p[1] = Base * p[0] /\ p[2] = Base * p[1]
  <2>1. 1 \in 1 .. 2 /\ 2 \in 1 .. 2 /\ 1 - 1 = 0 /\ 2 - 1 = 1
    OBVIOUS
  <2> QED BY <1>1, <2>1 DEF Powers
<1> QED BY <1>1, <1>2, BaseFacts

(* Some bytes tell a number of numbers apart, and always one.              *)
LEMMA PowerNumber ==
  ASSUME NEW n \in Nat
  PROVE  Power(n) \in Nat \ {0}
<1>1. PICK p : Powers(p, n) /\ Power(n) = p[n]
  BY PowerDef
<1>2. n \in 0 .. n
  OBVIOUS
<1> QED BY <1>1, <1>2 DEF Powers

(* A remainder.                                                            *)
LEMMA SmallRemainder ==
  ASSUME NEW m \in Nat \ {0}, NEW x \in 0 .. m - 1
  PROVE  x % m = x
OBVIOUS

(* A remainder of a number that is one modulus away.                       *)
LEMMA ShiftedRemainder ==
  ASSUME NEW m \in Nat \ {0}, NEW x \in 0 .. m - 1
  PROVE  (x - m) % m = x /\ (x + m) % m = x
OBVIOUS

(* An integer that fits its type reads back from its bytes.                *)
THEOREM IntegersReadBack ==
  ASSUME NEW type \in IntegerType, NEW n \in Int, Fits(n, type)
  PROVE  /\ IntegerBytes(n, type) \in Seq(Nat)
         /\ Len(IntegerBytes(n, type)) = Width[type]
         /\ BytesInteger(IntegerBytes(n, type), type) = n
<1> DEFINE w == Width[type]
           m == Modulus(type)
           l == Lowest(type)
           x == n % m
<1>1. w \in Nat
  BY DEF Width, IntegerType
<1>2. m \in Nat \ {0} /\ m = Power(w)
  BY <1>1, PowerNumber DEF Modulus
<1>3. l \in Int /\ l <= 0 /\ 0 <= l + m - 1
  <2>1. m \div 2 \in Nat /\ m \div 2 <= m - 1
    <3> HIDE DEF m
    <3> QED BY <1>2
  <2>2. l = 0 \/ l = -(m \div 2)
    BY DEF Lowest
  <2> HIDE DEF m, l
  <2> QED BY <1>2, <2>1, <2>2
<1>4. l <= n /\ n <= l + m - 1
  BY DEF Fits, Highest
<1> HIDE DEF w, m, l
<1>5. x \in 0 .. m - 1
  BY <1>2
<1>6. BigEndian(x, w) \in Seq(Nat) /\ Len(BigEndian(x, w)) = w /\ Number(BigEndian(x, w)) = x
  <2>1. x \in Nat /\ x < Power(w)
    BY <1>2, <1>5
  <2> HIDE DEF x
  <2> QED BY <1>1, <2>1, BigEndianBytes, NumberBack
<1>7. ((x - l) % m) + l = n
  <2>1. n - l \in 0 .. m - 1
    BY <1>2, <1>3, <1>4
  <2>2. CASE n >= 0
    <3>1. n \in 0 .. m - 1
      BY <1>2, <1>3, <1>4, <2>2
    <3>2. x = n
      BY <1>2, <3>1, SmallRemainder
    <3>3. (n - l) % m = n - l
      BY <1>2, <2>1, SmallRemainder
    <3> HIDE DEF x
    <3> QED BY <1>3, <3>2, <3>3
  <2>3. CASE n < 0
    <3>1. n + m \in 0 .. m - 1 /\ (n + m) - m = n
      BY <1>2, <1>3, <1>4, <2>3
    <3>2. ((n + m) - m) % m = n + m
      BY <1>2, <3>1, ShiftedRemainder
    <3>3. x = n + m
      BY <3>1, <3>2
    <3>4. ((n - l) + m) % m = n - l
      BY <1>2, <2>1, ShiftedRemainder
    <3>5. x - l = (n - l) + m /\ (n - l) + l = n
      BY ONLY <1>2, <1>3, <3>3, n \in Int
    <3> QED BY <3>4, <3>5
  <2> QED BY <2>2, <2>3
<1> QED BY <1>6, <1>7 DEF IntegerBytes, BytesInteger, Wrapped, w, m, l

-----------------------------------------------------------------------------
(* Parts of a file, and reading them.                                      *)

(* What a file holds: the bytes of numbers and of characters.              *)
Byte == Nat \cup Range(Utf8)

(* The bytes b are part of h, from a place on.                             *)
Field(h, at, b) == at + Len(b) <= Len(h) /\ \A i \in 1 .. Len(b) : h[at + i] = b[i]

(* What reading a part that ends at a place gives, of which the file has m *)
(* bytes.                                                                  *)
Outcome(m, node, end) == IF end <= m THEN Got(node, end) ELSE Failed("error")

(* A part of two pieces.                                                   *)
LEMMA FieldPieces ==
  ASSUME NEW h \in Seq(Byte), NEW at \in Nat, NEW a \in Seq(Byte), NEW b \in Seq(Byte), Field(h, at, a \o b)
  PROVE  Field(h, at, a) /\ Field(h, at + Len(a), b) /\ Len(a \o b) = Len(a) + Len(b)
<1> DEFINE c == a \o b
           k == Len(a)
           l == Len(b)
           n == Len(h)
<1>1. /\ c \in Seq(Byte) /\ Len(c) = k + l
      /\ \A i \in 1 .. k : c[i] = a[i]
      /\ \A i \in 1 .. l : c[k + i] = b[i]
  <2>1. \A i \in 1 .. l : k + i \in 1 .. k + l /\ k + i > k /\ (k + i) - k = i
    OBVIOUS
  <2>2. /\ c \in Seq(Byte) /\ Len(c) = k + l
        /\ \A i \in 1 .. k + l : c[i] = IF i <= k THEN a[i] ELSE b[i - k]
    BY ConcatProperties
  <2>3. k \in Nat /\ l \in Nat
    OBVIOUS
  <2> HIDE DEF c, k, l
  <2>4. \A i \in 1 .. k : i \in 1 .. k + l /\ i <= k
    BY <2>3
  <2>5. \A i \in 1 .. l : ~(k + i <= k)
    BY <2>1, <2>3
  <2> QED BY <2>1, <2>2, <2>4, <2>5
<1>2. k \in Nat /\ l \in Nat /\ n \in Nat /\ at + Len(c) <= n
  BY DEF Field
<1>3. \A i \in 1 .. Len(c) : h[at + i] = c[i]
  BY DEF Field
<1> HIDE DEF c, k, l, n
<1>4. at + k <= n /\ (at + k) + l <= n
  BY <1>1, <1>2
<1>5. \A i \in 1 .. k : h[at + i] = a[i]
  <2>1. \A i \in 1 .. k : i \in 1 .. Len(c)
    BY <1>1, <1>2
  <2> QED BY <1>1, <1>3, <2>1
<1>6. \A i \in 1 .. l : h[(at + k) + i] = b[i]
  <2>1. \A i \in 1 .. l : k + i \in 1 .. Len(c) /\ at + (k + i) = (at + k) + i
    BY <1>1, <1>2
  <2>2. \A i \in 1 .. l : h[at + (k + i)] = b[i]
    BY <1>1, <1>3, <2>1
  <2> QED BY <2>1, <2>2
<1> QED BY <1>1, <1>4, <1>5, <1>6 DEF Field, c, k, l, n

(* Bytes behind bytes.                                                     *)
LEMMA CatBytes ==
  ASSUME NEW a \in Seq(Byte), NEW b \in Seq(Byte)
  PROVE  a \o b \in Seq(Byte) /\ Len(a \o b) = Len(a) + Len(b)
BY ConcatProperties

(* A part of a part.                                                       *)
LEMMA FieldOfFront ==
  ASSUME NEW h, NEW c, NEW at \in Nat, NEW b, Len(b) \in Nat, Field(c, at, b),
         Len(h) \in Nat, Len(c) \in Nat, Len(c) <= Len(h), \A i \in 1 .. Len(c) : h[i] = c[i]
  PROVE  Field(h, at, b)
<1>1. \A i \in 1 .. Len(b) : at + i \in 1 .. Len(c)
  BY DEF Field
<1> QED BY <1>1 DEF Field

(* A piece of its own.                                                     *)
LEMMA FieldBehind ==
  ASSUME NEW a \in Seq(Byte), NEW b \in Seq(Byte)
  PROVE  Field(a \o b, Len(a), b) /\ Field(a \o b, 0, a)
<1> DEFINE c == a \o b
           k == Len(a)
           l == Len(b)
<1>1. k \in Nat /\ l \in Nat /\ c \in Seq(Byte)
  OBVIOUS
<1>2. Len(c) = k + l /\ \A i \in 1 .. k + l : c[i] = IF i <= k THEN a[i] ELSE b[i - k]
  BY ConcatProperties
<1> HIDE DEF c, k, l
<1>3. \A i \in 1 .. l : k + i \in 1 .. k + l /\ ~(k + i <= k) /\ (k + i) - k = i
  BY <1>1
<1>4. \A i \in 1 .. k : i \in 1 .. k + l /\ i <= k /\ 0 + i = i
  BY <1>1
<1>5. \A i \in 1 .. l : c[k + i] = b[i]
  BY <1>2, <1>3
<1>6. \A i \in 1 .. k : c[0 + i] = a[i]
  BY <1>2, <1>4
<1>7. k + l <= Len(c) /\ 0 + k <= Len(c)
  BY <1>1, <1>2
<1> QED BY <1>5, <1>6, <1>7 DEF Field, c, k, l

(* read_exact() reads the part, or fails where the file is cut off.        *)
LEMMA ReadsExactly ==
  ASSUME NEW h \in Seq(Byte), NEW m \in 0 .. Len(h), NEW at \in Nat,
         NEW b \in Seq(Byte), Field(h, at, b)
  PROVE  ReadExact(SubSeq(h, 1, m), at, Len(b)) = Outcome(m, b, at + Len(b))
<1> DEFINE f == SubSeq(h, 1, m)
           n == Len(b)
<1>1. n \in Nat /\ Len(h) \in Nat
  OBVIOUS
<1>2. f \in Seq(Byte) /\ Len(f) = m /\ \A i \in 1 .. m : f[i] = h[i]
  <2>1. m - 1 + 1 = m /\ 1 + m - 1 = m
    OBVIOUS
  <2>2. \A i \in 1 .. m : 1 + i - 1 = i /\ i \in 1 .. Len(h)
    OBVIOUS
  <2> QED BY <1>1, <2>1, <2>2
<1> HIDE DEF f
<1>3. CASE at + n <= m
  <2> DEFINE c == SubSeq(f, at + 1, at + n)
  <2>1. c = b
    <3>1. at + n <= Len(f)
      BY <1>2, <1>3
    <3>2. Len(c) = n /\ c \in Seq(Byte) /\ \A i \in 1 .. n : c[i] = f[at + i]
      <4>1. \A i \in 1 .. n : at + 1 + i - 1 = at + i /\ at + i \in 1 .. Len(f)
        BY <1>1, <1>2, <1>3
      <4>2. (at + n) - (at + 1) + 1 = n
        BY <1>1
      <4> HIDE DEF n
      <4> QED BY <1>1, <1>2, <3>1, <4>1, <4>2
    <3> HIDE DEF c
    <3>3. \A i \in 1 .. n : f[at + i] = b[i]
      <4>1. \A i \in 1 .. n : at + i \in 1 .. m
        BY <1>1, <1>3
      <4> QED BY <1>2, <4>1 DEF Field
    <3>4. \A i \in 1 .. n : c[i] = b[i]
      BY <3>2, <3>3
    <3>5. b \in Seq(Byte) /\ Len(b) = n
      OBVIOUS
    <3> HIDE DEF n
    <3> QED BY ONLY <3>2, <3>4, <3>5, <1>1
  <2>2. ~(at + n > Len(f))
    BY <1>1, <1>2, <1>3
  <2> QED BY <1>3, <2>1, <2>2 DEF ReadExact, Outcome, f
<1>4. CASE ~(at + n <= m)
  <2>1. at + n > Len(f)
    BY <1>1, <1>2, <1>4
  <2> QED BY <1>4, <2>1 DEF ReadExact, Outcome, f
<1> QED BY <1>3, <1>4

(* A number is read from its bytes, in one byte or in more.                *)
LEMMA ReadsNumber ==
  ASSUME NEW h \in Seq(Byte), NEW m \in 0 .. Len(h), NEW at \in Nat,
         NEW x, NEW b \in Seq(Byte), Number(b) = x, Field(h, at, b)
  PROVE  ReadNumber(SubSeq(h, 1, m), at, Len(b)) = Outcome(m, x, at + Len(b))
<1>1. ReadExact(SubSeq(h, 1, m), at, Len(b)) = Outcome(m, b, at + Len(b))
  BY ReadsExactly
<1>2. CASE at + Len(b) <= m
  BY <1>1, <1>2 DEF ReadNumber, Then, Outcome, Got
<1>3. CASE ~(at + Len(b) <= m)
  BY <1>1, <1>3 DEF ReadNumber, Then, Outcome, Failed
<1> QED BY <1>2, <1>3

(* A single byte is its own number.                                        *)
LEMMA OneByte ==
  ASSUME NEW x \in Nat
  PROVE  Number(<<x>>) = x
<1>1. <<x>> \in Seq(Nat) /\ Len(<<x>>) = 1 /\ <<x>>[1] = x
  OBVIOUS
<1>2. PICK v : Sofar(v, <<x>>) /\ Number(<<x>>) = v[1]
  BY <1>1, NumberDef
<1>3. v[0] = 0 /\ v[1] = v[0] * Base + x
  <2>1. 1 \in 1 .. Len(<<x>>) /\ 1 - 1 = 0
    BY <1>1
  <2> QED BY <1>1, <1>2, <2>1 DEF Sofar
<1> QED BY <1>2, <1>3, BaseFacts

-----------------------------------------------------------------------------
(* Names and columns.                                                      *)

(* The names a header can hold.                                            *)
Name == {s \in Seq(DOMAIN Utf8) : NameFits(s)}

(* The bytes of a string are one for each symbol, and the symbol can be    *)
(* had back from each.                                                     *)
LEMMA CharsOf ==
  ASSUME NEW s \in Seq(DOMAIN Utf8)
  PROVE  /\ Chars(s) \in Seq(Byte) /\ Len(Chars(s)) = Len(s) /\ Len(s) \in Nat
         /\ \A i \in 1 .. Len(s) : Chars(s)[i] \in Range(Utf8) /\ AntiFunction(Utf8)[Chars(s)[i]] = s[i]
         /\ Chars(s) = [i \in 1 .. Len(s) |-> Utf8[s[i]]]
<1>1. Len(s) \in Nat /\ DOMAIN s = 1 .. Len(s) /\ \A i \in 1 .. Len(s) : s[i] \in DOMAIN Utf8
  OBVIOUS
<1>2. Chars(s) = [i \in 1 .. Len(s) |-> Utf8[s[i]]]
  BY <1>1 DEF Chars
<1>3. ASSUME NEW i \in 1 .. Len(s)
      PROVE  Utf8[s[i]] \in Range(Utf8) /\ AntiFunction(Utf8)[Utf8[s[i]]] = s[i]
  <2> DEFINE a == s[i]
             y == Utf8[a]
             t == CHOOSE t \in DOMAIN Utf8 : y \in Range(Utf8) => Utf8[t] = y
  <2>1. a \in DOMAIN Utf8
    BY <1>1
  <2>2. y \in Range(Utf8)
    BY <2>1 DEF Range
  <2>3. AntiFunction(Utf8)[y] = t
    BY <2>2 DEF AntiFunction, Inverse
  <2>4. t \in DOMAIN Utf8 /\ Utf8[t] = y
    <3>1. \E z \in DOMAIN Utf8 : y \in Range(Utf8) => Utf8[z] = y
      BY <2>1
    <3> HIDE DEF y
    <3> QED BY <2>2, <3>1
  <2>5. t = a
    <3> HIDE DEF t
    <3> QED BY <2>1, <2>4, Utf8Assumption DEF IsInjective
  <2> QED BY <2>2, <2>3, <2>5
<1>4. Chars(s) \in Seq(Byte)
  BY <1>1, <1>2, <1>3 DEF Byte
<1> QED BY <1>1, <1>2, <1>3, <1>4

(* The bytes of a number are bytes.                                        *)
LEMMA NumberBytes ==
  ASSUME NEW n \in Nat, NEW w \in Nat
  PROVE  BigEndian(n, w) \in Seq(Byte) /\ Len(BigEndian(n, w)) = w
<1>1. BigEndian(n, w) \in Seq(Nat) /\ Len(BigEndian(n, w)) = w
  BY BigEndianBytes
<1>2. Seq(Nat) \subseteq Seq(Byte)
  BY DEF Byte
<1> QED BY <1>1, <1>2

(* A string is read from its length and its characters.                    *)
LEMMA ReadsString ==
  ASSUME NEW h \in Seq(Byte), NEW m \in 0 .. Len(h), NEW at \in Nat, NEW name \in Name,
         Field(h, at, BigEndian(Len(name), 2) \o Chars(name))
  PROVE  ReadString(SubSeq(h, 1, m), at) = Outcome(m, name, at + 2 + Len(name))
<1> DEFINE f == SubSeq(h, 1, m)
           b == BigEndian(Len(name), 2)
           c == Chars(name)
           l == Len(name)
<1>1. name \in Seq(DOMAIN Utf8) /\ l \in Nat /\ l < Base * Base
  BY DEF Name, NameFits
<1>2. /\ c \in Seq(Byte) /\ Len(c) = l
      /\ \A i \in 1 .. l : c[i] \in Range(Utf8) /\ AntiFunction(Utf8)[c[i]] = name[i]
  BY <1>1, CharsOf
<1>3. b \in Seq(Byte) /\ Len(b) = 2 /\ Number(b) = l
  BY <1>1, NumberBytes, NumberBack, TwoBytes
<1> HIDE DEF b, c
<1>4. Field(h, at, b) /\ Field(h, at + 2, c)
  <2>1. Field(h, at, b \o c)
    BY DEF b, c
  <2>2. Field(h, at, b) /\ Field(h, at + Len(b), c)
    BY ONLY <1>2, <1>3, <2>1, FieldPieces, h \in Seq(Byte), at \in Nat
  <2> QED BY ONLY <1>3, <2>2
<1>5. ReadNumber(f, at, 2) = Outcome(m, l, at + 2)
  <2> HIDE DEF l
  <2>1. Number(b) = l /\ b \in Seq(Byte) /\ Field(h, at, b)
    BY <1>3, <1>4
  <2>2. ReadNumber(SubSeq(h, 1, m), at, Len(b)) = Outcome(m, l, at + Len(b))
    BY ONLY <2>1, ReadsNumber, h \in Seq(Byte), at \in Nat, m \in 0 .. Len(h)
  <2> QED BY <1>3, <2>2
<1>6. ReadExact(f, at + 2, l) = Outcome(m, c, at + 2 + l)
  <2> HIDE DEF l
  <2>1. at + 2 \in Nat
    OBVIOUS
  <2> QED BY <1>2, <1>4, <2>1, ReadsExactly
<1>7. m \in Nat /\ Len(h) \in Nat
  OBVIOUS
<1> HIDE DEF f, l
<1>8. CASE at + 2 + l <= m
  <2>1. at + 2 <= m
    BY <1>1, <1>7, <1>8
  <2>2. ReadNumber(f, at, 2) = Got(l, at + 2) /\ ReadExact(f, at + 2, l) = Got(c, at + 2 + l)
    BY <1>5, <1>6, <1>8, <2>1 DEF Outcome
  <2>3. DOMAIN c = 1 .. l
    BY <1>1, <1>2
  <2>4. \A i \in DOMAIN c : c[i] \in Range(Utf8)
    BY <1>2, <2>3
  <2>5. [i \in DOMAIN c |-> AntiFunction(Utf8)[c[i]]] = name
    <3>1. name = [i \in 1 .. l |-> name[i]]
      BY <1>1 DEF l
    <3> QED BY <1>2, <2>3, <3>1
  <2> DEFINE p == at + 2
             q == at + 2 + l
             d == [i \in DOMAIN c |-> AntiFunction(Utf8)[c[i]]]
  <2>6. /\ ReadNumber(f, at, 2) = Got(l, p) /\ ReadExact(f, p, l) = Got(c, q)
        /\ (\A i \in DOMAIN c : c[i] \in Range(Utf8)) = TRUE
    BY <2>2, <2>4
  <2> HIDE DEF p, q
  <2>7. ReadString(f, at) = IF \A i \in DOMAIN c : c[i] \in Range(Utf8) THEN Got(d, q) ELSE Failed("error")
    BY ONLY <2>6 DEF ReadString, Then, Got
  <2>8. ReadString(f, at) = Got(name, at + 2 + l)
    BY <2>5, <2>6, <2>7 DEF q
  <2> QED BY <1>8, <2>8 DEF Outcome, f, l
<1>9. CASE ~(at + 2 + l <= m)
  <2>1. CASE at + 2 <= m
    <3>1. ReadNumber(f, at, 2) = Got(l, at + 2) /\ ReadExact(f, at + 2, l) = Failed("error")
      BY <1>5, <1>6, <1>9, <2>1 DEF Outcome
    <3>2. ReadString(f, at) = Failed("error")
      BY <3>1 DEF ReadString, Then, Got, Failed
    <3> QED BY <1>9, <3>2 DEF Outcome, f, l
  <2>2. CASE ~(at + 2 <= m)
    <3>1. ReadNumber(f, at, 2) = Failed("error")
      BY <1>5, <2>2 DEF Outcome
    <3>2. ReadString(f, at) = Failed("error")
      BY <3>1 DEF ReadString, Then, Failed
    <3> QED BY <1>9, <3>2 DEF Outcome, f, l
  <2> QED BY <2>1, <2>2
<1> QED BY <1>8, <1>9

(* The byte of a type stands for that type.                                *)
LEMMA TypeOf ==
  ASSUME NEW type \in Range(Types)
  PROVE  TypeByte(type) \in 0 .. 6 /\ TypeByte(type) + 1 \in DOMAIN Types /\ Types[TypeByte(type) + 1] = type
<1>1. DOMAIN Types = 1 .. 7
  BY DEF Types
<1>2. \E i \in 1 .. 7 : Types[i] = type
  BY <1>1 DEF Range
<1> DEFINE i == CHOOSE i \in DOMAIN Types : Types[i] = type
<1>3. i \in 1 .. 7 /\ Types[i] = type
  BY <1>1, <1>2
<1>4. TypeByte(type) = i - 1
  BY DEF TypeByte
<1> HIDE DEF i
<1>5. i - 1 \in 0 .. 6 /\ (i - 1) + 1 = i
  BY <1>3
<1> QED BY <1>1, <1>3, <1>4, <1>5

(* The entry of a column is its name, with the length in front, and then   *)
(* its type and its option.                                                *)
LEMMA EntryOf ==
  ASSUME NEW name \in Name, NEW type \in Range(Types), NEW option \in Nat
  PROVE  LET a == BigEndian(Len(name), 2) \o Chars(name)
             b == <<TypeByte(type)>> \o <<option>>
         IN  /\ a \in Seq(Byte) /\ b \in Seq(Byte)
             /\ <<TypeByte(type)>> \in Seq(Byte) /\ <<option>> \in Seq(Byte)
             /\ ColumnEntry(name, type, option) = a \o b
             /\ Len(a) = 2 + Len(name) /\ Len(b) = 2
             /\ ColumnEntry(name, type, option) \in Seq(Byte)
             /\ Len(ColumnEntry(name, type, option)) = Len(name) + 4
             /\ Len(name) \in Nat
<1> DEFINE n == BigEndian(Len(name), 2)
           c == Chars(name)
           t == TypeByte(type)
<1>1. name \in Seq(DOMAIN Utf8)
  BY DEF Name
<1>2. c \in Seq(Byte) /\ Len(c) = Len(name) /\ Len(name) \in Nat /\ c = [i \in DOMAIN name |-> Utf8[name[i]]]
  BY <1>1, CharsOf DEF Chars
<1>3. n \in Seq(Byte) /\ Len(n) = 2
  BY <1>2, NumberBytes
<1>4. t \in Nat
  BY TypeOf
<1>5. ColumnEntry(name, type, option) = (n \o c) \o <<t, option>>
  BY <1>2 DEF ColumnEntry
<1> HIDE DEF n, c, t
<1>6. <<t>> \o <<option>> = <<t, option>>
  <2> DEFINE x == <<t>>
             y == <<option>>
             z == x \o y
             u == <<t, option>>
  <2>1. x \in Seq(Nat) /\ y \in Seq(Nat) /\ Len(x) = 1 /\ Len(y) = 1 /\ x[1] = t /\ y[1] = option
    BY <1>4
  <2>2. u \in Seq(Nat) /\ Len(u) = 2 /\ u[1] = t /\ u[2] = option
    BY <1>4
  <2> HIDE DEF x, y, u
  <2>3. z \in Seq(Nat) /\ Len(z) = 2 /\ z[1] = t /\ z[2] = option
    <3>1. /\ z \in Seq(Nat) /\ Len(z) = Len(x) + Len(y)
          /\ \A i \in 1 .. Len(x) + Len(y) : z[i] = IF i <= Len(x) THEN x[i] ELSE y[i - Len(x)]
      BY ONLY <2>1, ConcatProperties
    <3> HIDE DEF z
    <3>2. /\ z \in Seq(Nat) /\ Len(z) = 2
          /\ \A i \in 1 .. 2 : z[i] = IF i <= 1 THEN x[i] ELSE y[i - 1]
      BY ONLY <2>1, <3>1
    <3>3. z[1] = x[1] /\ z[2] = y[1]
      BY ONLY <3>2
    <3> QED BY ONLY <2>1, <3>2, <3>3
  <2> HIDE DEF z
  <2>4. z = u
    BY ONLY <2>2, <2>3
  <2> QED BY ONLY <2>4 DEF x, y, z, u
<1>7. <<t>> \in Seq(Byte) /\ <<option>> \in Seq(Byte) /\ <<t, option>> \in Seq(Byte) /\ Len(<<t, option>>) = 2
  BY <1>4 DEF Byte
<1>8. n \o c \in Seq(Byte) /\ Len(n \o c) = 2 + Len(name)
  <2>1. n \o c \in Seq(Byte) /\ Len(n \o c) = Len(n) + Len(c)
    BY ONLY <1>2, <1>3, CatBytes
  <2> QED BY <1>2, <1>3, <2>1
<1>9. (n \o c) \o <<t, option>> \in Seq(Byte) /\ Len((n \o c) \o <<t, option>>) = Len(name) + 4
  <2> DEFINE x == n \o c
             y == <<t, option>>
  <2>1. x \in Seq(Byte) /\ y \in Seq(Byte) /\ Len(x) = 2 + Len(name) /\ Len(y) = 2
    BY <1>7, <1>8
  <2> HIDE DEF x, y
  <2>2. x \o y \in Seq(Byte) /\ Len(x \o y) = Len(name) + 4
    <3>1. x \o y \in Seq(Byte) /\ Len(x \o y) = Len(x) + Len(y)
      BY ONLY <2>1, CatBytes
    <3> QED BY <1>2, <2>1, <3>1
  <2> QED BY <2>2 DEF x, y
<1> QED BY <1>2, <1>5, <1>6, <1>7, <1>8, <1>9 DEF n, c, t

(* A column is read from its entry.                                        *)
LEMMA ReadsColumn ==
  ASSUME NEW h \in Seq(Byte), NEW m \in 0 .. Len(h), NEW at \in Nat,
         NEW name \in Name, NEW type \in Range(Types), NEW option \in Nat,
         Field(h, at, ColumnEntry(name, type, option))
  PROVE  ReadColumn(SubSeq(h, 1, m), at) =
           Outcome(m, [name |-> name, type |-> type, option |-> option],
                   at + Len(ColumnEntry(name, type, option)))
<1> DEFINE f == SubSeq(h, 1, m)
           a == BigEndian(Len(name), 2) \o Chars(name)
           x == <<TypeByte(type)>>
           y == <<option>>
           t == TypeByte(type)
           l == Len(name)
           e == ColumnEntry(name, type, option)
           col == [name |-> name, type |-> type, option |-> option]
<1>1. /\ a \in Seq(Byte) /\ x \o y \in Seq(Byte) /\ x \in Seq(Byte) /\ y \in Seq(Byte)
      /\ e = a \o (x \o y) /\ Len(a) = 2 + l /\ Len(e) = l + 4 /\ l \in Nat
  BY EntryOf
<1>2. Len(x) = 1 /\ Len(y) = 1
  OBVIOUS
<1>3. t \in 0 .. 6 /\ t + 1 \in DOMAIN Types /\ Types[t + 1] = type
  BY TypeOf
<1>4. Number(x) = t /\ Number(y) = option
  BY <1>3, OneByte
<1> HIDE DEF a, x, y, t, l, e
<1>5. Field(h, at, a) /\ Field(h, at + (2 + l), x \o y)
  <2>1. Field(h, at, a \o (x \o y))
    BY <1>1 DEF e
  <2> DEFINE xy == x \o y
  <2>2. xy \in Seq(Byte) /\ Field(h, at, a \o xy)
    BY <1>1, <2>1
  <2> HIDE DEF xy
  <2>3. Field(h, at, a) /\ Field(h, at + Len(a), xy)
    BY ONLY <1>1, <2>2, FieldPieces, h \in Seq(Byte), at \in Nat
  <2>4. Len(a) = 2 + l
    BY <1>1
  <2> QED BY ONLY <2>3, <2>4 DEF xy
<1>6. at + (2 + l) \in Nat /\ at + (2 + l) + 1 \in Nat
  BY <1>1
<1>7. Field(h, at + (2 + l), x) /\ Field(h, at + (2 + l) + 1, y)
  <2> DEFINE p == at + (2 + l)
  <2>1. p \in Nat /\ x \in Seq(Byte) /\ y \in Seq(Byte) /\ Len(x) = 1 /\ Field(h, p, x \o y)
    BY <1>1, <1>2, <1>5, <1>6
  <2> HIDE DEF p
  <2>2. Field(h, p, x) /\ Field(h, p + Len(x), y)
    BY ONLY <2>1, FieldPieces, h \in Seq(Byte)
  <2>3. Field(h, p, x) /\ Field(h, p + 1, y)
    BY ONLY <2>1, <2>2
  <2> QED BY ONLY <2>3 DEF p
<1>8. ReadString(f, at) = Outcome(m, name, at + 2 + l)
  BY <1>5, ReadsString DEF a, l
<1>9. ReadNumber(f, at + 2 + l, 1) = Outcome(m, t, at + 2 + l + 1)
  <2>1. at + (2 + l) = at + 2 + l
    BY <1>1
  <2>2. ReadNumber(f, at + (2 + l), 1) = Outcome(m, t, at + (2 + l) + 1)
    <3> DEFINE p == at + (2 + l)
    <3>1. Number(x) = t /\ x \in Seq(Byte) /\ Field(h, p, x) /\ p \in Nat
      BY <1>1, <1>4, <1>6, <1>7
    <3> HIDE DEF p
    <3>2. ReadNumber(SubSeq(h, 1, m), p, Len(x)) = Outcome(m, t, p + Len(x))
      BY ONLY <3>1, ReadsNumber, h \in Seq(Byte), m \in 0 .. Len(h)
    <3> QED BY ONLY <1>2, <3>2 DEF f, p
  <2> QED BY <2>1, <2>2
<1>10. ReadNumber(f, at + 2 + l + 1, 1) = Outcome(m, option, at + Len(e))
  <2>1. at + (2 + l) + 1 = at + 2 + l + 1 /\ at + (2 + l) + 1 + 1 = at + Len(e)
    BY <1>1
  <2>2. ReadNumber(f, at + (2 + l) + 1, 1) = Outcome(m, option, at + (2 + l) + 1 + 1)
    <3> DEFINE p == at + (2 + l) + 1
    <3>1. Number(y) = option /\ y \in Seq(Byte) /\ Field(h, p, y) /\ p \in Nat
      BY <1>1, <1>4, <1>6, <1>7
    <3> HIDE DEF p
    <3>2. ReadNumber(SubSeq(h, 1, m), p, Len(y)) = Outcome(m, option, p + Len(y))
      BY ONLY <3>1, ReadsNumber, h \in Seq(Byte), m \in 0 .. Len(h)
    <3> QED BY ONLY <1>2, <3>2 DEF f, p
  <2> QED BY <2>1, <2>2
<1>11. m \in Nat /\ at + Len(e) = at + 2 + l + 2
  BY <1>1
<1> DEFINE p1 == at + 2 + l
           p2 == at + 2 + l + 1
           p3 == at + Len(e)
<1>12. p1 \in Nat /\ p2 \in Nat /\ p3 \in Nat /\ p1 <= p2 /\ p2 <= p3
  BY <1>1, <1>11
<1>13. /\ ReadString(f, at) = Outcome(m, name, p1)
       /\ ReadNumber(f, p1, 1) = Outcome(m, t, p2)
       /\ ReadNumber(f, p2, 1) = Outcome(m, option, p3)
  BY <1>8, <1>9, <1>10
<1> HIDE DEF f, p1, p2, p3, col
<1>14. CASE p3 <= m
  <2>1. /\ ReadString(f, at) = Got(name, p1) /\ ReadNumber(f, p1, 1) = Got(t, p2)
        /\ ReadNumber(f, p2, 1) = Got(option, p3)
    BY <1>11, <1>12, <1>13, <1>14 DEF Outcome
  <2>2. ReadColumn(f, at) = Got(col, p3)
    BY <1>3, <2>1 DEF ReadColumn, Then, Got, col
  <2> QED BY <1>14, <2>2 DEF Outcome, f, p3, e, col
<1>15. CASE ~(p3 <= m)
  <2>1. ReadColumn(f, at) = Failed("error")
    <3>1. CASE ~(p1 <= m)
      <4>1. ReadString(f, at) = Failed("error")
        BY <1>13, <3>1 DEF Outcome
      <4> QED BY <4>1 DEF ReadColumn, Then, Failed
    <3>2. CASE p1 <= m /\ ~(p2 <= m)
      <4>1. ReadString(f, at) = Got(name, p1) /\ ReadNumber(f, p1, 1) = Failed("error")
        BY <1>13, <3>2 DEF Outcome
      <4> QED BY <4>1 DEF ReadColumn, Then, Failed, Got
    <3>3. CASE p1 <= m /\ p2 <= m
      <4>1. /\ ReadString(f, at) = Got(name, p1) /\ ReadNumber(f, p1, 1) = Got(t, p2)
            /\ ReadNumber(f, p2, 1) = Failed("error")
        BY <1>13, <1>15, <3>3 DEF Outcome
      <4> QED BY <1>3, <4>1 DEF ReadColumn, Then, Failed, Got
    <3> QED BY <3>1, <3>2, <3>3
  <2> QED BY <1>15, <2>1 DEF Outcome, f, p3, e
<1> QED BY <1>14, <1>15

-----------------------------------------------------------------------------
(* Pieces that follow each other, and the columns of a schema.             *)

(* A part of a part.                                                       *)
LEMMA FieldWithin ==
  ASSUME NEW h, Len(h) \in Nat, NEW c, Len(c) \in Nat, NEW at \in Nat, Field(h, at, c),
         NEW p \in Nat, NEW b, Len(b) \in Nat, Field(c, p, b)
  PROVE  Field(h, at + p, b)
<1>1. p + Len(b) <= Len(c) /\ at + Len(c) <= Len(h)
  BY DEF Field
<1>2. at + p + Len(b) <= Len(h)
  BY <1>1
<1>3. ASSUME NEW i \in 1 .. Len(b) PROVE h[at + p + i] = b[i]
  <2>1. p + i \in 1 .. Len(c) /\ at + (p + i) = at + p + i
    BY <1>1
  <2>2. h[at + (p + i)] = c[p + i]
    BY <2>1 DEF Field
  <2>3. c[p + i] = b[i]
    BY DEF Field
  <2> QED BY <2>1, <2>2, <2>3
<1> QED BY <1>2, <1>3 DEF Field

(* d[i] is the first i of the n pieces p, one after the other.             *)
Pieces(d, p, n) ==
  /\ d \in [0 .. n -> Seq(Byte)] /\ d[0] = << >>
  /\ \A i \in 1 .. n : p[i] \in Seq(Byte) /\ d[i] = d[i - 1] \o p[i]

(* The i-th piece is a part of what they make, behind the ones before it.  *)
PieceAt(d, p, n, i) ==
  /\ Field(d[n], Len(d[i - 1]), p[i])
  /\ Len(d[i]) = Len(d[i - 1]) + Len(p[i])
  /\ Len(d[i]) \in Nat /\ Len(d[i - 1]) \in Nat /\ Len(p[i]) \in Nat
  /\ Len(d[i]) <= Len(d[n]) /\ Len(d[n]) \in Nat

(* Each piece is where the ones before it end.                             *)
LEMMA PiecesAre ==
  ASSUME NEW n \in Nat, NEW d, NEW p, Pieces(d, p, n)
  PROVE  \A i \in 1 .. n : PieceAt(d, p, n, i)
<1> SUFFICES ASSUME NEW i \in 1 .. n PROVE PieceAt(d, p, n, i)
  OBVIOUS
<1>1. i \in 0 .. n /\ i - 1 \in 0 .. n /\ n \in 0 .. n /\ i <= n
  OBVIOUS
<1>2. d[i] \in Seq(Byte) /\ d[i - 1] \in Seq(Byte) /\ p[i] \in Seq(Byte) /\ d[n] \in Seq(Byte)
  BY <1>1 DEF Pieces
<1>3. d[i] = d[i - 1] \o p[i]
  BY DEF Pieces
<1>4. Len(d[i]) = Len(d[i - 1]) + Len(p[i])
  BY <1>2, <1>3, CatBytes
<1>5. Field(d[i], Len(d[i - 1]), p[i])
  BY <1>2, <1>3, FieldBehind
<1>7. Growing(d, 0, n, Byte)
  <2>1. \A k \in 0 .. n : d[k] \in Seq(Byte)
    BY DEF Pieces
  <2>2. \A k \in 0 .. n : k > 0 => \E u \in Seq(Byte) : d[k] = d[k - 1] \o u
    <3>1. ASSUME NEW k \in 0 .. n, k > 0 PROVE \E u \in Seq(Byte) : d[k] = d[k - 1] \o u
      <4>1. k \in 1 .. n
        BY <3>1
      <4>2. p[k] \in Seq(Byte) /\ d[k] = d[k - 1] \o p[k]
        BY <4>1 DEF Pieces
      <4> QED BY <4>2
    <3> QED BY <3>1
  <2> QED BY <2>1, <2>2 DEF Growing
<1>8. Len(d[i]) <= Len(d[n]) /\ \A x \in 1 .. Len(d[i]) : d[n][x] = d[i][x]
  <2>1. 0 \in Nat /\ n \in Nat
    OBVIOUS
  <2> QED BY ONLY <1>1, <1>7, <2>1, GrowingStep
<1>9. /\ Len(d[i]) \in Nat /\ Len(d[i - 1]) \in Nat /\ Len(p[i]) \in Nat /\ Len(d[n]) \in Nat
  BY <1>2
<1>10. Field(d[n], Len(d[i - 1]), p[i])
  BY ONLY <1>5, <1>8, <1>9, FieldOfFront
<1> QED BY <1>4, <1>8, <1>9, <1>10 DEF PieceAt

(* What a table can be created with: the key is an unsigned integer.       *)
Schemas == [key  : [name : Name, type : {"uint", "ulong"}, auto : BOOLEAN],
            vals : Seq([name : Name, type : Range(Types)])]

(* The columns of a schema, the key first, as a header has them.           *)
Cols(schema) ==
  [i \in 1 .. Len(schema.vals) + 1 |->
     IF i = 1 THEN [name |-> schema.key.name, type |-> schema.key.type,
                    option |-> IF schema.key.auto THEN AutoBit ELSE 0]
     ELSE [name |-> schema.vals[i - 1].name, type |-> schema.vals[i - 1].type, option |-> 0]]

(* The bytes of a column, and those in front of the columns.               *)
EntryFor(col) == ColumnEntry(col.name, col.type, col.option)
Preamble(schema) ==
  TABLE_MAGIC_NUMBER \o BigEndian(0, 8) \o NULL_NODE_ID \o BigEndian(1 + Len(schema.vals), 8)

(* The columns of a schema have names, types and options, and entries that *)
(* are bytes.                                                              *)
LEMMA ColsOf ==
  ASSUME NEW schema \in Schemas
  PROVE  /\ Len(schema.vals) \in Nat
         /\ \A i \in 1 .. Len(schema.vals) + 1 :
              /\ Cols(schema)[i] \in [name : Name, type : Range(Types), option : Nat]
              /\ i = 1 => Cols(schema)[i].type \in {"uint", "ulong"}
              /\ EntryFor(Cols(schema)[i]) \in Seq(Byte)
<1>1. schema.vals \in Seq([name : Name, type : Range(Types)]) /\ Len(schema.vals) \in Nat
  BY DEF Schemas
<1>2. {"uint", "ulong"} \subseteq Range(Types)
  <2>1. DOMAIN Types = 1 .. 7 /\ Types[2] = "uint" /\ Types[4] = "ulong" /\ 2 \in 1 .. 7 /\ 4 \in 1 .. 7
    BY DEF Types
  <2> QED BY <2>1 DEF Range
<1>3. ASSUME NEW i \in 1 .. Len(schema.vals) + 1
      PROVE  /\ Cols(schema)[i] \in [name : Name, type : Range(Types), option : Nat]
             /\ i = 1 => Cols(schema)[i].type \in {"uint", "ulong"}
  <2>1. CASE i = 1
    <3>1. schema.key.name \in Name /\ schema.key.type \in {"uint", "ulong"}
      BY DEF Schemas
    <3>2. (IF schema.key.auto THEN AutoBit ELSE 0) \in Nat
      BY DEF AutoBit
    <3>3. Cols(schema)[i] = [name |-> schema.key.name, type |-> schema.key.type,
                             option |-> IF schema.key.auto THEN AutoBit ELSE 0]
      BY <2>1 DEF Cols
    <3> QED BY <1>2, <3>1, <3>2, <3>3
  <2>2. CASE i # 1
    <3>1. i - 1 \in 1 .. Len(schema.vals)
      BY <1>1, <2>2
    <3>2. schema.vals[i - 1] \in [name : Name, type : Range(Types)]
      <4> DEFINE R == [name : Name, type : Range(Types)]
                 s == schema.vals
      <4>1. s \in Seq(R) /\ i - 1 \in 1 .. Len(s)
        BY <1>1, <3>1
      <4> HIDE DEF R, s
      <4>2. s[i - 1] \in R
        BY ONLY <4>1
      <4> QED BY <4>2 DEF R, s
    <3>3. Cols(schema)[i] = [name |-> schema.vals[i - 1].name, type |-> schema.vals[i - 1].type,
                             option |-> 0]
      BY <2>2 DEF Cols
    <3> QED BY <2>2, <3>2, <3>3
  <2> QED BY <2>1, <2>2
<1>4. ASSUME NEW col \in [name : Name, type : Range(Types), option : Nat]
      PROVE  EntryFor(col) \in Seq(Byte)
  <2>1. col.name \in Name /\ col.type \in Range(Types) /\ col.option \in Nat
    OBVIOUS
  <2> QED BY <2>1, EntryOf DEF EntryFor
<1> QED BY <1>1, <1>3, <1>4

(* The columns of a header, one after the other.                           *)
LEMMA ColumnsDef ==
  ASSUME NEW schema \in Schemas
  PROVE  \E d : /\ Pieces(d, [i \in 1 .. Len(schema.vals) + 1 |-> EntryFor(Cols(schema)[i])],
                          Len(schema.vals) + 1)
                /\ HeaderBytes(schema) = Preamble(schema) \o d[Len(schema.vals) + 1]
<1> DEFINE n == Len(schema.vals)
           V == Seq(Byte)
           p == [i \in 1 .. n + 1 |-> EntryFor(Cols(schema)[i])]
           e == ColumnEntry(schema.key.name, schema.key.type, IF schema.key.auto THEN AutoBit ELSE 0)
           w(i) == ColumnEntry(schema.vals[i].name, schema.vals[i].type, 0)
           g == [x \in (0 .. n) \X V |-> x[2] \o p[x[1] + 1]]
           Is(f) == f = [i \in 0 .. n |-> IF i = 0 THEN e ELSE f[i - 1] \o w(i)]
<1>1. n \in Nat /\ 0 <= n /\ 0 \in Nat
  BY ColsOf
<1>2. \A i \in 1 .. n + 1 : p[i] \in V
  BY ColsOf
<1>3. e = p[1] /\ \A i \in 1 .. n : w(i) = p[i + 1]
  <2>1. e = p[1]
    <3>1. 1 \in 1 .. n + 1
      BY <1>1
    <3> QED BY <3>1 DEF Cols, EntryFor
  <2>2. ASSUME NEW i \in 1 .. n PROVE w(i) = p[i + 1]
    <3>1. i + 1 \in 1 .. n + 1 /\ i + 1 # 1 /\ (i + 1) - 1 = i
      BY <1>1
    <3>2. Cols(schema)[i + 1] = [name |-> schema.vals[i].name, type |-> schema.vals[i].type, option |-> 0]
      BY <3>1 DEF Cols
    <3> QED BY <3>1, <3>2 DEF EntryFor
  <2> QED BY <2>1, <2>2
<1>4. e \in V
  <2>1. 1 \in 1 .. n + 1
    BY <1>1
  <2> HIDE DEF e, p
  <2> QED BY <1>2, <1>3, <2>1
<1>5. ASSUME NEW k \in 0 .. n, NEW v \in V
      PROVE  g[<<k, v>>] = v \o p[k + 1] /\ g[<<k, v>>] \in V
  <2>1. k + 1 \in 1 .. n + 1
    BY <1>1
  <2>2. g[<<k, v>>] = v \o p[k + 1]
    <3> HIDE DEF p
    <3> QED OBVIOUS
  <2>3. v \o p[k + 1] \in V
    <3> HIDE DEF p
    <3> QED BY <1>2, <2>1, CatBytes
  <2> QED BY <2>2, <2>3
<1> HIDE DEF p
<1>6. PICK f : Recurs(f, 0, n, V, e, g)
  <2>1. \A k \in 0 .. n, v \in V : g[<<k, v>>] \in V
    BY <1>5
  <2> HIDE DEF g, V, n, e
  <2> QED BY <1>1, <1>4, <2>1, Recursion
<1>7. f \in [0 .. n -> V] /\ f[0] = e /\ \A k \in 0 .. n : k > 0 => f[k] = g[<<k, f[k - 1]>>]
  <2> HIDE DEF g, V, n, e
  <2> QED BY <1>6 DEF Recurs
<1>8. \A k \in 0 .. n : (k > 0 => k - 1 \in 0 .. n /\ k # 0 /\ k \in 1 .. n) /\ (k # 0 => k > 0)
  BY <1>1
<1>9. \A k \in 0 .. n : f[k] = IF k = 0 THEN e ELSE f[k - 1] \o w(k)
  <2> HIDE DEF g, V, n, e, w
  <2>1. ASSUME NEW k \in 0 .. n, k > 0 PROVE f[k] = f[k - 1] \o w(k)
    <3>1. f[k - 1] \in V /\ k # 0 /\ f[k] = g[<<k, f[k - 1]>>] /\ w(k) = p[k + 1]
      BY <2>1, <1>3, <1>7, <1>8
    <3> QED BY <1>5, <3>1
  <2> QED BY <1>7, <1>8, <2>1
<1>10. Is(f)
  <2> HIDE DEF g, V, n, e, w
  <2> QED BY <1>7, <1>9
<1> DEFINE t == CHOOSE h : Is(h)
<1>11. Is(t)
  <2> HIDE DEF Is
  <2> QED BY <1>10
<1>12. HeaderBytes(schema) = Preamble(schema) \o t[n]
  BY DEF HeaderBytes, Preamble
<1> HIDE DEF t
<1>13. \A k \in 0 .. n : t[k] = IF k = 0 THEN e ELSE t[k - 1] \o w(k)
  BY <1>11
<1> HIDE DEF e, w, n, g, V
<1>14. t[0] = p[1] /\ \A k \in 1 .. n : t[k] = t[k - 1] \o p[k + 1]
  <2>1. 0 \in 0 .. n /\ \A k \in 1 .. n : k \in 0 .. n /\ k # 0
    BY <1>1
  <2> QED BY <1>3, <1>13, <2>1
<1>15. \A k \in 0 .. n : t[k] \in V
  <2> DEFINE W == {k \in 0 .. n : t[k] \in V}
  <2>1. 0 \in W
    BY <1>1, <1>3, <1>4, <1>14
  <2>2. ASSUME NEW k \in 0 .. n, k > 0, k - 1 \in W PROVE k \in W
    <3>1. t[k - 1] \in V /\ k \in 1 .. n
      BY <1>8, <2>2
    <3>2. t[k] = g[<<k, t[k - 1]>>] /\ g[<<k, t[k - 1]>>] \in V
      BY <1>5, <1>14, <3>1
    <3> QED BY <3>2
  <2>3. \A k \in 0 .. n : k \in W
    <3> HIDE DEF W
    <3> QED BY <1>1, <2>1, <2>2, StepInduction
  <2> QED BY <2>3
<1> DEFINE d == [i \in 0 .. n + 1 |-> IF i = 0 THEN << >> ELSE t[i - 1]]
<1>16. d[n + 1] = t[n] /\ d[0] = << >>
  BY <1>1
<1>17. d \in [0 .. n + 1 -> Seq(Byte)]
  <2>1. ASSUME NEW i \in 0 .. n + 1 PROVE d[i] \in Seq(Byte)
    <3>1. CASE i = 0
      BY <3>1
    <3>2. CASE i # 0
      <4>1. i - 1 \in 0 .. n
        BY <1>1, <3>2
      <4> QED BY <1>15, <3>2, <4>1 DEF V
    <3> QED BY <3>1, <3>2
  <2> QED BY <2>1
<1>18. ASSUME NEW i \in 1 .. n + 1 PROVE p[i] \in Seq(Byte) /\ d[i] = d[i - 1] \o p[i]
  <2>1. p[i] \in Seq(Byte)
    BY <1>2 DEF V
  <2>2. i \in 0 .. n + 1 /\ i # 0 /\ i - 1 \in 0 .. n + 1
    BY <1>1
  <2>3. d[i] = t[i - 1]
    BY <2>2
  <2>4. CASE i = 1
    <3>1. d[i - 1] = << >> /\ t[i - 1] = p[i]
      BY <1>14, <2>2, <2>4
    <3>2. << >> \o p[i] = p[i]
      BY <2>1
    <3> HIDE DEF d
    <3> QED BY <2>1, <2>3, <3>1, <3>2
  <2>5. CASE i # 1
    <3>1. i - 1 \in 1 .. n /\ (i - 1) + 1 = i /\ i - 1 # 0 /\ (i - 1) - 1 = i - 2
      BY <1>1, <2>5
    <3>2. d[i - 1] = t[(i - 1) - 1]
      BY <2>2, <3>1
    <3>3. t[i - 1] = t[(i - 1) - 1] \o p[(i - 1) + 1]
      BY <1>14, <3>1
    <3> HIDE DEF d
    <3> QED BY <2>1, <2>3, <3>1, <3>2, <3>3
  <2> QED BY <2>4, <2>5
<1>19. Pieces(d, p, n + 1)
  <2> HIDE DEF d
  <2> QED BY <1>16, <1>17, <1>18 DEF Pieces
<1> HIDE DEF d
<1> QED BY <1>12, <1>16, <1>19 DEF n, p

(* What is read of the columns up to the i-th one.                         *)
ReadUpTo(m, cols, at, d, i) == Outcome(m, [j \in 1 .. i |-> cols[j]], at + Len(d[i]))

(* The loop of try_from_src() adds the column it has read.                 *)
LEMMA Adds ==
  ASSUME NEW f, NEW i, NEW x, NEW c, NEW from, NEW to, ReadColumn(f, from) = Got(c, to),
         i = 1 => c.type \in {"uint", "ulong"}
  PROVE  AddColumn(f, i, Got(x, from)) = Got(Append(x, c), to)
<1> DEFINE good == Got(Append(x, c), to)
           tail(col, end) == IF i = 1 /\ col.type \notin {"uint", "ulong"} THEN Failed("error")
                             ELSE Got(Append(x, col), end)
<1>1. /\ Got(x, from).res = "ok" /\ Got(x, from).node = x /\ Got(x, from).at = from
      /\ Got(c, to).res = "ok" /\ Got(c, to).node = c /\ Got(c, to).at = to
  BY DEF Got
<1>2. tail(c, to) = good
  OBVIOUS
<1>3. Then(Got(c, to), tail) = tail(c, to)
  <2> HIDE DEF tail
  <2> QED BY ONLY <1>1 DEF Then
<1>4. AddColumn(f, i, Got(x, from)) = Then(ReadColumn(f, from), tail)
  BY ONLY <1>1, Zenon DEF AddColumn, Then
<1> QED BY <1>2, <1>3, <1>4

(* The n columns of a schema, with their entries p, are in a file behind   *)
(* a place, of which m bytes are left.                                     *)
Columned(schema, h, m, at, cols, n, d, p) ==
  /\ schema \in Schemas /\ cols = Cols(schema) /\ n = Len(schema.vals) + 1
  /\ h \in Seq(Byte) /\ m \in 0 .. Len(h) /\ at \in Nat /\ at <= m
  /\ p = [i \in 1 .. n |-> EntryFor(cols[i])] /\ Pieces(d, p, n) /\ Field(h, at, d[n])

(* One turn of the loop: the column it reads is the next one of the        *)
(* schema, or the file ends before.                                        *)
LEMMA ColumnStep ==
  ASSUME NEW schema, NEW h, NEW m, NEW at, NEW cols, NEW n, NEW d, NEW p,
         Columned(schema, h, m, at, cols, n, d, p), NEW i \in 1 .. n
  PROVE  AddColumn(SubSeq(h, 1, m), i, ReadUpTo(m, cols, at, d, i - 1)) = ReadUpTo(m, cols, at, d, i)
<1> DEFINE f == SubSeq(h, 1, m)
           c == cols[i]
           from == at + Len(d[i - 1])
           to == at + Len(d[i])
           x == [j \in 1 .. i - 1 |-> cols[j]]
           y == [j \in 1 .. i |-> cols[j]]
           C == [name : Name, type : Range(Types), option : Nat]
<1>0. /\ schema \in Schemas /\ cols = Cols(schema) /\ n = Len(schema.vals) + 1
      /\ h \in Seq(Byte) /\ m \in 0 .. Len(h) /\ at \in Nat
      /\ p = [k \in 1 .. n |-> EntryFor(cols[k])] /\ Pieces(d, p, n) /\ Field(h, at, d[n])
  BY DEF Columned
<1>1. n \in Nat /\ \A j \in 1 .. n : cols[j] \in C
  BY <1>0, ColsOf
<1>2. c \in C /\ (i = 1 => c.type \in {"uint", "ulong"}) /\ p[i] \in Seq(Byte) /\ p[i] = EntryFor(c)
  BY <1>0, ColsOf
<1>3. /\ Field(d[n], Len(d[i - 1]), p[i]) /\ Len(d[i]) = Len(d[i - 1]) + Len(p[i])
      /\ Len(d[i]) \in Nat /\ Len(d[i - 1]) \in Nat /\ Len(p[i]) \in Nat
      /\ Len(d[n]) \in Nat
  <2>1. n \in Nat
    BY <1>1
  <2>2. \A j \in 1 .. n : PieceAt(d, p, n, j)
    BY ONLY <2>1, PiecesAre, <1>0
  <2>3. PieceAt(d, p, n, i)
    BY ONLY <2>2, i \in 1 .. n
  <2> QED BY ONLY <2>3 DEF PieceAt
<1>4. Field(h, from, p[i]) /\ from \in Nat
  <2>1. Len(h) \in Nat
    BY <1>0
  <2> QED BY <1>0, <1>3, <2>1, FieldWithin
<1>5. from + Len(p[i]) = to /\ from <= to /\ to \in Nat
  <2> DEFINE k == Len(d[i - 1])
             l == Len(p[i])
             o == Len(d[i])
  <2>1. k \in Nat /\ l \in Nat /\ o = k + l
    BY ONLY <1>3
  <2> HIDE DEF k, l, o
  <2>2. at + k + l = at + o /\ at + k <= at + o /\ at + o \in Nat
    BY ONLY <1>0, <2>1
  <2> QED BY ONLY <2>2 DEF k, l, o
<1>6. ReadColumn(f, from) = Outcome(m, c, to)
  <2> HIDE DEF from, to
  <2>1. c.name \in Name /\ c.type \in Range(Types) /\ c.option \in Nat
    BY <1>2
  <2>2. c = [name |-> c.name, type |-> c.type, option |-> c.option]
    BY <1>2
  <2>3. p[i] = ColumnEntry(c.name, c.type, c.option)
    BY <1>2 DEF EntryFor
  <2> DEFINE nm == c.name
             ty == c.type
             op == c.option
  <2> HIDE DEF nm, ty, op
  <2>4. /\ nm \in Name /\ ty \in Range(Types) /\ op \in Nat
        /\ Field(h, from, ColumnEntry(nm, ty, op))
        /\ from + Len(ColumnEntry(nm, ty, op)) = to /\ from \in Nat
    BY <1>4, <1>5, <2>1, <2>3 DEF nm, ty, op
  <2>5. ReadColumn(SubSeq(h, 1, m), from)
          = Outcome(m, [name |-> nm, type |-> ty, option |-> op], from + Len(ColumnEntry(nm, ty, op)))
    BY ONLY <1>0, <2>4, ReadsColumn
  <2> QED BY ONLY <2>2, <2>4, <2>5 DEF nm, ty, op, f
<1>7. Append(x, c) = y
  <2>1. \A j \in 1 .. i : j \in 1 .. n
    BY <1>1
  <2>2. x \in Seq(C) /\ Len(x) = i - 1 /\ \A j \in 1 .. i - 1 : x[j] = cols[j]
    <3>1. \A j \in 1 .. i - 1 : cols[j] \in C
      BY <1>1
    <3>2. i - 1 \in Nat
      BY <1>1
    <3> HIDE DEF C
    <3> QED BY <3>1, <3>2
  <2>3. y \in Seq(C) /\ Len(y) = i /\ \A j \in 1 .. i : y[j] = cols[j]
    <3>1. \A j \in 1 .. i : cols[j] \in C
      BY <1>1
    <3>2. i \in Nat
      BY <1>1
    <3> HIDE DEF C
    <3> QED BY <3>1, <3>2
  <2>4. i \in Nat /\ i >= 1
    BY <1>1
  <2> HIDE DEF x, y, C
  <2> DEFINE z == Append(x, c)
  <2>5. z \in Seq(C) /\ Len(z) = i
    BY <1>2, <2>2, <2>4
  <2>6. \A j \in 1 .. i : z[j] = cols[j]
    <3>1. \A j \in 1 .. i - 1 : z[j] = x[j]
      BY <1>2, <2>2, <2>4
    <3>2. z[i] = c
      BY <1>2, <2>2, <2>4
    <3> HIDE DEF z, c
    <3> QED BY <2>2, <2>4, <3>1, <3>2 DEF c
  <2> HIDE DEF z
  <2>7. \A j \in 1 .. i : z[j] = y[j]
    BY <2>3, <2>6
  <2>8. z = y
    BY ONLY <2>3, <2>4, <2>5, <2>7
  <2> QED BY <2>8 DEF z
<1> DEFINE r == ReadUpTo(m, cols, at, d, i - 1)
<1>8. r = Outcome(m, x, from) /\ ReadUpTo(m, cols, at, d, i) = Outcome(m, y, to)
  BY DEF ReadUpTo
<1>9. m \in Nat
  BY <1>0
<1> HIDE DEF r, x, y, f, from, to, c
<1>10. CASE to <= m
  <2>1. r = Got(x, from) /\ ReadColumn(f, from) = Got(c, to)
    BY <1>5, <1>4, <1>6, <1>8, <1>9, <1>10 DEF Outcome
  <2>2. AddColumn(f, i, r) = Got(Append(x, c), to)
    <3>1. i = 1 => c.type \in {"uint", "ulong"}
      BY <1>2
    <3> QED BY ONLY <2>1, <3>1, Adds
  <2> QED BY <1>7, <1>8, <1>10, <2>2 DEF Outcome, f, r
<1>11. CASE ~(to <= m)
  <2>1. AddColumn(f, i, r) = Failed("error")
    <3>1. CASE from <= m
      <4>1. r = Got(x, from) /\ ReadColumn(f, from) = Failed("error")
        BY <1>6, <1>8, <1>11, <3>1 DEF Outcome
      <4> QED BY <4>1 DEF AddColumn, Then, Got, Failed
    <3>2. CASE ~(from <= m)
      <4>1. r = Failed("error")
        BY <1>8, <3>2 DEF Outcome
      <4> QED BY <4>1 DEF AddColumn, Then, Failed
    <3> QED BY <3>1, <3>2
  <2> QED BY <1>8, <1>11, <2>1 DEF Outcome, f, r
<1> QED BY <1>10, <1>11

(* The loop reads all columns, or fails where the file is cut off.         *)
LEMMA ReadsColumns ==
  ASSUME NEW schema, NEW h, NEW m, NEW at, NEW cols, NEW n, NEW d, NEW p,
         Columned(schema, h, m, at, cols, n, d, p)
  PROVE  ReadColumns(SubSeq(h, 1, m), at, n) = Outcome(m, cols, at + Len(d[n]))
<1> DEFINE f == SubSeq(h, 1, m)
           F == [i \in 0 .. n |-> ReadUpTo(m, cols, at, d, i)]
           e == Got(<< >>, at)
           w(i, r) == AddColumn(f, i, r)
           Is(g) == g = [i \in 0 .. n |-> IF i = 0 THEN e ELSE w(i, g[i - 1])]
<1>0. /\ schema \in Schemas /\ cols = Cols(schema) /\ n = Len(schema.vals) + 1
      /\ h \in Seq(Byte) /\ m \in 0 .. Len(h) /\ at \in Nat /\ at <= m
      /\ p = [i \in 1 .. n |-> EntryFor(cols[i])] /\ Pieces(d, p, n) /\ Field(h, at, d[n])
  BY DEF Columned
<1>1. n \in Nat /\ n >= 1
  BY <1>0, ColsOf
<1>2. ASSUME NEW i \in 1 .. n
      PROVE  w(i, ReadUpTo(m, cols, at, d, i - 1)) = ReadUpTo(m, cols, at, d, i)
  BY ColumnStep
<1>3. ReadUpTo(m, cols, at, d, 0) = e
  <2>1. [j \in 1 .. 0 |-> cols[j]] = << >>
    OBVIOUS
  <2>2. d[0] = << >> /\ Len(<< >>) = 0 /\ at + 0 = at
    BY <1>0 DEF Pieces
  <2> QED BY <1>0, <2>1, <2>2 DEF ReadUpTo, Outcome
<1> HIDE DEF e, w
<1>4. \A i \in 0 .. n : F[i] = IF i = 0 THEN e ELSE w(i, F[i - 1])
  <2>1. ASSUME NEW i \in 1 .. n PROVE F[i] = w(i, F[i - 1])
    <3>1. i \in 0 .. n /\ i - 1 \in 0 .. n
      BY <1>1
    <3> QED BY <1>2, <3>1
  <2>2. F[0] = e
    BY <1>1, <1>3
  <2>3. \A i \in 0 .. n : i # 0 => i \in 1 .. n
    BY <1>1
  <2> HIDE DEF F
  <2> QED BY <2>1, <2>2, <2>3
<1>5. Is(F)
  <2>1. F = [i \in 0 .. n |-> F[i]]
    OBVIOUS
  <2> HIDE DEF F
  <2> QED BY <1>4, <2>1
<1> DEFINE t == CHOOSE g : Is(g)
<1>6. Is(t)
  <2> HIDE DEF Is
  <2> QED BY <1>5
<1>7. ReadColumns(f, at, n) = t[n]
  BY DEF ReadColumns, w, e
<1> HIDE DEF t, F
<1>8. \A i \in 0 .. n : t[i] = IF i = 0 THEN e ELSE w(i, t[i - 1])
  BY <1>6
<1> DEFINE W == {i \in 0 .. n : t[i] = F[i]}
<1>9. 0 \in W
  <2>1. 0 \in 0 .. n
    BY <1>1
  <2>2. t[0] = e /\ F[0] = e
    BY ONLY <1>4, <1>8, <2>1
  <2> QED BY <2>1, <2>2
<1>10. ASSUME NEW i \in 0 .. n, i > 0, i - 1 \in W PROVE i \in W
  <2>1. i # 0 /\ t[i - 1] = F[i - 1]
    BY <1>10
  <2> QED BY <1>4, <1>8, <2>1
<1>11. \A i \in 0 .. n : i \in W
  <2> HIDE DEF W
  <2> QED BY <1>1, <1>9, <1>10, StepInduction
<1>12. t[n] = F[n]
  BY <1>1, <1>11
<1>13. F[n] = ReadUpTo(m, cols, at, d, n)
  BY <1>1 DEF F
<1>14. [j \in 1 .. n |-> cols[j]] = cols
  BY <1>0 DEF Cols
<1> QED BY <1>7, <1>12, <1>13, <1>14 DEF ReadUpTo, f

-----------------------------------------------------------------------------
(* The header.                                                             *)

(* read_exact() of bytes the file has, whatever they are.                  *)
LEMMA ReadsSome ==
  ASSUME NEW h \in Seq(Byte), NEW m \in 0 .. Len(h), NEW at \in Nat, NEW k \in Nat
  PROVE  \E b : ReadExact(SubSeq(h, 1, m), at, k) = Outcome(m, b, at + k)
<1> DEFINE f == SubSeq(h, 1, m)
           b == SubSeq(f, at + 1, at + k)
<1>1. Len(f) = m /\ m \in Nat
  OBVIOUS
<1> HIDE DEF f
<1>2. (at + k > Len(f)) <=> ~(at + k <= m)
  BY <1>1
<1>3. ReadExact(f, at, k) = Outcome(m, b, at + k)
  BY <1>2 DEF ReadExact, Outcome
<1> QED BY <1>3 DEF f

(* The schema try_from_src() makes of the columns.                         *)
Opened(cols, count) ==
  [key |-> [name |-> cols[1].name, type |-> cols[1].type,
            auto |-> cols[1].option \div AutoBit % 2 = 1],
   vals |-> [i \in 1 .. count - 1 |->
              [name |-> cols[i + 1].name, type |-> cols[i + 1].type]]]

(* A success and a failure are told apart.                                 *)
LEMMA Goes ==
  ASSUME NEW node, NEW at
  PROVE  /\ Got(node, at).res = "ok" /\ Got(node, at).node = node /\ Got(node, at).at = at
         /\ Failed("error").res # "ok"
BY DEF Got, Failed

(* The reader of a header, from its columns on, and from their number on.  *)
AfterColumns(count, cols, end) == Got(Opened(cols, count), end)
AfterCount(f, count, c) ==
  Then(ReadColumns(f, c, count), LAMBDA cols, end : AfterColumns(count, cols, end))
AfterPages(f, b) == Then(ReadNumber(f, b, 8), LAMBDA count, c : AfterCount(f, count, c))
AfterMagic(f, magic, a) ==
  IF magic # TABLE_MAGIC_NUMBER THEN Failed("error")
  ELSE Then(ReadExact(f, a, 12), LAMBDA pages, b : AfterPages(f, b))

(* try_from_src() is its four parts, one after the other.                  *)
LEMMA Steps ==
  ASSUME NEW f
  PROVE  TryFromSrc(f) = Then(ReadExact(f, 0, 8), LAMBDA magic, a : AfterMagic(f, magic, a))
BY Zenon DEF TryFromSrc, AfterMagic, AfterPages, AfterCount, AfterColumns, Opened

(* It opens the file when every part was read.                             *)
LEMMA Opens ==
  ASSUME NEW f, NEW b, NEW count, NEW cols, NEW end,
         ReadExact(f, 0, 8) = Got(TABLE_MAGIC_NUMBER, 8), ReadExact(f, 8, 12) = Got(b, 20),
         ReadNumber(f, 20, 8) = Got(count, 28), ReadColumns(f, 28, count) = Got(cols, end)
  PROVE  TryFromSrc(f) = Got(Opened(cols, count), end)
<1>1. /\ ReadExact(f, 0, 8).res = "ok" /\ ReadExact(f, 0, 8).node = TABLE_MAGIC_NUMBER /\ ReadExact(f, 0, 8).at = 8
      /\ ReadExact(f, 8, 12).res = "ok" /\ ReadExact(f, 8, 12).node = b /\ ReadExact(f, 8, 12).at = 20
      /\ ReadNumber(f, 20, 8).res = "ok" /\ ReadNumber(f, 20, 8).node = count /\ ReadNumber(f, 20, 8).at = 28
      /\ ReadColumns(f, 28, count).res = "ok" /\ ReadColumns(f, 28, count).node = cols /\ ReadColumns(f, 28, count).at = end
  BY Goes
<1>2. AfterCount(f, count, 28) = Got(Opened(cols, count), end)
  BY ONLY <1>1, Zenon DEF AfterCount, AfterColumns, Then
<1>3. AfterPages(f, 20) = AfterCount(f, count, 28)
  BY ONLY <1>1, Zenon DEF AfterPages, Then
<1>4. AfterMagic(f, TABLE_MAGIC_NUMBER, 8) = AfterPages(f, 20)
  BY ONLY <1>1, Zenon DEF AfterMagic, Then
<1>5. TryFromSrc(f) = AfterMagic(f, TABLE_MAGIC_NUMBER, 8)
  BY ONLY <1>1, Steps, Zenon DEF Then
<1> QED BY <1>2, <1>3, <1>4, <1>5

(* It refuses the file when one part was not.                              *)
LEMMA Refuses ==
  ASSUME NEW f, NEW b, NEW count,
         \/ ReadExact(f, 0, 8) = Failed("error")
         \/ ReadExact(f, 0, 8) = Got(TABLE_MAGIC_NUMBER, 8) /\ ReadExact(f, 8, 12) = Failed("error")
         \/ /\ ReadExact(f, 0, 8) = Got(TABLE_MAGIC_NUMBER, 8) /\ ReadExact(f, 8, 12) = Got(b, 20)
            /\ ReadNumber(f, 20, 8) = Failed("error")
         \/ /\ ReadExact(f, 0, 8) = Got(TABLE_MAGIC_NUMBER, 8) /\ ReadExact(f, 8, 12) = Got(b, 20)
            /\ ReadNumber(f, 20, 8) = Got(count, 28) /\ ReadColumns(f, 28, count) = Failed("error")
  PROVE  TryFromSrc(f) = Failed("error")
<1>1. CASE ReadExact(f, 0, 8) = Failed("error")
  BY <1>1, Goes, Steps, Zenon DEF Then
<1>2. CASE ReadExact(f, 0, 8) = Got(TABLE_MAGIC_NUMBER, 8)
  <2>1. TryFromSrc(f) = AfterMagic(f, TABLE_MAGIC_NUMBER, 8)
    <3>1. ReadExact(f, 0, 8).res = "ok" /\ ReadExact(f, 0, 8).node = TABLE_MAGIC_NUMBER /\ ReadExact(f, 0, 8).at = 8
      BY <1>2, Goes
    <3> QED BY ONLY <3>1, Steps, Zenon DEF Then
  <2>2. CASE ReadExact(f, 8, 12) = Failed("error")
    <3>1. AfterMagic(f, TABLE_MAGIC_NUMBER, 8) = Failed("error")
      BY <2>2, Goes, Zenon DEF AfterMagic, Then
    <3> QED BY <2>1, <3>1
  <2>3. CASE ReadExact(f, 8, 12) = Got(b, 20)
    <3>1. AfterMagic(f, TABLE_MAGIC_NUMBER, 8) = AfterPages(f, 20)
      <4>1. ReadExact(f, 8, 12).res = "ok" /\ ReadExact(f, 8, 12).node = b /\ ReadExact(f, 8, 12).at = 20
        BY <2>3, Goes
      <4> QED BY ONLY <4>1, Zenon DEF AfterMagic, Then
    <3>2. CASE ReadNumber(f, 20, 8) = Failed("error")
      <4>1. AfterPages(f, 20) = Failed("error")
        BY <3>2, Goes, Zenon DEF AfterPages, Then
      <4> QED BY <2>1, <3>1, <4>1
    <3>3. CASE ReadNumber(f, 20, 8) = Got(count, 28) /\ ReadColumns(f, 28, count) = Failed("error")
      <4>1. AfterPages(f, 20) = AfterCount(f, count, 28)
        <5>1. ReadNumber(f, 20, 8).res = "ok" /\ ReadNumber(f, 20, 8).node = count /\ ReadNumber(f, 20, 8).at = 28
          BY <3>3, Goes
        <5> QED BY ONLY <5>1, Zenon DEF AfterPages, Then
      <4>2. AfterCount(f, count, 28) = Failed("error")
        BY <3>3, Goes, Zenon DEF AfterCount, Then
      <4> QED BY <2>1, <3>1, <4>1, <4>2
    <3>4. Got(b, 20) # Failed("error") /\ Got(TABLE_MAGIC_NUMBER, 8) # Failed("error")
      BY Goes
    <3> QED BY ONLY <1>2, <2>3, <3>2, <3>3, <3>4,
         \/ ReadExact(f, 0, 8) = Failed("error")
         \/ ReadExact(f, 0, 8) = Got(TABLE_MAGIC_NUMBER, 8) /\ ReadExact(f, 8, 12) = Failed("error")
         \/ /\ ReadExact(f, 0, 8) = Got(TABLE_MAGIC_NUMBER, 8) /\ ReadExact(f, 8, 12) = Got(b, 20)
            /\ ReadNumber(f, 20, 8) = Failed("error")
         \/ /\ ReadExact(f, 0, 8) = Got(TABLE_MAGIC_NUMBER, 8) /\ ReadExact(f, 8, 12) = Got(b, 20)
            /\ ReadNumber(f, 20, 8) = Got(count, 28) /\ ReadColumns(f, 28, count) = Failed("error")
  <2>4. Got(TABLE_MAGIC_NUMBER, 8) # Failed("error")
    BY Goes
  <2> QED BY <1>2, <2>2, <2>3, <2>4
<1> QED BY <1>1, <1>2

(* What is opened is what was written.                                     *)
LEMMA OpenedIs ==
  ASSUME NEW schema \in Schemas
  PROVE  Opened(Cols(schema), 1 + Len(schema.vals)) = schema
<1> DEFINE n == Len(schema.vals)
           cols == Cols(schema)
           o == Opened(cols, 1 + n)
           R == [name : Name, type : Range(Types)]
<1>1. /\ schema.vals \in Seq(R) /\ n \in Nat
      /\ schema.key \in [name : Name, type : {"uint", "ulong"}, auto : BOOLEAN]
      /\ schema = [key |-> schema.key, vals |-> schema.vals]
  BY DEF Schemas
<1>2. cols[1] = [name |-> schema.key.name, type |-> schema.key.type,
                 option |-> IF schema.key.auto THEN AutoBit ELSE 0]
  <2>1. 1 \in 1 .. n + 1
    BY <1>1
  <2> QED BY <2>1 DEF Cols
<1>3. \A i \in 1 .. n : /\ cols[i + 1].name = schema.vals[i].name
                        /\ cols[i + 1].type = schema.vals[i].type
  <2> TAKE i \in 1 .. n
  <2>1. i + 1 \in 1 .. n + 1 /\ i + 1 # 1 /\ (i + 1) - 1 = i
    BY <1>1
  <2> QED BY <2>1 DEF Cols
<1>4. o.key = schema.key
  <2>1. (cols[1].option \div AutoBit % 2 = 1) = schema.key.auto
    <3>1. CASE schema.key.auto = TRUE
      <4>1. cols[1].option = 128
        BY <1>2, <3>1 DEF AutoBit
      <4>2. ((128 \div 128) % 2 = 1) = TRUE
        OBVIOUS
      <4> QED BY <3>1, <4>1, <4>2 DEF AutoBit
    <3>2. CASE schema.key.auto = FALSE
      <4>1. cols[1].option = 0
        BY <1>2, <3>2
      <4>2. ((0 \div 128) % 2 = 1) = FALSE
        OBVIOUS
      <4> QED BY <3>2, <4>1, <4>2 DEF AutoBit
    <3> QED BY <1>1, <3>1, <3>2
  <2>2. cols[1].name = schema.key.name /\ cols[1].type = schema.key.type
    BY <1>2
  <2>3. o.key = [name |-> cols[1].name, type |-> cols[1].type,
                 auto |-> cols[1].option \div AutoBit % 2 = 1]
    BY DEF Opened
  <2> HIDE DEF o, cols
  <2> QED BY <1>1, <2>1, <2>2, <2>3
<1>5. o.vals = schema.vals
  <2>1. (1 + n) - 1 = n
    BY <1>1
  <2>2. o.vals = [i \in 1 .. (1 + n) - 1 |-> [name |-> cols[i + 1].name, type |-> cols[i + 1].type]]
    BY DEF Opened
  <2> DEFINE s == schema.vals
  <2>3. s \in Seq(R) /\ n = Len(s)
    BY <1>1
  <2>4. \A i \in 1 .. n : [name |-> cols[i + 1].name, type |-> cols[i + 1].type] = s[i]
    <3> TAKE i \in 1 .. n
    <3>1. s[i] \in R
      <4> HIDE DEF s, R, n
      <4> QED BY ONLY <2>3, i \in 1 .. n
    <3> HIDE DEF cols
    <3>2. s[i] = [name |-> s[i].name, type |-> s[i].type]
      BY <3>1
    <3> QED BY <1>3, <3>2
  <2> HIDE DEF o, cols, s, n, R
  <2>5. o.vals = [i \in 1 .. n |-> s[i]]
    BY <2>1, <2>2, <2>4
  <2>6. s = [i \in 1 .. n |-> s[i]]
    BY <2>3
  <2> QED BY <2>5, <2>6 DEF s
<1>6. o = [key |-> o.key, vals |-> o.vals]
  BY DEF Opened
<1> HIDE DEF o
<1>7. o = schema
  BY <1>1, <1>4, <1>5, <1>6
<1> QED BY <1>7 DEF o

(* The parts of a header in front of its columns, and where they are.      *)
LEMMA PreambleIs ==
  ASSUME NEW schema \in Schemas
  PROVE  /\ TABLE_MAGIC_NUMBER \in Seq(Byte) /\ Len(TABLE_MAGIC_NUMBER) = 8
         /\ BigEndian(0, 8) \in Seq(Byte) /\ Len(BigEndian(0, 8)) = 8
         /\ NULL_NODE_ID \in Seq(Byte) /\ Len(NULL_NODE_ID) = 4
         /\ BigEndian(1 + Len(schema.vals), 8) \in Seq(Byte) /\ Len(BigEndian(1 + Len(schema.vals), 8)) = 8
         /\ Preamble(schema) \in Seq(Byte) /\ Len(Preamble(schema)) = 28
         /\ \A h \in Seq(Byte) : Field(h, 0, Preamble(schema)) =>
              Field(h, 0, TABLE_MAGIC_NUMBER) /\ Field(h, 20, BigEndian(1 + Len(schema.vals), 8))
<1> DEFINE M == TABLE_MAGIC_NUMBER
           Z == BigEndian(0, 8)
           N == NULL_NODE_ID
           C == BigEndian(1 + Len(schema.vals), 8)
           P == Preamble(schema)
<1>1. M \in Seq(Byte) /\ Len(M) = 8
  <2>1. M \in Seq(Nat) /\ Len(M) = 8
    BY DEF TABLE_MAGIC_NUMBER
  <2> HIDE DEF M
  <2> QED BY <2>1 DEF Byte
<1>2. Z \in Seq(Byte) /\ Len(Z) = 8
  BY NumberBytes
<1>3. N \in Seq(Byte) /\ Len(N) = 4
  <2>1. N \in Seq(Nat) /\ Len(N) = 4
    <3>1. Base - 1 \in Nat
      BY BaseFacts
    <3> QED BY <3>1 DEF NULL_NODE_ID
  <2> HIDE DEF N
  <2> QED BY <2>1 DEF Byte
<1>4. C \in Seq(Byte) /\ Len(C) = 8
  <2>1. 1 + Len(schema.vals) \in Nat
    BY ColsOf
  <2> QED BY <2>1, NumberBytes
<1>5. P = ((M \o Z) \o N) \o C
  BY DEF Preamble
<1> HIDE DEF M, Z, N, C, P
<1> DEFINE A == M \o Z
<1>6. A \in Seq(Byte) /\ Len(A) = 16
  <2>1. A \in Seq(Byte) /\ Len(A) = Len(M) + Len(Z)
    BY ONLY <1>1, <1>2, CatBytes
  <2> HIDE DEF A
  <2> QED BY ONLY <1>1, <1>2, <2>1
<1> DEFINE B == A \o N
<1>7. P = B \o C
  BY <1>5
<1>8. \A h \in Seq(Byte) : Field(h, 0, A) => Field(h, 0, M)
  BY ONLY <1>1, <1>2, FieldPieces, 0 \in Nat DEF A
<1> HIDE DEF A
<1>9. B \in Seq(Byte) /\ Len(B) = 20
  <2>1. B \in Seq(Byte) /\ Len(B) = Len(A) + Len(N)
    BY ONLY <1>3, <1>6, CatBytes
  <2> HIDE DEF B
  <2> QED BY ONLY <1>3, <1>6, <2>1
<1>10. \A h \in Seq(Byte) : Field(h, 0, B) => Field(h, 0, A)
  BY ONLY <1>3, <1>6, FieldPieces, 0 \in Nat DEF B
<1> HIDE DEF B
<1>11. P \in Seq(Byte) /\ Len(P) = 28
  <2>1. B \o C \in Seq(Byte) /\ Len(B \o C) = Len(B) + Len(C)
    BY ONLY <1>4, <1>9, CatBytes
  <2>2. P \in Seq(Byte) /\ Len(P) = Len(B) + Len(C)
    BY ONLY <1>7, <2>1
  <2> QED BY ONLY <1>4, <1>9, <2>2
<1>12. ASSUME NEW h \in Seq(Byte), Field(h, 0, P) PROVE Field(h, 0, M) /\ Field(h, 20, C)
  <2>1. Field(h, 0, B \o C)
    BY <1>7, <1>12
  <2>2. Field(h, 0, B) /\ Field(h, 0 + Len(B), C)
    BY ONLY <1>4, <1>9, <2>1, FieldPieces, 0 \in Nat, h \in Seq(Byte)
  <2>3. 0 + Len(B) = 20
    BY ONLY <1>9
  <2> QED BY ONLY <1>8, <1>10, <2>2, <2>3, h \in Seq(Byte)
<1> QED BY <1>1, <1>2, <1>3, <1>4, <1>11, <1>12 DEF M, Z, N, C, P

(* The header of a table reads back as the schema it was written from, and *)
(* one that is cut off at any byte is refused (write_header, try_from_src).*)
THEOREM HeadersReadBack ==
  ASSUME NEW schema \in Schemas, 1 + Len(schema.vals) < Power(8),
         NEW m \in 0 .. WriteHeader(schema).at
  PROVE  /\ WriteHeader(schema).res = "ok"
         /\ TryFromSrc(SubSeq(WriteHeader(schema).node, 1, m)) =
              IF m = WriteHeader(schema).at THEN Got(schema, m) ELSE Failed("error")
<1> DEFINE h == HeaderBytes(schema)
           n == Len(schema.vals) + 1
           cols == Cols(schema)
           p == [i \in 1 .. n |-> EntryFor(cols[i])]
           P == Preamble(schema)
           f == SubSeq(h, 1, m)
           C == BigEndian(1 + Len(schema.vals), 8)
           M == TABLE_MAGIC_NUMBER
<1>1. WriteHeader(schema) = Got(h, Len(h))
  <2>1. schema.key.name \in Name
    BY DEF Schemas
  <2>2. \A i \in DOMAIN schema.vals : schema.vals[i].name \in Name
    <3>1. schema.vals \in Seq([name : Name, type : Range(Types)])
      BY DEF Schemas
    <3> DEFINE s == schema.vals
               R == [name : Name, type : Range(Types)]
    <3>2. \A r \in R : r.name \in Name
      OBVIOUS
    <3>3. s \in Seq(R)
      BY <3>1
    <3> HIDE DEF s, R
    <3>4. \A i \in DOMAIN s : s[i] \in R
      BY ONLY <3>3
    <3> QED BY <3>2, <3>4 DEF s
  <2>3. NameFits(schema.key.name) /\ \A i \in DOMAIN schema.vals : NameFits(schema.vals[i].name)
    BY <2>1, <2>2 DEF Name
  <2> QED BY <2>3 DEF WriteHeader
<1>2. WriteHeader(schema).res = "ok" /\ WriteHeader(schema).node = h /\ WriteHeader(schema).at = Len(h)
  BY <1>1 DEF Got
<1>3. PICK d : Pieces(d, p, n) /\ h = P \o d[n]
  BY ColumnsDef
<1>4. n \in Nat /\ n = 1 + Len(schema.vals) /\ n \in 0 .. n
  BY ColsOf
<1>5. d[n] \in Seq(Byte)
  BY <1>3, <1>4 DEF Pieces
<1>6. P \in Seq(Byte) /\ Len(P) = 28
  BY PreambleIs
<1> HIDE DEF h, P
<1>7. h \in Seq(Byte) /\ Len(h) = 28 + Len(d[n]) /\ Field(h, 0, P) /\ Field(h, 28, d[n])
  <2>1. P \o d[n] \in Seq(Byte) /\ Len(P \o d[n]) = Len(P) + Len(d[n])
    BY ONLY <1>5, <1>6, CatBytes
  <2>2. Field(P \o d[n], Len(P), d[n]) /\ Field(P \o d[n], 0, P)
    BY ONLY <1>5, <1>6, FieldBehind
  <2> QED BY ONLY <1>3, <1>6, <2>1, <2>2
<1>8. m \in 0 .. Len(h) /\ m \in Nat /\ Len(d[n]) \in Nat
  BY <1>2, <1>5, <1>7
<1>9. /\ M \in Seq(Byte) /\ Len(M) = 8 /\ C \in Seq(Byte) /\ Len(C) = 8
      /\ Field(h, 0, M) /\ Field(h, 20, C)
  BY <1>7, PreambleIs DEF P
<1>10. Number(C) = n
  BY <1>4, NumberBack
<1> HIDE DEF M, C
<1>11. ReadExact(f, 0, 8) = Outcome(m, M, 8)
  <2>1. ReadExact(SubSeq(h, 1, m), 0, Len(M)) = Outcome(m, M, 0 + Len(M))
    BY ONLY <1>7, <1>8, <1>9, ReadsExactly, 0 \in Nat
  <2>2. 0 + 8 = 8
    OBVIOUS
  <2> QED BY ONLY <1>9, <2>1, <2>2
<1>12. PICK b : ReadExact(f, 8, 12) = Outcome(m, b, 20)
  <2>1. 8 \in Nat /\ 12 \in Nat /\ 8 + 12 = 20
    OBVIOUS
  <2>2. \E x : ReadExact(SubSeq(h, 1, m), 8, 12) = Outcome(m, x, 8 + 12)
    BY ONLY <1>7, <1>8, <2>1, ReadsSome
  <2> QED BY ONLY <2>1, <2>2
<1>13. ReadNumber(f, 20, 8) = Outcome(m, n, 28)
  <2>1. 20 \in Nat /\ 20 + 8 = 28
    OBVIOUS
  <2> DEFINE at == 20
  <2>2. /\ Number(C) = n /\ C \in Seq(Byte) /\ Field(h, at, C) /\ at \in Nat
        /\ h \in Seq(Byte) /\ m \in 0 .. Len(h)
    BY <1>7, <1>8, <1>9, <1>10
  <2> HIDE DEF n, at
  <2>3. ReadNumber(SubSeq(h, 1, m), at, Len(C)) = Outcome(m, n, at + Len(C))
    BY ONLY <2>2, ReadsNumber
  <2> QED BY ONLY <1>9, <2>1, <2>3 DEF at
<1>14. 28 <= m => ReadColumns(f, 28, n) = Outcome(m, cols, 28 + Len(d[n]))
  <2> SUFFICES ASSUME 28 <= m PROVE ReadColumns(f, 28, n) = Outcome(m, cols, 28 + Len(d[n]))
    OBVIOUS
  <2> DEFINE at == 28
  <2>1. Columned(schema, h, m, at, cols, n, d, p)
    BY <1>3, <1>7, <1>8 DEF Columned
  <2> HIDE DEF cols, n, p, at
  <2>2. ReadColumns(SubSeq(h, 1, m), at, n) = Outcome(m, cols, at + Len(d[n]))
    BY ONLY <2>1, ReadsColumns
  <2> QED BY ONLY <2>2 DEF at
<1>15. Opened(cols, n) = schema
  BY <1>4, OpenedIs
<1> DEFINE l == Len(h)
<1>16. l \in Nat /\ l >= 28 /\ m <= l /\ l = 28 + Len(d[n])
  BY <1>7, <1>8
<1> HIDE DEF l, f, n, cols
<1>17. CASE m = l
  <2>1. 8 <= m /\ 20 <= m /\ 28 <= m /\ 28 + Len(d[n]) <= m
    BY <1>8, <1>16, <1>17
  <2>2. /\ ReadExact(f, 0, 8) = Got(M, 8) /\ ReadExact(f, 8, 12) = Got(b, 20)
        /\ ReadNumber(f, 20, 8) = Got(n, 28) /\ ReadColumns(f, 28, n) = Got(cols, m)
    BY <1>11, <1>12, <1>13, <1>14, <1>16, <1>17, <2>1 DEF Outcome
  <2>3. TryFromSrc(f) = Got(Opened(cols, n), m)
    BY ONLY <2>2, Opens DEF M
  <2> QED BY ONLY <1>2, <1>15, <1>17, <2>3 DEF l, f
<1>18. CASE m # l
  <2>1. ~(28 + Len(d[n]) <= m)
    BY <1>8, <1>16, <1>18
  <2>2. TryFromSrc(f) = Failed("error")
    <3>1. CASE ~(8 <= m)
      <4>1. ReadExact(f, 0, 8) = Failed("error")
        BY <1>11, <3>1 DEF Outcome
      <4> QED BY ONLY <4>1, Refuses
    <3>2. CASE 8 <= m /\ ~(20 <= m)
      <4>1. ReadExact(f, 0, 8) = Got(M, 8) /\ ReadExact(f, 8, 12) = Failed("error")
        BY <1>11, <1>12, <3>2 DEF Outcome
      <4> QED BY ONLY <4>1, Refuses DEF M
    <3>3. CASE 20 <= m /\ ~(28 <= m)
      <4>1. 8 <= m
        BY <1>8, <3>3
      <4>2. /\ ReadExact(f, 0, 8) = Got(M, 8) /\ ReadExact(f, 8, 12) = Got(b, 20)
            /\ ReadNumber(f, 20, 8) = Failed("error")
        BY <1>11, <1>12, <1>13, <3>3, <4>1 DEF Outcome
      <4> QED BY ONLY <4>2, Refuses DEF M
    <3>4. CASE 28 <= m
      <4>1. 8 <= m /\ 20 <= m
        BY <1>8, <3>4
      <4>2. /\ ReadExact(f, 0, 8) = Got(M, 8) /\ ReadExact(f, 8, 12) = Got(b, 20)
            /\ ReadNumber(f, 20, 8) = Got(n, 28) /\ ReadColumns(f, 28, n) = Failed("error")
        BY <1>11, <1>12, <1>13, <1>14, <2>1, <3>4, <4>1 DEF Outcome
      <4> QED BY ONLY <4>2, Refuses DEF M
    <3> QED BY <1>8, <3>1, <3>2, <3>3, <3>4
  <2> QED BY ONLY <1>2, <1>18, <2>2 DEF l, f
<1> QED BY <1>17, <1>18

-----------------------------------------------------------------------------
(* The values of a row.                                                    *)

(* A value of its type, as a row holds it.                                 *)
IsValue(v) ==
  /\ v = [type |-> v.type, value |-> v.value] /\ v.type \in Range(Types)
  /\ v.type \in IntegerType => v.value \in Int /\ Fits(v.value, v.type)
  /\ v.type = "string" => v.value \in Seq(DOMAIN Utf8)
  /\ v.type = "bool" => v.value \in BOOLEAN
  /\ v.type = "float" => v.value \in Int

(* There are four kinds of types.                                          *)
LEMMA TypesAre ==
  ASSUME NEW type \in Range(Types)
  PROVE  type \in IntegerType \/ type = "string" \/ type = "bool" \/ type = "float"
<1>1. PICK i \in 1 .. 7 : Types[i] = type
  <2>1. DOMAIN Types = 1 .. 7
    BY DEF Types
  <2> QED BY <2>1 DEF Range
<1>2. i = 1 \/ i = 2 \/ i = 3 \/ i = 4 \/ i = 5 \/ i = 6 \/ i = 7
  OBVIOUS
<1> QED BY <1>1, <1>2 DEF Types, IntegerType

(* A part at the front is the first bytes.                                 *)
LEMMA FieldFront ==
  ASSUME NEW b \in Seq(Byte), NEW x \in Seq(Byte), Field(b, 0, x)
  PROVE  SubSeq(b, 1, Len(x)) = x
<1> DEFINE n == Len(x)
           s == SubSeq(b, 1, n)
<1>1. n \in Nat /\ n <= Len(b) /\ \A i \in 1 .. n : b[i] = x[i]
  <2>1. 0 + n <= Len(b) /\ \A i \in 1 .. n : b[0 + i] = x[i]
    BY DEF Field
  <2>2. n \in Nat /\ \A i \in 1 .. n : 0 + i = i
    OBVIOUS
  <2> HIDE DEF n
  <2> QED BY <2>1, <2>2
<1>2. s \in Seq(Byte) /\ Len(s) = n /\ \A i \in 1 .. n : s[i] = b[i]
  <2>1. \A i \in 1 .. n : 1 + i - 1 = i /\ i \in 1 .. Len(b)
    BY <1>1
  <2>2. n - 1 + 1 = n
    BY <1>1
  <2> HIDE DEF n
  <2> QED BY <1>1, <2>1, <2>2
<1>3. x \in Seq(Byte) /\ Len(x) = n
  OBVIOUS
<1> HIDE DEF s, n
<1>4. \A i \in 1 .. n : s[i] = x[i]
  BY <1>1, <1>2
<1>5. s = x
  BY ONLY <1>1, <1>2, <1>3, <1>4
<1> QED BY <1>5 DEF s, n

(* A part is at the front of the bytes from its place on.                  *)
LEMMA FieldDrop ==
  ASSUME NEW h \in Seq(Byte), NEW at \in Nat, NEW x \in Seq(Byte), Field(h, at, x)
  PROVE  /\ SubSeq(h, at + 1, Len(h)) \in Seq(Byte)
         /\ Field(SubSeq(h, at + 1, Len(h)), 0, x)
<1> DEFINE n == Len(x)
           l == Len(h)
           s == SubSeq(h, at + 1, l)
<1>1. n \in Nat /\ l \in Nat
  OBVIOUS
<1>2. at + n <= l /\ \A i \in 1 .. n : h[at + i] = x[i]
  BY DEF Field
<1>3. s \in Seq(Byte) /\ Len(s) = l - at /\ \A i \in 1 .. l - at : s[i] = h[at + i]
  <2> DEFINE k == l - at
  <2>1. k \in Nat /\ at + k = l
    BY <1>1, <1>2
  <2>2. l = Len(h) /\ s = SubSeq(h, at + 1, at + k)
    BY <2>1
  <2> HIDE DEF k, l, n, s
  <2>3. \A i \in 1 .. k : at + 1 + i - 1 = at + i /\ at + i \in 1 .. Len(h)
    BY <1>1, <2>1, <2>2
  <2>4. (at + k) - (at + 1) + 1 = k
    BY <2>1
  <2>5. at + k <= Len(h)
    BY <1>1, <2>1, <2>2
  <2>6. s \in Seq(Byte) /\ Len(s) = k /\ \A i \in 1 .. k : s[i] = h[at + i]
    BY <2>1, <2>2, <2>3, <2>4, <2>5
  <2> QED BY <2>6 DEF k
<1> HIDE DEF n, l, s
<1>4. 0 + n <= Len(s) /\ \A i \in 1 .. n : 0 + i = i /\ i \in 1 .. l - at
  BY <1>1, <1>2, <1>3
<1>5. \A i \in 1 .. n : s[0 + i] = x[i]
  BY <1>2, <1>3, <1>4
<1>6. s \in Seq(Byte) /\ Field(s, 0, x)
  BY <1>3, <1>4, <1>5 DEF Field, n
<1> QED BY <1>6 DEF s, l

(* The bytes of a value are bytes.                                         *)
LEMMA ValueBytes ==
  ASSUME NEW v, IsValue(v)
  PROVE  /\ ToBytes(v) \in Seq(Byte) /\ Len(ToBytes(v)) \in Nat
         /\ v.type = "string" => Len(ToBytes(v)) = 2 + Len(v.value)
<1>1. CASE v.type \in IntegerType
  <2>1. IntegerBytes(v.value, v.type) \in Seq(Nat)
    BY <1>1, IntegersReadBack DEF IsValue
  <2>2. Seq(Nat) \subseteq Seq(Byte)
    BY DEF Byte
  <2>3. v.type # "string"
    BY <1>1 DEF IntegerType
  <2>4. ToBytes(v) \in Seq(Byte)
    BY <1>1, <2>1, <2>2 DEF ToBytes
  <2> QED BY <2>3, <2>4
<1>2. CASE v.type = "string"
  <2> DEFINE s == v.value
             a == BigEndian(Len(s), 2)
             c == Chars(s)
  <2>1. s \in Seq(DOMAIN Utf8)
    BY <1>2 DEF IsValue
  <2>2. c \in Seq(Byte) /\ Len(c) = Len(s) /\ Len(s) \in Nat
    BY <2>1, CharsOf
  <2>3. a \in Seq(Byte) /\ Len(a) = 2
    BY <2>2, NumberBytes
  <2>4. ToBytes(v) = a \o c
    BY <1>2 DEF ToBytes, IntegerType
  <2> HIDE DEF a, c, s
  <2>5. a \o c \in Seq(Byte) /\ Len(a \o c) = Len(a) + Len(c)
    BY ONLY <2>2, <2>3, CatBytes
  <2>6. ToBytes(v) \in Seq(Byte) /\ Len(ToBytes(v)) = 2 + Len(s)
    BY ONLY <2>2, <2>3, <2>4, <2>5
  <2> QED BY <2>2, <2>6 DEF s
<1>3. CASE v.type = "bool"
  <2>1. ToBytes(v) = <<IF v.value THEN 1 ELSE 0>>
    BY <1>3 DEF ToBytes, IntegerType
  <2>2. <<IF v.value THEN 1 ELSE 0>> \in Seq(Nat)
    OBVIOUS
  <2>3. Seq(Nat) \subseteq Seq(Byte)
    BY DEF Byte
  <2> QED BY <1>3, <2>1, <2>2, <2>3
<1>4. CASE v.type = "float"
  <2> DEFINE z == v.value
  <2>1. ToBytes(v) = FloatBytes(z)
    BY <1>4 DEF ToBytes, IntegerType
  <2>2. z \in Int
    BY <1>4 DEF IsValue
  <2> HIDE DEF z
  <2>3. FloatBytes(z) \in Seq(Nat)
    BY <2>2 DEF FloatBytes
  <2>4. Seq(Nat) \subseteq Seq(Byte)
    BY DEF Byte
  <2> QED BY <1>4, <2>1, <2>3, <2>4
<1>5. v.type \in Range(Types)
  BY DEF IsValue
<1> QED BY <1>1, <1>2, <1>3, <1>4, <1>5, TypesAre

(* A value is decoded from its bytes, whatever is behind them.             *)
LEMMA Decodes ==
  ASSUME NEW v, IsValue(v), NEW b \in Seq(Byte), Field(b, 0, ToBytes(v)),
         Len(ToBytes(v)) < Base * Base
  PROVE  /\ Decode(v.type, b).value = v.value
         /\ Decode(v.type, b).size = Len(ToBytes(v))
<1>1. ToBytes(v) \in Seq(Byte) /\ (v.type = "string" => Len(ToBytes(v)) = 2 + Len(v.value))
  BY ValueBytes
<1>2. CASE v.type \in IntegerType
  <2> DEFINE t == v.type
             z == v.value
             x == IntegerBytes(z, t)
  <2>1. z \in Int /\ Fits(z, t) /\ t \in IntegerType
    BY <1>2 DEF IsValue
  <2>2. Len(x) = Width[t] /\ BytesInteger(x, t) = z
    BY <2>1, IntegersReadBack
  <2>3. ToBytes(v) = x
    BY <1>2 DEF ToBytes
  <2>4. x \in Seq(Byte) /\ Field(b, 0, x)
    BY <1>1, <2>3
  <2> HIDE DEF x
  <2>5. SubSeq(b, 1, Width[t]) = x
    BY ONLY <2>2, <2>4, FieldFront, b \in Seq(Byte)
  <2>6. Decode(t, b) = [value |-> BytesInteger(SubSeq(b, 1, Width[t]), t), size |-> Width[t]]
    BY <2>1 DEF Decode
  <2>7. Decode(t, b) = [value |-> z, size |-> Len(x)]
    <3> HIDE DEF z, t
    <3> QED BY ONLY <2>2, <2>5, <2>6
  <2> HIDE DEF z
  <2>8. Decode(t, b).value = z /\ Decode(t, b).size = Len(x)
    BY <2>7
  <2> QED BY <2>3, <2>8 DEF z
<1>3. CASE v.type = "string"
  <2> DEFINE s == v.value
             l == Len(s)
             a == BigEndian(l, 2)
             c == Chars(s)
             t == v.type
  <2>1. s \in Seq(DOMAIN Utf8)
    BY <1>3 DEF IsValue
  <2>2. /\ c \in Seq(Byte) /\ Len(c) = l /\ l \in Nat
        /\ \A i \in 1 .. l : c[i] \in Range(Utf8) /\ AntiFunction(Utf8)[c[i]] = s[i]
    BY <2>1, CharsOf
  <2>3. l < Base * Base
    <3>1. Len(ToBytes(v)) = 2 + l
      BY <1>1, <1>3
    <3>2. 2 + l < Base * Base
      BY <3>1
    <3>3. Base * Base \in Nat
      BY BaseFacts
    <3> HIDE DEF l
    <3> QED BY <2>2, <3>2, <3>3
  <2>4. a \in Seq(Byte) /\ Len(a) = 2 /\ Number(a) = l
    BY <2>2, <2>3, NumberBytes, NumberBack, TwoBytes
  <2>5. ToBytes(v) = a \o c
    BY <1>3 DEF ToBytes, IntegerType
  <2> HIDE DEF a, c, l
  <2>6. Field(b, 0, a) /\ Field(b, 2, c)
    <3>1. Field(b, 0, a \o c)
      BY <2>5
    <3>2. Field(b, 0, a) /\ Field(b, 0 + Len(a), c)
      BY ONLY <2>2, <2>4, <3>1, FieldPieces, b \in Seq(Byte), 0 \in Nat
    <3>3. 0 + Len(a) = 2
      BY <2>4
    <3> QED BY ONLY <3>2, <3>3
  <2>7. SubSeq(b, 1, 2) = a
    BY ONLY <2>4, <2>6, FieldFront, b \in Seq(Byte)
  <2>8. \A i \in 1 .. l : b[2 + i] = c[i]
    BY <2>2, <2>6 DEF Field
  <2>9. [i \in 1 .. l |-> AntiFunction(Utf8)[b[2 + i]]] = s
    <3>1. s = [i \in 1 .. l |-> s[i]]
      BY <2>1 DEF l
    <3>2. \A i \in 1 .. l : AntiFunction(Utf8)[b[2 + i]] = s[i]
      BY <2>2, <2>8
    <3> HIDE DEF s
    <3> QED BY ONLY <3>1, <3>2
  <2>10. Decode("string", b) = [value |-> [i \in 1 .. l |-> AntiFunction(Utf8)[b[2 + i]]], size |-> 2 + l]
    <3>1. Number(SubSeq(b, 1, 2)) = l
      BY ONLY <2>4, <2>7
    <3> QED BY <3>1 DEF Decode, IntegerType
  <2>11. Decode("string", b).value = s /\ Decode("string", b).size = 2 + l
    <3> DEFINE read == [i \in 1 .. l |-> AntiFunction(Utf8)[b[2 + i]]]
               size == 2 + l
               D == Decode("string", b)
    <3>1. D = [value |-> read, size |-> size] /\ read = s
      BY ONLY <2>9, <2>10
    <3> HIDE DEF read, size, D, s
    <3>2. D.value = read /\ D.size = size
      BY ONLY <3>1
    <3> QED BY ONLY <3>1, <3>2 DEF size, D
  <2> HIDE DEF s
  <2> QED BY <1>1, <1>3, <2>11 DEF s, l
<1>4. CASE v.type = "bool"
  <2>1. ToBytes(v) = <<IF v.value THEN 1 ELSE 0>> /\ v.value \in BOOLEAN
    BY <1>4 DEF ToBytes, IntegerType, IsValue
  <2>2. Decode(v.type, b) = [value |-> b[1] = 1, size |-> 1]
    BY <1>4 DEF Decode, IntegerType
  <2>3. Len(ToBytes(v)) = 1 /\ ToBytes(v)[1] = IF v.value THEN 1 ELSE 0
    BY <2>1
  <2>4. b[1] = ToBytes(v)[1]
    <3>1. 1 \in 1 .. Len(ToBytes(v)) /\ 0 + 1 = 1
      BY <2>3
    <3>2. b[0 + 1] = ToBytes(v)[1]
      BY <3>1 DEF Field
    <3> QED BY <3>1, <3>2
  <2> DEFINE y == v.value
             D == Decode(v.type, b)
  <2>5. D.size = 1 /\ D.value = (b[1] = 1)
    BY <2>2
  <2>6. (b[1] = 1) = y
    <3>1. CASE y = TRUE
      <4>1. (IF v.value THEN 1 ELSE 0) = 1
        BY <3>1
      <4>2. b[1] = 1
        BY <2>3, <2>4, <4>1
      <4> HIDE DEF y
      <4> QED BY ONLY <3>1, <4>2
    <3>2. CASE y = FALSE
      <4>1. (IF v.value THEN 1 ELSE 0) = 0
        BY <3>2
      <4>2. b[1] # 1
        BY <2>3, <2>4, <4>1
      <4> HIDE DEF y
      <4> QED BY ONLY <3>2, <4>2
    <3> QED BY <2>1, <3>1, <3>2
  <2> QED BY <2>3, <2>5, <2>6
<1>5. CASE v.type = "float"
  <2> DEFINE z == v.value
             x == FloatBytes(z)
  <2>1. ToBytes(v) = x /\ z \in Int
    BY <1>5 DEF ToBytes, IntegerType, IsValue
  <2>2. Decode(v.type, b) = [value |-> IF b[1] = 1 THEN -b[2] ELSE b[2], size |-> 4]
    BY <1>5 DEF Decode, IntegerType
  <2> HIDE DEF z
  <2>3. Len(x) = 4 /\ x[1] = (IF z < 0 THEN 1 ELSE 0) /\ x[2] = IF z < 0 THEN -z ELSE z
    BY DEF FloatBytes
  <2>4. b[1] = x[1] /\ b[2] = x[2]
    <3>0. Field(b, 0, x)
      BY <2>1
    <3> HIDE DEF x
    <3>1. 1 \in 1 .. Len(x) /\ 2 \in 1 .. Len(x) /\ 0 + 1 = 1 /\ 0 + 2 = 2
      BY <2>3
    <3>2. b[0 + 1] = x[1] /\ b[0 + 2] = x[2]
      BY <3>0, <3>1 DEF Field
    <3> QED BY <3>1, <3>2
  <2> HIDE DEF x
  <2>5. (IF b[1] = 1 THEN -b[2] ELSE b[2]) = z
    <3>1. CASE z < 0
      <4>1. b[1] = 1 /\ b[2] = -z
        BY <2>3, <2>4, <3>1
      <4>2. -(-z) = z
        BY <2>1
      <4> QED BY <4>1, <4>2
    <3>2. CASE ~(z < 0)
      BY <2>3, <2>4, <3>2
    <3> QED BY <3>1, <3>2
  <2>6. Decode(v.type, b).value = z /\ Decode(v.type, b).size = 4
    BY <2>2, <2>5
  <2> QED BY <2>1, <2>3, <2>6 DEF z
<1>6. v.type \in Range(Types)
  BY DEF IsValue
<1> QED BY <1>2, <1>3, <1>4, <1>5, <1>6, TypesAre

-----------------------------------------------------------------------------
(* The row.                                                                *)

(* The values of a row.                                                    *)
IsRow(vals) ==
  /\ Len(vals) \in Nat /\ vals = [i \in 1 .. Len(vals) |-> vals[i]]
  /\ \A i \in 1 .. Len(vals) : IsValue(vals[i])

(* The types of the values of a row.                                       *)
TypesOf(vals) == [i \in 1 .. Len(vals) |-> vals[i].type]

(* The bytes of a row are those of its values, one after the other.        *)
LEMMA RowDef ==
  ASSUME NEW vals, IsRow(vals)
  PROVE  \E d : /\ Pieces(d, [i \in 1 .. Len(vals) |-> ToBytes(vals[i])], Len(vals))
                /\ RecBytes(vals) = d[Len(vals)]
<1> DEFINE n == Len(vals)
           V == Seq(Byte)
           p == [i \in 1 .. n |-> ToBytes(vals[i])]
           e == << >>
           w(i) == ToBytes(vals[i])
           g == [x \in (0 .. n) \X V |-> IF x[1] = 0 THEN e ELSE x[2] \o p[x[1]]]
           Is(f) == f = [i \in 0 .. n |-> IF i = 0 THEN e ELSE f[i - 1] \o w(i)]
<1>1. n \in Nat /\ 0 <= n /\ 0 \in Nat
  BY DEF IsRow
<1>2. \A i \in 1 .. n : p[i] \in V /\ p[i] = w(i)
  BY ValueBytes DEF IsRow
<1>3. e \in V
  OBVIOUS
<1>4. \A k \in 0 .. n : (k > 0 => k - 1 \in 0 .. n /\ k # 0 /\ k \in 1 .. n) /\ (k # 0 => k > 0)
  BY <1>1
<1> HIDE DEF p, w, n
<1>5. ASSUME NEW k \in 0 .. n, NEW v \in V
      PROVE  g[<<k, v>>] \in V /\ (k > 0 => g[<<k, v>>] = v \o p[k])
  <2>1. g[<<k, v>>] = IF k = 0 THEN e ELSE v \o p[k]
    OBVIOUS
  <2>2. CASE k = 0
    BY <1>3, <2>1, <2>2
  <2>3. CASE k # 0
    <3>1. p[k] \in V
      BY <1>2, <1>4, <2>3
    <3>2. v \o p[k] \in V
      BY <3>1, CatBytes
    <3> HIDE DEF g
    <3> QED BY <2>1, <2>3, <3>2
  <2> QED BY <2>2, <2>3
<1>6. PICK f : Recurs(f, 0, n, V, e, g)
  <2>1. \A k \in 0 .. n, v \in V : g[<<k, v>>] \in V
    BY <1>5
  <2> HIDE DEF g, V, e
  <2> QED BY <1>1, <1>3, <2>1, Recursion
<1>7. f \in [0 .. n -> V] /\ f[0] = e /\ \A k \in 0 .. n : k > 0 => f[k] = g[<<k, f[k - 1]>>]
  <2> HIDE DEF g, V, e
  <2> QED BY <1>6 DEF Recurs
<1> HIDE DEF g, V, e
<1>8. \A k \in 1 .. n : f[k] = f[k - 1] \o w(k)
  <2> TAKE k \in 1 .. n
  <2>1. k \in 0 .. n /\ k > 0 /\ k - 1 \in 0 .. n
    BY <1>1
  <2>2. f[k - 1] \in V /\ f[k] = g[<<k, f[k - 1]>>]
    BY <1>7, <2>1
  <2> QED BY <1>2, <1>5, <2>1, <2>2
<1>9. \A k \in 0 .. n : f[k] = IF k = 0 THEN e ELSE f[k - 1] \o w(k)
  BY <1>4, <1>7, <1>8
<1>10. Is(f)
  BY <1>7, <1>9
<1> DEFINE t == CHOOSE h : Is(h)
<1>11. Is(t)
  <2> HIDE DEF Is
  <2> QED BY <1>10
<1>12. RecBytes(vals) = t[n]
  BY DEF RecBytes, n, w, e
<1> HIDE DEF t
<1>13. \A k \in 0 .. n : t[k] = IF k = 0 THEN e ELSE t[k - 1] \o w(k)
  BY <1>11
<1>14. t[0] = e /\ \A k \in 1 .. n : t[k] = t[k - 1] \o p[k]
  <2>1. 0 \in 0 .. n /\ \A k \in 1 .. n : k \in 0 .. n /\ k # 0
    BY <1>1
  <2> QED BY <1>2, <1>13, <2>1
<1>15. \A k \in 0 .. n : t[k] \in V
  <2> DEFINE W == {k \in 0 .. n : t[k] \in V}
  <2>1. 0 \in W
    BY <1>1, <1>3, <1>14
  <2>2. ASSUME NEW k \in 0 .. n, k > 0, k - 1 \in W PROVE k \in W
    <3>1. t[k - 1] \in V /\ k \in 1 .. n
      BY <1>4, <2>2
    <3>2. t[k] = g[<<k, t[k - 1]>>] /\ g[<<k, t[k - 1]>>] \in V
      BY <1>5, <1>14, <2>2, <3>1
    <3> QED BY <3>2
  <2>3. \A k \in 0 .. n : k \in W
    <3> HIDE DEF W
    <3> QED BY <1>1, <2>1, <2>2, StepInduction
  <2> QED BY <2>3
<1>16. t = [k \in 0 .. n |-> t[k]]
  BY <1>11
<1>17. Pieces(t, p, n)
  <2>1. t \in [0 .. n -> Seq(Byte)]
    BY <1>15, <1>16 DEF V
  <2>2. \A k \in 1 .. n : p[k] \in Seq(Byte)
    BY <1>2 DEF V
  <2> QED BY <1>14, <2>1, <2>2 DEF Pieces, e
<1> QED BY <1>12, <1>17 DEF n, p, w

(* What is decoded of the values up to the i-th one.                       *)
DecodedUpTo(vals, d, i) == Got([j \in 1 .. i |-> vals[j]], Len(d[i]))

(* A row that is not too long for a record, of whose values p are the      *)
(* bytes.                                                                  *)
Rowed(vals, n, d, p) ==
  /\ IsRow(vals) /\ n = Len(vals) /\ p = [i \in 1 .. n |-> ToBytes(vals[i])]
  /\ Pieces(d, p, n) /\ Len(d[n]) <= MaxRecordSize

(* One turn of the loop of decode_val(): the value it reads is the next    *)
(* one of the row.                                                         *)
LEMMA ValueStep ==
  ASSUME NEW vals, NEW n, NEW d, NEW p, Rowed(vals, n, d, p), NEW i \in 1 .. n
  PROVE  AddValue(vals[i].type, d[n], DecodedUpTo(vals, d, i - 1)) = DecodedUpTo(vals, d, i)
<1> DEFINE v == vals[i]
           at == Len(d[i - 1])
           to == Len(d[i])
           h == d[n]
           b == SubSeq(h, at + 1, Len(h))
           x == [j \in 1 .. i - 1 |-> vals[j]]
           y == [j \in 1 .. i |-> vals[j]]
           r == DecodedUpTo(vals, d, i - 1)
           D == Decode(v.type, b)
<1>0. /\ IsRow(vals) /\ n = Len(vals) /\ p = [k \in 1 .. n |-> ToBytes(vals[k])]
      /\ Pieces(d, p, n) /\ Len(d[n]) <= MaxRecordSize
  BY DEF Rowed
<1>1. n \in Nat /\ IsValue(v) /\ p[i] = ToBytes(v)
  BY <1>0 DEF IsRow
<1>2. PieceAt(d, p, n, i)
  <2>1. n \in Nat
    BY <1>1
  <2>2. \A j \in 1 .. n : PieceAt(d, p, n, j)
    BY ONLY <2>1, PiecesAre, <1>0
  <2> QED BY ONLY <2>2, i \in 1 .. n
<1>3. /\ Field(d[n], at, p[i]) /\ to = at + Len(p[i]) /\ to \in Nat /\ at \in Nat
      /\ Len(p[i]) \in Nat /\ to <= Len(d[n]) /\ Len(d[n]) \in Nat
  BY ONLY <1>2 DEF PieceAt
<1>4. h \in Seq(Byte)
  <2>1. n \in 0 .. n
    BY <1>1
  <2> QED BY <1>0, <2>1 DEF Pieces
<1>5. p[i] \in Seq(Byte)
  BY <1>0 DEF Pieces
<1>6. Len(p[i]) < Base * Base
  <2> DEFINE k == Len(p[i])
             l == Len(d[n])
             B == Base * Base
  <2>1. k \in Nat /\ l \in Nat /\ k <= l /\ l <= MaxRecordSize
    <3>1. to = at + k /\ to <= l /\ at \in Nat /\ k \in Nat /\ l \in Nat /\ l <= MaxRecordSize
      BY <1>0, <1>3
    <3> HIDE DEF k, l, to, at
    <3> QED BY ONLY <3>1
  <2>2. MaxRecordSize \in Nat /\ MaxRecordSize < B /\ B \in Nat
    BY MaxRecordSizeAssumption, BaseFacts
  <2> HIDE DEF k, l, B
  <2>3. k < B
    BY ONLY <2>1, <2>2
  <2> QED BY <2>3 DEF k, B
<1>7. Append(x, v) = y
  <2> DEFINE C == {vals[j] : j \in 1 .. n}
             z == Append(x, v)
  <2>1. x \in Seq(C) /\ Len(x) = i - 1 /\ \A j \in 1 .. i - 1 : x[j] = vals[j]
    <3>1. \A j \in 1 .. i - 1 : vals[j] \in C
      BY <1>1
    <3>2. i - 1 \in Nat
      BY <1>1
    <3> HIDE DEF C
    <3> QED BY <3>1, <3>2
  <2>2. y \in Seq(C) /\ Len(y) = i /\ \A j \in 1 .. i : y[j] = vals[j]
    <3>1. \A j \in 1 .. i : vals[j] \in C
      BY <1>1
    <3>2. i \in Nat
      BY <1>1
    <3> HIDE DEF C
    <3> QED BY <3>1, <3>2
  <2>3. i \in Nat /\ i >= 1 /\ v \in C
    BY <1>1
  <2> HIDE DEF x, y, C
  <2>4. z \in Seq(C) /\ Len(z) = i
    BY <2>1, <2>3
  <2>5. \A j \in 1 .. i : z[j] = vals[j]
    <3>1. \A j \in 1 .. i - 1 : z[j] = x[j]
      BY <2>1, <2>3
    <3>2. z[i] = v
      BY <2>1, <2>3
    <3> HIDE DEF z, v
    <3> QED BY <2>1, <2>3, <3>1, <3>2 DEF v
  <2> HIDE DEF z
  <2>6. \A j \in 1 .. i : z[j] = y[j]
    BY <2>2, <2>5
  <2>7. z = y
    BY ONLY <2>2, <2>3, <2>4, <2>6
  <2> QED BY <2>7 DEF z
<1> HIDE DEF at, to, h, v, x, y
<1>8. D.value = v.value /\ D.size = Len(p[i])
  <2>1. b \in Seq(Byte) /\ Field(b, 0, p[i])
    <3>1. Field(h, at, p[i]) /\ at \in Nat
      BY <1>3 DEF h
    <3> QED BY ONLY <1>4, <1>5, <3>1, FieldDrop
  <2> HIDE DEF b
  <2>2. IsValue(v) /\ Field(b, 0, ToBytes(v)) /\ Len(ToBytes(v)) < Base * Base /\ b \in Seq(Byte)
    BY <1>1, <1>6, <2>1
  <2>3. Decode(v.type, b).value = v.value /\ Decode(v.type, b).size = Len(ToBytes(v))
    BY ONLY <2>2, Decodes
  <2> QED BY ONLY <1>1, <2>3
<1>9. v = [type |-> v.type, value |-> v.value]
  BY <1>1 DEF IsValue
<1>10. r.node = x /\ r.at = at
  BY DEF DecodedUpTo, Got, x, at
<1>11. AddValue(v.type, h, r) = Got(Append(x, v), to)
  <2>1. AddValue(v.type, h, r) = Got(Append(r.node, [type |-> v.type, value |-> Decode(v.type, SubSeq(h, r.at + 1, Len(h))).value]),
                                     r.at + Decode(v.type, SubSeq(h, r.at + 1, Len(h))).size)
    BY Zenon DEF AddValue
  <2> HIDE DEF r
  <2>2. AddValue(v.type, h, r) = Got(Append(x, [type |-> v.type, value |-> D.value]), at + D.size)
    BY ONLY <1>10, <2>1
  <2> HIDE DEF D
  <2> QED BY ONLY <1>3, <1>8, <1>9, <2>2
<1> QED BY <1>7, <1>11 DEF DecodedUpTo, y, to, v, h

(* A row that fits a record reads back from its bytes: each value where    *)
(* the one before it ends (Record::decode_val).                            *)
THEOREM RowsReadBack ==
  ASSUME NEW vals, IsRow(vals), Size(vals) <= MaxRecordSize
  PROVE  DecodeVal(TypesOf(vals), RecBytes(vals)) = vals
<1> DEFINE n == Len(vals)
           p == [i \in 1 .. n |-> ToBytes(vals[i])]
           types == TypesOf(vals)
<1>1. n \in Nat /\ vals = [i \in 1 .. n |-> vals[i]]
  BY DEF IsRow
<1>2. PICK d : Pieces(d, p, n) /\ RecBytes(vals) = d[n]
  BY RowDef
<1>3. Rowed(vals, n, d, p)
  BY <1>2 DEF Rowed, Size
<1>4. Len(types) = n /\ \A i \in 1 .. n : types[i] = vals[i].type
  <2>1. types = [i \in 1 .. n |-> vals[i].type]
    BY DEF TypesOf
  <2>2. types \in Seq({vals[i].type : i \in 1 .. n}) /\ Len(types) = n
    <3> DEFINE T == {vals[i].type : i \in 1 .. n}
    <3>1. \A i \in 1 .. n : vals[i].type \in T
      OBVIOUS
    <3> HIDE DEF T, types, n
    <3>2. types \in Seq(T) /\ Len(types) = n
      BY <1>1, <2>1, <3>1
    <3> QED BY <3>2 DEF T
  <2> QED BY <2>1, <2>2
<1> DEFINE h == d[n]
           F == [i \in 0 .. n |-> DecodedUpTo(vals, d, i)]
           e == Got(<< >>, 0)
           w(i, r) == AddValue(types[i], h, r)
           Is(u) == u = [i \in 0 .. n |-> IF i = 0 THEN e ELSE w(i, u[i - 1])]
<1>5. ASSUME NEW i \in 1 .. n
      PROVE  w(i, DecodedUpTo(vals, d, i - 1)) = DecodedUpTo(vals, d, i)
  <2>1. AddValue(vals[i].type, d[n], DecodedUpTo(vals, d, i - 1)) = DecodedUpTo(vals, d, i)
    <3> HIDE DEF n, p
    <3> QED BY ONLY <1>3, ValueStep, i \in 1 .. n
  <2>2. types[i] = vals[i].type
    BY <1>4
  <2> QED BY ONLY <2>1, <2>2
<1>6. DecodedUpTo(vals, d, 0) = e
  <2>1. [j \in 1 .. 0 |-> vals[j]] = << >>
    OBVIOUS
  <2>2. d[0] = << >> /\ Len(<< >>) = 0
    BY <1>2 DEF Pieces
  <2> QED BY <2>1, <2>2 DEF DecodedUpTo
<1>7. RecBytes(vals) = h
  BY <1>2
<1> HIDE DEF e, w, h, types, p, n
<1>8. \A i \in 0 .. n : F[i] = IF i = 0 THEN e ELSE w(i, F[i - 1])
  <2>1. ASSUME NEW i \in 1 .. n PROVE F[i] = w(i, F[i - 1])
    <3>1. i \in 0 .. n /\ i - 1 \in 0 .. n
      BY <1>1
    <3> QED BY <1>5, <3>1
  <2>2. F[0] = e
    BY <1>1, <1>6
  <2>3. \A i \in 0 .. n : i # 0 => i \in 1 .. n
    BY <1>1
  <2> HIDE DEF F
  <2> QED BY <2>1, <2>2, <2>3
<1>9. Is(F)
  <2>1. F = [i \in 0 .. n |-> F[i]]
    OBVIOUS
  <2> HIDE DEF F
  <2> QED BY <1>8, <2>1
<1> DEFINE t == CHOOSE u : Is(u)
<1>10. Is(t)
  <2> HIDE DEF Is
  <2> QED BY <1>9
<1>11. DecodeVal(types, h) = t[n].node
  <2> DEFINE T == CHOOSE u : u = [i \in 0 .. Len(types) |-> IF i = 0 THEN e ELSE w(i, u[i - 1])]
  <2>1. DecodeVal(types, h) = T[Len(types)].node
    BY DEF DecodeVal, w, e
  <2>2. T = t
    BY <1>4
  <2> QED BY <1>4, <2>1, <2>2
<1> HIDE DEF t, F
<1>12. \A i \in 0 .. n : t[i] = IF i = 0 THEN e ELSE w(i, t[i - 1])
  BY <1>10
<1> DEFINE W == {i \in 0 .. n : t[i] = F[i]}
<1>13. 0 \in W
  <2>1. 0 \in 0 .. n
    BY <1>1
  <2>2. t[0] = e /\ F[0] = e
    BY ONLY <1>8, <1>12, <2>1
  <2> QED BY <2>1, <2>2
<1>14. ASSUME NEW i \in 0 .. n, i > 0, i - 1 \in W PROVE i \in W
  <2>1. i # 0 /\ t[i - 1] = F[i - 1]
    BY <1>14
  <2> QED BY <1>8, <1>12, <2>1
<1>15. \A i \in 0 .. n : i \in W
  <2> HIDE DEF W
  <2> QED BY <1>1, <1>13, <1>14, StepInduction
<1>16. t[n] = F[n]
  BY <1>1, <1>15
<1>17. F[n] = DecodedUpTo(vals, d, n)
  BY <1>1 DEF F
<1>18. t[n].node = vals
  BY <1>1, <1>16, <1>17 DEF DecodedUpTo, Got
<1> QED BY <1>7, <1>11, <1>18 DEF types
=============================================================================
