-------------------------- MODULE LinearRecurrences --------------------------
(***************************************************************************)
(* The mathematics the recurrence miner stands on, from its own exact      *)
(* arithmetic up.                                                          *)
(*                                                                         *)
(* Euclid's algorithm returns the greatest common divisor, so a fraction   *)
(* is in lowest terms and equal fractions are equal records; the laws of   *)
(* the field follow from cross multiplication.  A total is the last of its *)
(* partial sums, by which it is linear, may drop zeros and may be taken of *)
(* a table by rows or by columns.  A recurrence is a polynomial that        *)
(* annihilates the sequence: two that annihilate the same terms agree on   *)
(* the next one (Massey), so a shortest one that half the terms determine  *)
(* is the only one of its length.                                          *)
(***************************************************************************)
EXTENDS Rationals, WellFoundedInduction, TLAPS

LEMMA LeastNatural ==
  ASSUME NEW T, T \in SUBSET Nat, T # {}
  PROVE  \E m \in T : \A k \in T : m <= k
<1>1. PICK m \in T : \A k \in T : ~(<<k, m>> \in OpToRel(<, Nat))
  BY NatLessThanWellFounded, WFMin
<1>2. \A k \in T : ~(k < m)
  BY <1>1 DEF OpToRel
<1> QED
  BY <1>2

\* What holds at 0 and goes on from each number holds of all.
LEMMA Inductive ==
  ASSUME NEW S, 0 \in S, \A k \in Nat : k \in S => k + 1 \in S
  PROVE  Nat \subseteq S
<1> SUFFICES ASSUME NEW x \in Nat \ S PROVE FALSE
  OBVIOUS
<1>1. PICK m \in Nat \ S : \A k \in Nat \ S : m <= k
  BY LeastNatural
<1>2. m # 0 /\ m - 1 \in Nat
  BY <1>1
<1>3. m - 1 \in S
  BY <1>1, <1>2
<1> QED
  BY <1>1, <1>2, <1>3

-----------------------------------------------------------------------------
(* Divisors.                                                               *)
Positive   == Nat \ {0}
Divides(d, x) == \E k \in Int : x = d * k
Common(x, y)  == {d \in Positive : Divides(d, x) /\ Divides(d, y)}
Greatest(x, y) == CHOOSE d \in Common(x, y) : \A e \in Common(x, y) : e <= d

LEMMA DivisorBound ==
  ASSUME NEW d \in Positive, NEW x \in Nat, x # 0, Divides(d, x)
  PROVE  d <= x
<1>1. PICK k \in Int : x = d * k
  BY DEF Divides
<1>2. k >= 1
  BY <1>1 DEF Positive
<1> QED
  BY <1>1, <1>2 DEF Positive

LEMMA DividesSum ==
  ASSUME NEW d \in Int, NEW x \in Int, NEW y \in Int, NEW q \in Int, Divides(d, x), Divides(d, y)
  PROVE  Divides(d, x + q * y)
<1>1. PICK k \in Int, m \in Int : x = d * k /\ y = d * m
  BY DEF Divides
<1>2. x + q * y = d * (k + q * m) /\ k + q * m \in Int
  BY <1>1
<1> QED
  BY <1>2 DEF Divides

LEMMA DivisionLemma ==
  ASSUME NEW x \in Int, NEW y \in Positive
  PROVE  /\ x = (x % y) + (x \div y) * y /\ x \div y \in Int
         /\ x % y \in Nat /\ x % y < y
  BY DEF Positive

LEMMA CommonStep ==
  ASSUME NEW x \in Nat, NEW y \in Positive
  PROVE  Common(x, y) = Common(y, x % y)
<1>1. PICK q \in Int, r \in Nat : x = r + q * y /\ r = x % y
  BY DivisionLemma
<1>2. y \in Int /\ x \in Int /\ r \in Int /\ -q \in Int
  BY <1>1 DEF Positive
<1>3. ASSUME NEW d \in Positive, Divides(d, x), Divides(d, y) PROVE Divides(d, r)
  <2>1. d \in Int
    BY DEF Positive
  <2>2. Divides(d, x + (-q) * y)
    BY <2>1, <1>2, <1>3, DividesSum
  <2>3. x + (-q) * y = r
    BY <1>1, <1>2
  <2> QED
    BY <2>2, <2>3
<1>4. ASSUME NEW d \in Positive, Divides(d, r), Divides(d, y) PROVE Divides(d, x)
  <2>1. d \in Int
    BY DEF Positive
  <2>2. Divides(d, r + q * y)
    BY <2>1, <1>2, <1>4, DividesSum
  <2> QED
    BY <2>2, <1>1
<1>5. Common(x, y) = Common(y, r)
  BY <1>3, <1>4 DEF Common
<1> QED
  BY <1>1, <1>5

LEMMA GreatestExists ==
  ASSUME NEW x \in Nat, NEW y \in Positive
  PROVE  Greatest(x, y) \in Common(x, y) /\ \A e \in Common(x, y) : e <= Greatest(x, y)
<1> DEFINE T == {k \in Nat : \E d \in Common(x, y) : k = y - d}
<1>1. \A d \in Common(x, y) : d \in Nat /\ d <= y
  BY DivisorBound DEF Common, Positive
<1>2. 1 \in Common(x, y)
  <2>1. x = 1 * x /\ y = 1 * y /\ x \in Int /\ y \in Int /\ 1 \in Positive
    BY DEF Positive
  <2> QED
    BY <2>1 DEF Common, Divides
<1>3. y - 1 \in T
  BY <1>2 DEF Positive
<1>4. PICK m \in T : \A k \in T : m <= k
  <2>1. T \in SUBSET Nat /\ T # {}
    BY <1>3
  <2> HIDE DEF T
  <2> QED
    BY <2>1, LeastNatural
<1>5. PICK d \in Common(x, y) : m = y - d
  BY <1>4
<1>6. ASSUME NEW e \in Common(x, y) PROVE e <= d
  <2>1. y - e \in T
    BY <1>1 DEF Positive
  <2>2. m <= y - e
    BY <2>1, <1>4
  <2> QED
    BY <2>2, <1>1, <1>5 DEF Positive
<1> QED
  BY <1>6 DEF Greatest

\* Euclid's algorithm finds the greatest common divisor.
LEMMA EuclidEquation ==
  euclid = [y \in Nat |-> [x \in Nat |-> IF y = 0 THEN x ELSE euclid[x % y][y]]]
<1> DEFINE G == [y \in Nat |-> [x \in Nat |-> IF y = 0 THEN x ELSE Greatest(x, y)]]
<1>1. ASSUME NEW x \in Nat, NEW y \in Positive PROVE G[y][x] = G[x % y][y]
  <2>1. PICK r \in Nat : r = x % y
    BY DivisionLemma
  <2>2. G[y][x] = Greatest(x, y)
    BY DEF Positive
  <2>3. Greatest(x, y) = Greatest(y, r)
    BY <2>1, CommonStep DEF Greatest
  <2>4. CASE r = 0
    <3>1. Divides(y, 0) /\ Divides(y, y) /\ y \in Positive
      BY DEF Divides, Positive
    <3>2. y \in Common(y, r)
      BY <3>1, <2>4 DEF Common
    <3>3. \A e \in Common(y, r) : e <= y
      BY DivisorBound DEF Common, Positive
    <3>4. Greatest(x, y) \in Common(y, r) /\ y <= Greatest(x, y)
      BY <3>2, <2>1, GreatestExists, CommonStep
    <3>5. Greatest(x, y) = y
      BY <3>3, <3>4 DEF Common, Positive
    <3>6. G[r][y] = y
      BY <2>4 DEF Positive
    <3> QED
      BY <2>1, <2>2, <3>5, <3>6
  <2>5. CASE r # 0
    <3>1. G[r][y] = Greatest(y, r)
      BY <2>5, <2>1 DEF Positive
    <3> QED
      BY <2>1, <2>2, <2>3, <3>1
  <2> QED
    BY <2>4, <2>5
<1>2. ASSUME NEW y \in Nat
      PROVE  [x \in Nat |-> IF y = 0 THEN x ELSE G[x % y][y]] = [x \in Nat |-> IF y = 0 THEN x ELSE Greatest(x, y)]
  <2>1. ASSUME NEW x \in Nat, y # 0 PROVE G[x % y][y] = Greatest(x, y)
    <3>1. y \in Positive
      BY <2>1 DEF Positive
    <3>2. G[y][x] = Greatest(x, y)
      BY <2>1
    <3> HIDE DEF G
    <3> QED
      BY <1>1, <3>1, <3>2
  <2> HIDE DEF G
  <2> QED
    BY <2>1
<1>3. G = [y \in Nat |-> [x \in Nat |-> IF y = 0 THEN x ELSE G[x % y][y]]]
  BY <1>2
<1> HIDE DEF G
<1>4. \E g : g = [y \in Nat |-> [x \in Nat |-> IF y = 0 THEN x ELSE g[x % y][y]]]
  BY <1>3, Zenon
<1> QED
  BY <1>4, Zenon DEF euclid

LEMMA EuclidStep ==
  ASSUME NEW x \in Nat, NEW y \in Nat
  PROVE  euclid[y][x] = IF y = 0 THEN x ELSE euclid[x % y][y]
<1>1. euclid[y] = [u \in Nat |-> IF y = 0 THEN u ELSE euclid[u % y][y]]
  BY EuclidEquation, Zenon
<1> QED
  BY <1>1, Zenon

LEMMA EuclidIsGreatest ==
  ASSUME NEW x \in Nat, NEW y \in Positive
  PROVE  gcd(x, y) \in Common(x, y) /\ \A e \in Common(x, y) : e <= gcd(x, y)
<1> DEFINE Correct(v) == \A u \in Nat : euclid[v][u] = IF v = 0 THEN u ELSE Greatest(u, v)
           S == {k \in Nat : \A v \in 0 .. k : Correct(v)}
<1>1. Correct(0)
  BY EuclidStep
<1>2. ASSUME NEW k \in Nat, k \in S PROVE k + 1 \in S
  <2>1. ASSUME NEW u \in Nat PROVE euclid[k + 1][u] = Greatest(u, k + 1)
    <3>1. PICK v \in Nat : v = k + 1 /\ v \in Positive
      BY DEF Positive
    <3>2. PICK r \in Nat : r = u % v /\ r < v
      BY <3>1, DivisionLemma
    <3>3. euclid[v][u] = euclid[r][v]
      <4>1. v # 0
        BY <3>1 DEF Positive
      <4> QED
        BY <4>1, <3>2, EuclidStep
    <3>4. Correct(r)
      BY <1>2, <3>1, <3>2
    <3>5. Greatest(u, v) = Greatest(v, r)
      BY <3>1, <3>2, CommonStep DEF Greatest
    <3>6. CASE r = 0
      <4>1. euclid[r][v] = v
        BY <3>4, <3>6
      <4>2. Divides(v, 0) /\ Divides(v, v)
        BY DEF Divides
      <4>3. v \in Common(v, r)
        BY <4>2, <3>1, <3>6 DEF Common
      <4>4. \A e \in Common(v, r) : e <= v /\ e \in Nat
        BY <3>1, DivisorBound DEF Common, Positive
      <4>5. Greatest(u, v) \in Common(v, r) /\ v <= Greatest(u, v)
        BY <4>3, <3>1, <3>2, GreatestExists, CommonStep
      <4> QED
        BY <4>1, <4>4, <4>5, <3>1, <3>3
    <3>7. CASE r # 0
      BY <3>7, <3>1, <3>3, <3>4, <3>5
    <3> QED
      BY <3>6, <3>7
  <2>2. Correct(k + 1)
    BY <2>1
  <2> HIDE DEF Correct
  <2>3. \A v \in 0 .. k + 1 : v \in 0 .. k \/ v = k + 1
    OBVIOUS
  <2> QED
    BY <1>2, <2>2, <2>3
<1>3. 0 \in S
  <2> HIDE DEF Correct
  <2> QED
    BY <1>1
<1>4. Nat \subseteq S
  <2> HIDE DEF S
  <2> QED
    BY <1>2, <1>3, Inductive
<1>5. y \in Nat /\ y # 0
  BY DEF Positive
<1>6. Correct(y)
  <2> HIDE DEF Correct
  <2>1. y \in S
    BY <1>4, <1>5
  <2> QED
    BY <2>1
<1>7. gcd(x, y) = Greatest(x, y)
  BY <1>5, <1>6 DEF gcd
<1> QED
  BY <1>7, GreatestExists

-----------------------------------------------------------------------------
(* Fractions in lowest terms.                                              *)
Lowest(u, v) == \A d \in Positive : Divides(d, u) /\ Divides(d, v) => d = 1
Rational == {q \in [num : Int, den : Positive] : Lowest(q.num, q.den)}
Nonzero  == Int \ {0}

LEMMA CancelFactor ==
  ASSUME NEW x \in Int, NEW y \in Int, NEW z \in Nonzero, x * z = y * z
  PROVE  x = y
<1>1. (x - y) * z = 0 /\ x - y \in Int
  BY DEF Nonzero
<1>2. x - y = 0
  BY <1>1 DEF Nonzero
<1> QED
  BY <1>2

LEMMA MagnitudeFacts ==
  ASSUME NEW x \in Int
  PROVE  /\ Magnitude(x) \in Nat
         /\ x # 0 => Magnitude(x) \in Positive
         /\ \A d \in Int : Divides(d, Magnitude(x)) <=> Divides(d, x)
<1>1. Magnitude(x) \in Nat /\ (x # 0 => Magnitude(x) # 0) /\ (Magnitude(x) = x \/ Magnitude(x) = -x)
  BY DEF Magnitude
<1>2. ASSUME NEW d \in Int PROVE Divides(d, -x) <=> Divides(d, x)
  <2>1. ASSUME NEW k \in Int, -x = d * k PROVE Divides(d, x)
    <3>1. x = d * (-k) /\ -k \in Int
      BY <2>1
    <3> QED
      BY <3>1 DEF Divides
  <2>2. ASSUME NEW k \in Int, x = d * k PROVE Divides(d, -x)
    <3>1. -x = d * (-k) /\ -k \in Int
      BY <2>2
    <3> QED
      BY <3>1 DEF Divides
  <2> QED
    BY <2>1, <2>2 DEF Divides
<1> QED
  BY <1>1, <1>2 DEF Positive

LEMMA FractionFacts ==
  ASSUME NEW x \in Int, NEW y \in Nonzero
  PROVE  Fraction(x, y) \in Rational /\ Fraction(x, y).num * y = x * Fraction(x, y).den
<1>1. PICK g \in Positive :
        /\ g = gcd(Magnitude(x), Magnitude(y)) /\ Divides(g, x) /\ Divides(g, y)
        /\ \A e \in Positive : Divides(e, x) /\ Divides(e, y) => e <= g
  <2>1. Magnitude(x) \in Nat /\ Magnitude(y) \in Positive
    BY MagnitudeFacts DEF Nonzero
  <2>2. PICK h : h = gcd(Magnitude(x), Magnitude(y))
    OBVIOUS
  <2>3. h \in Common(Magnitude(x), Magnitude(y)) /\ \A e \in Common(Magnitude(x), Magnitude(y)) : e <= h
    BY <2>1, <2>2, EuclidIsGreatest
  <2>4. \A d \in Positive : d \in Common(Magnitude(x), Magnitude(y)) <=> Divides(d, x) /\ Divides(d, y)
    BY MagnitudeFacts DEF Common, Positive, Nonzero
  <2>5. h \in Positive
    BY <2>3 DEF Common
  <2> QED
    BY <2>2, <2>3, <2>4, <2>5
<1>2. PICK a \in Int, b \in Int : x = g * a /\ y = g * b
  BY <1>1 DEF Divides
<1>3. x \div g = a /\ y \div g = b /\ b # 0
  <2>1. b # 0
    BY <1>2 DEF Nonzero, Positive
  <2>2. PICK p \in Int, r \in Nat : x = r + p * g /\ r < g /\ p = x \div g
    BY DivisionLemma
  <2>3. PICK q \in Int, s \in Nat : y = s + q * g /\ s < g /\ q = y \div g
    BY DivisionLemma DEF Nonzero
  <2>4. (a - p) * g = r
    BY <1>2, <2>2 DEF Positive
  <2>5. (b - q) * g = s
    BY <1>2, <2>3 DEF Positive
  <2>6. ASSUME NEW m \in Int, NEW t \in Nat, m * g = t, t < g PROVE m = 0
    <3>1. m < 1
      BY <2>6 DEF Positive
    <3>2. m > -1
      BY <2>6 DEF Positive
    <3> QED
      BY <3>1, <3>2
  <2>7. a - p = 0 /\ b - q = 0
    BY <2>2, <2>3, <2>4, <2>5, <2>6
  <2> QED
    BY <2>1, <2>2, <2>3, <2>7
<1>4. PICK sign \in {-1, 1} : /\ Fraction(x, y) = [num |-> sign * a, den |-> sign * b]
                              /\ sign * b \in Positive
  <2>1. CASE y < 0
    <3>1. Fraction(x, y) = [num |-> -1 * a, den |-> -1 * b]
      BY <2>1, <1>1, <1>3 DEF Fraction
    <3>2. -1 * b \in Positive
      BY <2>1, <1>2 DEF Positive
    <3> QED
      BY <3>1, <3>2
  <2>2. CASE ~(y < 0)
    <3>1. Fraction(x, y) = [num |-> 1 * a, den |-> 1 * b]
      BY <2>2, <1>1, <1>3 DEF Fraction
    <3>2. 1 * b \in Positive
      BY <2>2, <1>2, <1>3 DEF Positive, Nonzero
    <3> QED
      BY <3>1, <3>2
  <2> QED
    BY <2>1, <2>2
<1>5. PICK num \in Int, den \in Positive :
        Fraction(x, y) = [num |-> num, den |-> den] /\ num = sign * a /\ den = sign * b
  BY <1>4
<1>6. num * y = x * den
  BY <1>2, <1>4, <1>5 DEF Positive
<1>7. ASSUME NEW d \in Positive, Divides(d, num), Divides(d, den) PROVE d = 1
  <2>1. PICK k \in Int, m \in Int : num = d * k /\ den = d * m
    BY <1>7 DEF Divides
  <2>2. a = sign * num /\ b = sign * den
    BY <1>4, <1>5
  <2>3. PICK k1 \in Int, m1 \in Int : a = d * k1 /\ b = d * m1
    <3>1. a = d * (sign * k) /\ b = d * (sign * m) /\ sign * k \in Int /\ sign * m \in Int
      BY <2>1, <2>2, <1>4 DEF Positive
    <3> QED
      BY <3>1
  <2>4. x = (d * g) * k1 /\ y = (d * g) * m1
    BY <1>2, <2>3 DEF Positive
  <2>5. d * g \in Positive
    BY DEF Positive
  <2>6. d * g <= g
    BY <1>1, <2>4, <2>5 DEF Divides
  <2> QED
    BY <2>6 DEF Positive
<1> QED
  BY <1>5, <1>6, <1>7 DEF Rational, Lowest

LEMMA RationalType ==
  ASSUME NEW q \in Rational
  PROVE  /\ q.num \in Int /\ q.den \in Positive /\ q.den \in Int /\ q.den \in Nonzero
         /\ Lowest(q.num, q.den) /\ q = [num |-> q.num, den |-> q.den]
  BY DEF Rational, Positive, Nonzero

\* Every pair in the ratio of a and b is a multiple of the least one, so
\* only that one is in lowest terms.
LEMMA LowestUnique ==
  ASSUME NEW a \in Int, NEW b \in Positive, NEW u \in Int, NEW v \in Positive,
         a * v = u * b, Lowest(a, b), Lowest(u, v)
  PROVE  a = u /\ b = v
<1> DEFINE InRatio(x, y) == x * b = a * y
           T == {y \in Positive : \E x \in Int : InRatio(x, y)}
<1>1. PICK v0 \in T : \A k \in T : v0 <= k
  <2>1. b \in T
    OBVIOUS
  <2>2. T \in SUBSET Nat /\ T # {}
    BY <2>1 DEF Positive
  <2> HIDE DEF T
  <2> QED
    BY <2>2, LeastNatural
<1>2. PICK u0 \in Int : u0 * b = a * v0
  BY <1>1
<1>3. v0 \in Positive
  BY <1>1
<1>4. ASSUME NEW x \in Int, NEW y \in Positive, x * b = a * y, Lowest(x, y)
      PROVE  x = u0 /\ y = v0
  <2>1. PICK q \in Int, r \in Nat : y = r + q * v0 /\ r < v0
    <3> HIDE DEF T
    <3>1. y \in Int
      BY DEF Positive
    <3> QED
      BY <1>3, <3>1, DivisionLemma
  <2>2. (x - q * u0) * b = a * r
    <3>1. q * (u0 * b) = q * (a * v0)
      BY <1>2
    <3>2. a * y = a * r + q * (a * v0)
      BY <2>1, <1>3 DEF Positive
    <3>3. (x - q * u0) * b = x * b - q * (u0 * b)
      BY <2>1 DEF Positive
    <3>4. PICK k \in Int : k = q * (u0 * b)
      BY <2>1 DEF Positive
    <3> QED
      BY <3>1, <3>2, <3>3, <3>4, <1>4, <2>1 DEF Positive
  <2>3. r = 0
    <3> SUFFICES ASSUME r # 0 PROVE FALSE
      OBVIOUS
    <3>1. r \in T
      BY <2>2, <2>1 DEF Positive
    <3>2. v0 <= r /\ v0 \in Int
      BY <3>1, <1>1 DEF Positive
    <3> QED
      BY <3>2, <2>1
  <2>4. y = q * v0
    BY <2>1, <2>3, <1>3 DEF Positive
  <2>5. x = q * u0
    <3>1. (x - q * u0) * b = 0
      BY <2>2, <2>3
    <3>2. PICK z \in Int : z = x - q * u0
      BY <2>1
    <3>3. z * b = 0 * b /\ b \in Nonzero
      BY <3>1, <3>2 DEF Positive, Nonzero
    <3>4. z = 0
      BY <3>3, CancelFactor
    <3> QED
      BY <3>2, <3>4, <2>1
  <2>6. q \in Positive
    BY <2>1, <2>4, <1>3 DEF Positive
  <2>7. Divides(q, x) /\ Divides(q, y)
    BY <2>4, <2>5, <1>3 DEF Divides, Positive
  <2>8. q = 1
    BY <1>4, <2>6, <2>7 DEF Lowest
  <2> QED
    BY <2>4, <2>5, <2>8, <1>3 DEF Positive
<1>5. a = u0 /\ b = v0
  BY <1>4 DEF Positive
<1>6. u = u0 /\ v = v0
  BY <1>4 DEF Positive
<1> QED
  BY <1>5, <1>6

\* Two fractions are equal if and only if their cross products are.
LEMMA FractionOfRational ==
  ASSUME NEW q \in Rational, NEW x \in Int, NEW y \in Nonzero, q.num * y = x * q.den
  PROVE  q = Fraction(x, y)
<1>1. PICK p \in Rational : p = Fraction(x, y) /\ p.num * y = x * p.den
  BY FractionFacts
<1>2. PICK a \in Int, b \in Positive : /\ a = q.num /\ b = q.den /\ Lowest(a, b) /\ a * y = x * b
                                       /\ q = [num |-> a, den |-> b]
  BY RationalType
<1>3. PICK u \in Int, v \in Positive : /\ u = p.num /\ v = p.den /\ Lowest(u, v) /\ u * y = x * v
                                       /\ p = [num |-> u, den |-> v]
  BY RationalType, <1>1
<1>4. (a * v) * y = (u * b) * y
  <2>1. (a * y) * v = (x * b) * v
    BY <1>2
  <2>2. (u * y) * b = (x * v) * b
    BY <1>3
  <2> QED
    BY <2>1, <2>2 DEF Positive, Nonzero
<1>5. a * v = u * b
  <2>1. a * v \in Int /\ u * b \in Int
    BY DEF Positive
  <2> QED
    BY <1>4, <2>1, CancelFactor
<1> QED
  BY <1>1, <1>2, <1>3, <1>5, LowestUnique

LEMMA FractionCross ==
  ASSUME NEW x \in Int, NEW y \in Nonzero, NEW u \in Int, NEW v \in Nonzero
  PROVE  Fraction(x, y) = Fraction(u, v) <=> x * v = u * y
<1>1. PICK a \in Int, b \in Nonzero : a = Fraction(x, y).num /\ b = Fraction(x, y).den /\ a * y = x * b
  BY FractionFacts, RationalType
<1>2. ASSUME Fraction(x, y) = Fraction(u, v) PROVE x * v = u * y
  <2>1. a * v = u * b
    BY <1>1, <1>2, FractionFacts
  <2>2. (x * v) * b = (u * y) * b
    <3>1. (a * y) * v = (x * b) * v /\ (a * v) * y = (u * b) * y
      BY <1>1, <2>1
    <3> QED
      BY <3>1 DEF Nonzero
  <2>3. x * v \in Int /\ u * y \in Int
    BY DEF Nonzero
  <2> QED
    BY <2>2, <2>3, CancelFactor
<1>3. ASSUME x * v = u * y PROVE Fraction(x, y) = Fraction(u, v)
  <2>1. (a * v) * y = (u * b) * y
    <3>1. (a * y) * v = (x * b) * v /\ (x * v) * b = (u * y) * b
      BY <1>1, <1>3
    <3> QED
      BY <3>1 DEF Nonzero
  <2>2. a * v \in Int /\ u * b \in Int
    BY DEF Nonzero
  <2>3. a * v = u * b
    BY <2>1, <2>2, CancelFactor
  <2>4. Fraction(x, y) \in Rational
    BY FractionFacts
  <2> QED
    BY <1>1, <2>3, <2>4, FractionOfRational
<1> QED
  BY <1>2, <1>3

-----------------------------------------------------------------------------
(* The operations on fractions, whether or not these are in lowest terms.  *)
LEMMA NonzeroProduct ==
  ASSUME NEW x \in Nonzero, NEW y \in Nonzero
  PROVE  x * y \in Nonzero
<1>1. x * y \in Int
  BY DEF Nonzero
<1>2. x * y # 0
  BY DEF Nonzero
<1> QED
  BY <1>1, <1>2 DEF Nonzero

LEMMA FractionParts ==
  ASSUME NEW x \in Int, NEW y \in Nonzero
  PROVE  \E a \in Int, b \in Nonzero :
           a = Fraction(x, y).num /\ b = Fraction(x, y).den /\ a * y = x * b
  BY FractionFacts, RationalType

LEMMA PlusFractions ==
  ASSUME NEW x \in Int, NEW y \in Nonzero, NEW u \in Int, NEW v \in Nonzero
  PROVE  Plus(Fraction(x, y), Fraction(u, v)) = Fraction(x * v + u * y, y * v)
<1>1. PICK a \in Int, b \in Nonzero : a = Fraction(x, y).num /\ b = Fraction(x, y).den /\ a * y = x * b
  BY FractionParts
<1>2. PICK c \in Int, d \in Nonzero : c = Fraction(u, v).num /\ d = Fraction(u, v).den /\ c * v = u * d
  BY FractionParts
<1>3. Plus(Fraction(x, y), Fraction(u, v)) = Fraction(a * d + c * b, b * d)
  BY <1>1, <1>2 DEF Plus
<1>4. (a * d + c * b) * (y * v) = (x * v + u * y) * (b * d)
  <2>1. (a * y) * (d * v) = (x * b) * (d * v) /\ (c * v) * (b * y) = (u * d) * (b * y)
    BY <1>1, <1>2
  <2> QED
    BY <2>1 DEF Nonzero
<1>5. /\ a * d + c * b \in Int /\ x * v + u * y \in Int
      /\ b * d \in Nonzero /\ y * v \in Nonzero
  BY NonzeroProduct DEF Nonzero
<1> QED
  BY <1>3, <1>4, <1>5, FractionCross

LEMMA TimesFractions ==
  ASSUME NEW x \in Int, NEW y \in Nonzero, NEW u \in Int, NEW v \in Nonzero
  PROVE  Times(Fraction(x, y), Fraction(u, v)) = Fraction(x * u, y * v)
<1>1. PICK a \in Int, b \in Nonzero : a = Fraction(x, y).num /\ b = Fraction(x, y).den /\ a * y = x * b
  BY FractionParts
<1>2. PICK c \in Int, d \in Nonzero : c = Fraction(u, v).num /\ d = Fraction(u, v).den /\ c * v = u * d
  BY FractionParts
<1>3. Times(Fraction(x, y), Fraction(u, v)) = Fraction(a * c, b * d)
  BY <1>1, <1>2 DEF Times
<1>4. (a * c) * (y * v) = (x * u) * (b * d)
  <2>1. (a * y) * (c * v) = (x * b) * (u * d)
    BY <1>1, <1>2
  <2> QED
    BY <2>1 DEF Nonzero
<1>5. a * c \in Int /\ x * u \in Int /\ b * d \in Nonzero /\ y * v \in Nonzero
  BY NonzeroProduct DEF Nonzero
<1> QED
  BY <1>3, <1>4, <1>5, FractionCross

LEMMA DivideFractions ==
  ASSUME NEW x \in Int, NEW y \in Nonzero, NEW u \in Nonzero, NEW v \in Nonzero
  PROVE  Divide(Fraction(x, y), Fraction(u, v)) = Fraction(x * v, y * u)
<1>1. PICK a \in Int, b \in Nonzero : a = Fraction(x, y).num /\ b = Fraction(x, y).den /\ a * y = x * b
  BY FractionParts
<1>2. PICK c \in Int, d \in Nonzero : c = Fraction(u, v).num /\ d = Fraction(u, v).den /\ c * v = u * d
  BY FractionParts DEF Nonzero
<1>3. c \in Nonzero
  <2>1. u * d # 0
    BY NonzeroProduct DEF Nonzero
  <2> QED
    BY <1>2, <2>1 DEF Nonzero
<1>4. Divide(Fraction(x, y), Fraction(u, v)) = Fraction(a * d, b * c)
  BY <1>1, <1>2 DEF Divide
<1>5. (a * d) * (y * u) = (x * v) * (b * c)
  <2>1. (a * y) * (u * d) = (x * b) * (c * v)
    BY <1>1, <1>2
  <2> QED
    BY <2>1 DEF Nonzero
<1>6. a * d \in Int /\ x * v \in Int /\ b * c \in Nonzero /\ y * u \in Nonzero
  BY <1>3, NonzeroProduct DEF Nonzero
<1> QED
  BY <1>4, <1>5, <1>6, FractionCross

LEMMA RationalIsFraction ==
  ASSUME NEW q \in Rational
  PROVE  q.num \in Int /\ q.den \in Nonzero /\ q = Fraction(q.num, q.den)
  BY RationalType, FractionOfRational

LEMMA WholeIsFraction ==
  ASSUME NEW x \in Int
  PROVE  Whole(x) \in Rational /\ Whole(x) = Fraction(x, 1)
<1>1. Whole(x) = [num |-> x, den |-> 1] /\ 1 \in Positive /\ 1 \in Nonzero
  BY DEF Whole, Positive, Nonzero
<1>2. Lowest(x, 1)
  BY DivisorBound DEF Lowest, Positive
<1>3. Whole(x) \in Rational
  BY <1>1, <1>2 DEF Rational
<1>4. Whole(x).num * 1 = x * Whole(x).den
  BY <1>1
<1> QED
  BY <1>1, <1>3, <1>4, FractionOfRational

LEMMA MinusFraction ==
  ASSUME NEW x \in Int, NEW y \in Nonzero
  PROVE  Minus(Fraction(x, y)) \in Rational /\ Minus(Fraction(x, y)) = Fraction(-x, y)
<1>1. PICK a \in Int, b \in Positive : /\ Fraction(x, y) = [num |-> a, den |-> b] /\ a * y = x * b
                                       /\ Lowest(a, b)
  BY FractionFacts, RationalType
<1>2. Minus(Fraction(x, y)) = [num |-> -a, den |-> b]
  BY <1>1 DEF Minus
<1>3. Lowest(-a, b)
  <2> SUFFICES ASSUME NEW d \in Positive, Divides(d, -a), Divides(d, b) PROVE d = 1
    BY DEF Lowest
  <2>1. PICK k \in Int : -a = d * k
    BY DEF Divides
  <2>2. a = d * (-k) /\ -k \in Int
    BY <2>1 DEF Positive
  <2> QED
    BY <1>1, <2>2 DEF Lowest, Divides
<1>4. Minus(Fraction(x, y)) \in Rational
  BY <1>2, <1>3 DEF Rational
<1>5. (-a) * y = (-x) * b
  BY <1>1 DEF Positive, Nonzero
<1>6. Minus(Fraction(x, y)).num * y = (-x) * Minus(Fraction(x, y)).den
  BY <1>2, <1>5
<1> QED
  BY <1>4, <1>6, FractionOfRational

-----------------------------------------------------------------------------
(* The field laws.                                                         *)
LEMMA AsFraction ==
  ASSUME NEW q \in Rational
  PROVE  \E a \in Int, b \in Nonzero : q = Fraction(a, b)
  BY RationalIsFraction

LEMMA Constants ==
  /\ Zero \in Rational /\ One \in Rational
  /\ Zero = Fraction(0, 1) /\ One = Fraction(1, 1) /\ Zero # One /\ 1 \in Nonzero
<1>1. Zero # One
  BY DEF Zero, One, Whole
<1> QED
  BY <1>1, WholeIsFraction DEF Zero, One, Nonzero

LEMMA Closed ==
  ASSUME NEW p \in Rational, NEW q \in Rational
  PROVE  /\ Plus(p, q) \in Rational /\ Times(p, q) \in Rational /\ Minus(p) \in Rational
         /\ q # Zero => Divide(p, q) \in Rational
<1>1. PICK a \in Int, b \in Nonzero : p = Fraction(a, b)
  BY AsFraction
<1>2. PICK u \in Int, v \in Nonzero : q = Fraction(u, v)
  BY AsFraction
<1>3. a * v + u * b \in Int /\ a * u \in Int /\ b * v \in Nonzero
  BY NonzeroProduct DEF Nonzero
<1>4. Plus(p, q) \in Rational
  BY <1>1, <1>2, <1>3, PlusFractions, FractionFacts
<1>5. Times(p, q) \in Rational
  BY <1>1, <1>2, <1>3, TimesFractions, FractionFacts
<1>6. Minus(p) \in Rational
  BY <1>1, MinusFraction
<1>7. ASSUME q # Zero PROVE Divide(p, q) \in Rational
  <2>1. u # 0
    <3> SUFFICES ASSUME u = 0 PROVE FALSE
      OBVIOUS
    <3>1. Fraction(0, v) = Fraction(0, 1)
      BY FractionCross, Constants DEF Nonzero
    <3> QED
      BY <3>1, <1>2, <1>7, Constants
  <2>2. u \in Nonzero /\ a * v \in Int
    BY <2>1 DEF Nonzero
  <2>3. b * u \in Nonzero
    BY <2>2, NonzeroProduct
  <2> QED
    BY <1>1, <1>2, <2>2, <2>3, DivideFractions, FractionFacts
<1> QED
  BY <1>4, <1>5, <1>6, <1>7

LEMMA Commutative ==
  ASSUME NEW p \in Rational, NEW q \in Rational
  PROVE  Plus(p, q) = Plus(q, p) /\ Times(p, q) = Times(q, p)
<1>1. PICK a \in Int, b \in Nonzero : p = Fraction(a, b)
  BY AsFraction
<1>2. PICK u \in Int, v \in Nonzero : q = Fraction(u, v)
  BY AsFraction
<1>3. a * v + u * b = u * b + a * v /\ b * v = v * b /\ a * u = u * a
  BY DEF Nonzero
<1> QED
  BY <1>1, <1>2, <1>3, PlusFractions, TimesFractions

LEMMA AssociativePlus ==
  ASSUME NEW p \in Rational, NEW q \in Rational, NEW r \in Rational
  PROVE  Plus(Plus(p, q), r) = Plus(p, Plus(q, r))
<1>1. PICK a \in Int, b \in Nonzero : p = Fraction(a, b)
  BY AsFraction
<1>2. PICK u \in Int, v \in Nonzero : q = Fraction(u, v)
  BY AsFraction
<1>3. PICK x \in Int, y \in Nonzero : r = Fraction(x, y)
  BY AsFraction
<1>4. /\ a * v + u * b \in Int /\ u * y + x * v \in Int
      /\ b * v \in Nonzero /\ v * y \in Nonzero
  BY NonzeroProduct DEF Nonzero
<1>5. Plus(Plus(p, q), r) = Fraction((a * v + u * b) * y + x * (b * v), (b * v) * y)
  BY <1>1, <1>2, <1>3, <1>4, PlusFractions
<1>6. Plus(p, Plus(q, r)) = Fraction(a * (v * y) + (u * y + x * v) * b, b * (v * y))
  BY <1>1, <1>2, <1>3, <1>4, PlusFractions
<1>7. (a * v + u * b) * y + x * (b * v) = a * (v * y) + (u * y + x * v) * b
  BY DEF Nonzero
<1>8. (b * v) * y = b * (v * y)
  BY DEF Nonzero
<1> QED
  BY <1>5, <1>6, <1>7, <1>8

LEMMA Interchange ==
  ASSUME NEW p \in Rational, NEW q \in Rational, NEW u \in Rational, NEW v \in Rational
  PROVE  Plus(Plus(p, q), Plus(u, v)) = Plus(Plus(p, u), Plus(q, v))
<1>1. PICK y \in Rational, z \in Rational : y = Plus(u, v) /\ z = Plus(q, v)
  BY Closed
<1>2. Plus(Plus(p, q), y) = Plus(p, Plus(q, y))
  BY AssociativePlus
<1>3. Plus(Plus(p, u), z) = Plus(p, Plus(u, z))
  BY AssociativePlus
<1>4. Plus(q, y) = Plus(Plus(q, u), v) /\ Plus(u, z) = Plus(Plus(u, q), v)
  BY <1>1, AssociativePlus
<1>5. Plus(q, u) = Plus(u, q)
  BY Commutative
<1> QED
  BY <1>1, <1>2, <1>3, <1>4, <1>5

LEMMA AssociativeTimes ==
  ASSUME NEW p \in Rational, NEW q \in Rational, NEW r \in Rational
  PROVE  Times(Times(p, q), r) = Times(p, Times(q, r))
<1>1. PICK a \in Int, b \in Nonzero : p = Fraction(a, b)
  BY AsFraction
<1>2. PICK u \in Int, v \in Nonzero : q = Fraction(u, v)
  BY AsFraction
<1>3. PICK x \in Int, y \in Nonzero : r = Fraction(x, y)
  BY AsFraction
<1>4. /\ a * u \in Int /\ u * x \in Int
      /\ b * v \in Nonzero /\ v * y \in Nonzero
  BY NonzeroProduct DEF Nonzero
<1>5. Times(Times(p, q), r) = Fraction((a * u) * x, (b * v) * y)
  BY <1>1, <1>2, <1>3, <1>4, TimesFractions
<1>6. Times(p, Times(q, r)) = Fraction(a * (u * x), b * (v * y))
  BY <1>1, <1>2, <1>3, <1>4, TimesFractions
<1>7. (a * u) * x = a * (u * x) /\ (b * v) * y = b * (v * y)
  BY DEF Nonzero
<1> QED
  BY <1>5, <1>6, <1>7

LEMMA Distributive ==
  ASSUME NEW p \in Rational, NEW q \in Rational, NEW r \in Rational
  PROVE  Times(p, Plus(q, r)) = Plus(Times(p, q), Times(p, r))
<1>1. PICK a \in Int, b \in Nonzero : p = Fraction(a, b)
  BY AsFraction
<1>2. PICK u \in Int, v \in Nonzero : q = Fraction(u, v)
  BY AsFraction
<1>3. PICK x \in Int, y \in Nonzero : r = Fraction(x, y)
  BY AsFraction
<1>4. /\ u * y + x * v \in Int /\ a * u \in Int /\ a * x \in Int
      /\ b * v \in Nonzero /\ v * y \in Nonzero /\ b * y \in Nonzero
  BY NonzeroProduct DEF Nonzero
<1>5. Times(p, Plus(q, r)) = Fraction(a * (u * y + x * v), b * (v * y))
  BY <1>1, <1>2, <1>3, <1>4, PlusFractions, TimesFractions
<1>6. Plus(Times(p, q), Times(p, r)) = Fraction((a * u) * (b * y) + (a * x) * (b * v), (b * v) * (b * y))
  BY <1>1, <1>2, <1>3, <1>4, PlusFractions, TimesFractions
<1>7. (a * (u * y + x * v)) * ((b * v) * (b * y)) = ((a * u) * (b * y) + (a * x) * (b * v)) * (b * (v * y))
  BY DEF Nonzero
<1>8. /\ a * (u * y + x * v) \in Int /\ (a * u) * (b * y) + (a * x) * (b * v) \in Int
      /\ b * (v * y) \in Nonzero /\ (b * v) * (b * y) \in Nonzero
  BY <1>4, NonzeroProduct DEF Nonzero
<1> QED
  BY <1>5, <1>6, <1>7, <1>8, FractionCross

LEMMA Neutral ==
  ASSUME NEW p \in Rational
  PROVE  /\ Plus(p, Zero) = p /\ Plus(Zero, p) = p
         /\ Times(p, One) = p /\ Times(One, p) = p
         /\ Times(p, Zero) = Zero /\ Times(Zero, p) = Zero
<1>1. PICK a \in Int, b \in Nonzero : p = Fraction(a, b)
  BY AsFraction
<1>2. a * 1 + 0 * b = a /\ b * 1 = b /\ a * 1 = a /\ a * 0 = 0
  BY DEF Nonzero
<1>3. Plus(p, Zero) = p /\ Times(p, One) = p
  <2>1. Plus(p, Zero) = Fraction(a * 1 + 0 * b, b * 1)
    BY <1>1, Constants, PlusFractions
  <2>2. Times(p, One) = Fraction(a * 1, b * 1)
    BY <1>1, Constants, TimesFractions
  <2> QED
    BY <1>1, <1>2, <2>1, <2>2
<1>4. Times(p, Zero) = Zero
  <2>1. Times(p, Zero) = Fraction(a * 0, b * 1)
    BY <1>1, Constants, TimesFractions
  <2>2. Fraction(0, b) = Fraction(0, 1)
    BY FractionCross, Constants DEF Nonzero
  <2> QED
    BY <1>2, <2>1, <2>2, Constants
<1> QED
  BY <1>3, <1>4, Commutative, Constants

LEMMA Opposite ==
  ASSUME NEW p \in Rational
  PROVE  Plus(p, Minus(p)) = Zero /\ Plus(Minus(p), p) = Zero /\ Minus(p) \in Rational
<1>1. PICK a \in Int, b \in Nonzero : p = Fraction(a, b)
  BY AsFraction
<1>2. Minus(p) \in Rational /\ Minus(p) = Fraction(-a, b)
  BY <1>1, MinusFraction
<1>3. Plus(p, Minus(p)) = Fraction(a * b + (-a) * b, b * b)
  BY <1>1, <1>2, PlusFractions
<1>4. a * b + (-a) * b = 0 /\ b * b \in Nonzero
  BY NonzeroProduct DEF Nonzero
<1>5. Fraction(0, b * b) = Fraction(0, 1)
  BY <1>4, FractionCross, Constants DEF Nonzero
<1> QED
  BY <1>2, <1>3, <1>4, <1>5, Constants, Commutative

LEMMA Cancellation ==
  ASSUME NEW p \in Rational, NEW q \in Rational, NEW r \in Rational,
         Plus(p, r) = Zero, Plus(q, r) = Zero
  PROVE  p = q
<1>1. Plus(p, Plus(r, q)) = Plus(Plus(p, r), q)
  BY AssociativePlus
<1>2. Plus(r, q) = Zero
  BY Commutative
<1> QED
  BY <1>1, <1>2, Neutral

LEMMA MinusTwice ==
  ASSUME NEW p \in Rational
  PROVE  Minus(p) \in Rational /\ Minus(Minus(p)) = p
  BY Opposite, Cancellation

LEMMA NoZeroDivisors ==
  ASSUME NEW p \in Rational, NEW q \in Rational, p # Zero, Times(p, q) = Zero
  PROVE  q = Zero
<1>1. PICK a \in Int, b \in Nonzero : p = Fraction(a, b)
  BY AsFraction
<1>2. PICK u \in Int, v \in Nonzero : q = Fraction(u, v)
  BY AsFraction
<1>3. ASSUME NEW x \in Int, NEW y \in Nonzero PROVE Fraction(x, y) = Zero <=> x = 0
  <2>1. Fraction(x, y) = Fraction(0, 1) <=> x * 1 = 0 * y
    BY FractionCross, Constants
  <2> QED
    BY <2>1, Constants DEF Nonzero
<1>4. a # 0
  BY <1>1, <1>3
<1>5. Fraction(a * u, b * v) = Zero /\ a * u \in Int /\ b * v \in Nonzero
  BY <1>1, <1>2, TimesFractions, NonzeroProduct
<1>6. a * u = 0
  BY <1>3, <1>5
<1>7. u = 0
  BY <1>4, <1>6
<1> QED
  BY <1>2, <1>3, <1>7

LEMMA Quotient ==
  ASSUME NEW p \in Rational, NEW q \in Rational, q # Zero
  PROVE  Divide(p, q) \in Rational /\ Times(Divide(p, q), q) = p
<1>1. PICK a \in Int, b \in Nonzero : p = Fraction(a, b)
  BY AsFraction
<1>2. PICK u \in Int, v \in Nonzero : q = Fraction(u, v)
  BY AsFraction
<1>3. u \in Nonzero
  <2> SUFFICES ASSUME u = 0 PROVE FALSE
    BY DEF Nonzero
  <2>1. Fraction(0, v) = Fraction(0, 1)
    BY FractionCross, Constants DEF Nonzero
  <2> QED
    BY <2>1, <1>2, Constants
<1>4. a * v \in Int /\ b * u \in Nonzero
  BY <1>3, NonzeroProduct DEF Nonzero
<1>5. Divide(p, q) = Fraction(a * v, b * u)
  BY <1>1, <1>2, <1>3, DivideFractions
<1>6. Times(Divide(p, q), q) = Fraction((a * v) * u, (b * u) * v)
  BY <1>2, <1>4, <1>5, TimesFractions
<1>7. ((a * v) * u) * b = a * ((b * u) * v)
  BY DEF Nonzero
<1>8. (a * v) * u \in Int /\ (b * u) * v \in Nonzero
  BY <1>4, NonzeroProduct DEF Nonzero
<1> QED
  BY <1>1, <1>6, <1>7, <1>8, FractionCross, Closed

LEMMA QuotientOfSelf ==
  ASSUME NEW q \in Rational, q # Zero
  PROVE  Divide(q, q) = One
<1>1. Divide(q, q) \in Rational /\ Times(Divide(q, q), q) = q
  BY Quotient
<1>2. PICK r \in Rational : r = Divide(q, q) /\ Times(q, r) = q
  BY <1>1, Commutative
<1>3. Times(q, Plus(r, Minus(One))) = Plus(q, Times(q, Minus(One)))
  BY <1>2, Distributive, Opposite, Constants
<1>4. Plus(q, Times(q, Minus(One))) = Times(q, Plus(One, Minus(One)))
  BY Distributive, Opposite, Constants, Neutral
<1>5. Times(q, Plus(r, Minus(One))) = Zero
  BY <1>3, <1>4, Opposite, Constants, Neutral
<1>6. Plus(r, Minus(One)) \in Rational /\ Minus(One) \in Rational
  BY Closed, Constants
<1>7. Plus(r, Minus(One)) = Zero
  BY <1>5, <1>6, NoZeroDivisors
<1>8. Plus(One, Minus(One)) = Zero
  BY Opposite, Constants
<1> QED
  BY <1>2, <1>6, <1>7, <1>8, Cancellation, Constants

LEMMA DifferenceIsZero ==
  ASSUME NEW p \in Rational, NEW q \in Rational
  PROVE  p = q <=> Plus(p, Minus(q)) = Zero
  BY Opposite, Cancellation

LEMMA DifferenceTimes ==
  ASSUME NEW p \in Rational, NEW q \in Rational, NEW x \in Rational
  PROVE  /\ Times(Plus(p, Minus(q)), x) \in Rational
         /\ Times(p, x) = Plus(Times(q, x), Times(Plus(p, Minus(q)), x))
<1>1. PICK d \in Rational : d = Plus(p, Minus(q))
  BY Opposite, Closed
<1>2. Plus(q, d) = p
  <2>1. Minus(q) \in Rational /\ Plus(Minus(q), q) = Zero
    BY Opposite
  <2>2. Plus(p, Plus(Minus(q), q)) = Plus(d, q)
    BY <1>1, <2>1, AssociativePlus
  <2> QED
    BY <2>1, <2>2, Neutral, Commutative
<1>3. Times(x, Plus(q, d)) = Plus(Times(x, q), Times(x, d))
  BY Distributive
<1> QED
  BY <1>1, <1>2, <1>3, Commutative, Closed

-----------------------------------------------------------------------------
(* Sums.                                                                   *)
PartialSums(s, f) ==
  /\ f \in [0 .. Len(s) -> Rational]
  /\ f[0] = Zero
  /\ \A i \in 1 .. Len(s) : f[i] = Plus(f[i - 1], s[i])

LEMMA SumsExist ==
  ASSUME NEW s \in Seq(Rational)
  PROVE  \E f : PartialSums(s, f)
<1> DEFINE UpTo(k, f) == /\ f \in [0 .. k -> Rational]
                         /\ f[0] = Zero
                         /\ \A i \in 1 .. k : f[i] = Plus(f[i - 1], s[i])
           S == {k \in Nat : k <= Len(s) => \E f : UpTo(k, f)}
<1>1. 0 \in S
  <2>1. UpTo(0, [i \in 0 .. 0 |-> Zero])
    BY Constants
  <2> QED
    BY <2>1
<1>2. ASSUME NEW k \in Nat, k \in S PROVE k + 1 \in S
  <2> SUFFICES ASSUME k + 1 <= Len(s) PROVE \E f : UpTo(k + 1, f)
    OBVIOUS
  <2>1. PICK f : UpTo(k, f)
    BY <1>2
  <2> DEFINE g == [i \in 0 .. k + 1 |-> IF i = k + 1 THEN Plus(f[k], s[k + 1]) ELSE f[i]]
  <2>2. f[k] \in Rational /\ s[k + 1] \in Rational
    BY <2>1
  <2>3. Plus(f[k], s[k + 1]) \in Rational
    BY <2>2, Closed
  <2>4. g \in [0 .. k + 1 -> Rational]
    BY <2>1, <2>3
  <2>5. g[0] = Zero
    BY <2>1
  <2>6. ASSUME NEW i \in 1 .. k + 1 PROVE g[i] = Plus(g[i - 1], s[i])
    <3>1. CASE i = k + 1
      BY <3>1, <2>1
    <3>2. CASE i \in 1 .. k
      BY <3>2, <2>1
    <3> QED
      BY <3>1, <3>2
  <2> QED
    BY <2>4, <2>5, <2>6
<1>3. Len(s) \in S
  <2> HIDE DEF S
  <2> QED
    BY <1>1, <1>2, Inductive
<1> QED
  BY <1>3 DEF PartialSums

LEMMA SumsUnique ==
  ASSUME NEW s \in Seq(Rational), NEW f, NEW g, PartialSums(s, f), PartialSums(s, g)
  PROVE  f[Len(s)] = g[Len(s)]
<1> DEFINE S == {k \in Nat : k <= Len(s) => f[k] = g[k]}
<1>1. 0 \in S
  BY DEF PartialSums
<1>2. ASSUME NEW k \in Nat, k \in S PROVE k + 1 \in S
  <2> SUFFICES ASSUME k + 1 <= Len(s) PROVE f[k + 1] = g[k + 1]
    OBVIOUS
  <2>1. f[k] = g[k]
    BY <1>2
  <2>2. f[k + 1] = Plus(f[k], s[k + 1]) /\ g[k + 1] = Plus(g[k], s[k + 1])
    BY DEF PartialSums
  <2> QED
    BY <2>1, <2>2
<1>3. Len(s) \in S
  <2> HIDE DEF S
  <2> QED
    BY <1>1, <1>2, Inductive
<1> QED
  BY <1>3

LEMMA TotalIsLastSum ==
  ASSUME NEW s \in Seq(Rational), NEW f, PartialSums(s, f)
  PROVE  Total(s) = f[Len(s)] /\ Total(s) \in Rational
<1> DEFINE Equation(g) == g = [i \in 0 .. Len(s) |-> IF i = 0 THEN Zero ELSE Plus(g[i - 1], s[i])]
           h == CHOOSE g : Equation(g)
<1>1. Equation(f)
  BY DEF PartialSums
<1>2. Equation(h)
  BY <1>1
<1>3. Total(s) = h[Len(s)]
  BY DEF Total
<1> HIDE DEF h
<1>4. h \in [0 .. Len(s) -> Rational]
  <2> DEFINE S == {k \in Nat : k <= Len(s) => h[k] \in Rational}
  <2>1. 0 \in S
    BY <1>2, Constants
  <2>2. ASSUME NEW k \in Nat, k \in S PROVE k + 1 \in S
    <3> SUFFICES ASSUME k + 1 <= Len(s) PROVE h[k + 1] \in Rational
      OBVIOUS
    <3>1. h[k] \in Rational /\ s[k + 1] \in Rational
      BY <2>2
    <3>2. h[k + 1] = Plus(h[k], s[k + 1])
      BY <1>2
    <3> QED
      BY <3>1, <3>2, Closed
  <2>3. Nat \subseteq S
    <3> HIDE DEF S
    <3> QED
      BY <2>1, <2>2, Inductive
  <2>4. \A k \in 0 .. Len(s) : h[k] \in Rational
    BY <2>3
  <2> QED
    BY <1>2, <2>4
<1>5. PartialSums(s, h)
  BY <1>2, <1>4 DEF PartialSums
<1> QED
  BY <1>3, <1>4, <1>5, SumsUnique

\* The sum of the sums, one of them scaled.
LEMMA TotalLinear ==
  ASSUME NEW r \in Seq(Rational), NEW s \in Seq(Rational), NEW t \in Seq(Rational),
         NEW x \in Rational,
         Len(s) = Len(r), Len(t) = Len(r),
         \A i \in 1 .. Len(r) : r[i] = Plus(s[i], Times(x, t[i]))
  PROVE  Total(r) = Plus(Total(s), Times(x, Total(t)))
<1>1. PICK f : PartialSums(s, f)
  BY SumsExist
<1>2. PICK g : PartialSums(t, g)
  BY SumsExist
<1> DEFINE h == [i \in 0 .. Len(r) |-> Plus(f[i], Times(x, g[i]))]
<1>3. \A i \in 0 .. Len(r) : f[i] \in Rational /\ g[i] \in Rational
  BY <1>1, <1>2 DEF PartialSums
<1>4. h \in [0 .. Len(r) -> Rational]
  BY <1>3, Closed
<1>5. h[0] = Zero
  BY <1>1, <1>2, Neutral, Constants DEF PartialSums
<1>6. ASSUME NEW i \in 1 .. Len(r) PROVE h[i] = Plus(h[i - 1], r[i])
  <2>1. PICK a \in Rational, b \in Rational, p \in Rational, q \in Rational :
          a = f[i - 1] /\ b = g[i - 1] /\ p = s[i] /\ q = t[i]
    BY <1>3
  <2>2. h[i] = Plus(Plus(a, p), Times(x, Plus(b, q)))
    BY <1>1, <1>2, <2>1 DEF PartialSums
  <2>3. Times(x, Plus(b, q)) = Plus(Times(x, b), Times(x, q))
    BY Distributive
  <2>4. PICK u \in Rational, v \in Rational : u = Times(x, b) /\ v = Times(x, q)
    BY Closed
  <2>5. Plus(Plus(a, p), Plus(u, v)) = Plus(Plus(a, u), Plus(p, v))
    BY Interchange
  <2>6. h[i - 1] = Plus(a, u) /\ r[i] = Plus(p, v)
    BY <2>1, <2>4
  <2> HIDE DEF h
  <2> QED
    BY <2>2, <2>3, <2>4, <2>5, <2>6
<1>7. PartialSums(r, h)
  <2> HIDE DEF h
  <2> QED
    BY <1>4, <1>5, <1>6 DEF PartialSums
<1>8. h[Len(r)] = Plus(f[Len(r)], Times(x, g[Len(r)]))
  OBVIOUS
<1>9. Total(r) = h[Len(r)]
  <2> HIDE DEF h
  <2> QED
    BY <1>7, TotalIsLastSum
<1>10. Total(s) = f[Len(r)] /\ Total(t) = g[Len(r)]
  BY <1>1, <1>2, TotalIsLastSum
<1> QED
  BY <1>8, <1>9, <1>10

LEMMA TotalOfSums ==
  ASSUME NEW r \in Seq(Rational), NEW s \in Seq(Rational), NEW t \in Seq(Rational),
         Len(s) = Len(r), Len(t) = Len(r),
         \A i \in 1 .. Len(r) : r[i] = Plus(s[i], Times(One, t[i]))
  PROVE  Total(r) = Plus(Total(s), Times(One, Total(t)))
<1>1. One \in Rational
  BY Constants
<1> QED
  BY <1>1, TotalLinear, Zenon

\* Zeros before and after do not count.
LEMMA TotalWindow ==
  ASSUME NEW r \in Seq(Rational), NEW t \in Seq(Rational), NEW d \in Nat,
         d + Len(t) <= Len(r),
         \A i \in 1 .. Len(r) : r[i] = IF i - d \in 1 .. Len(t) THEN t[i - d] ELSE Zero
  PROVE  Total(r) = Total(t)
<1>1. PICK g : PartialSums(t, g)
  BY SumsExist
<1> DEFINE At(i) == IF i <= d THEN 0 ELSE IF i <= d + Len(t) THEN i - d ELSE Len(t)
           h == [i \in 0 .. Len(r) |-> g[At(i)]]
<1>2. \A i \in 0 .. Len(r) : At(i) \in 0 .. Len(t)
  OBVIOUS
<1>3. h \in [0 .. Len(r) -> Rational]
  BY <1>1, <1>2 DEF PartialSums
<1>4. h[0] = Zero
  BY <1>1 DEF PartialSums
<1>5. ASSUME NEW i \in 1 .. Len(r) PROVE h[i] = Plus(h[i - 1], r[i])
  <2>1. PICK j \in 0 .. Len(t) : j = At(i)
    BY <1>2
  <2>2. g[j] \in Rational
    BY <1>1 DEF PartialSums
  <2>3. h[i] = g[j] /\ h[i - 1] = g[At(i - 1)]
    BY <2>1
  <2>4. CASE i - d \in 1 .. Len(t)
    <3>1. At(i - 1) = j - 1 /\ j = i - d
      BY <2>1, <2>4
    <3>2. g[j] = Plus(g[j - 1], t[j])
      BY <3>1, <2>4, <1>1 DEF PartialSums
    <3>3. r[i] = t[j]
      BY <3>1, <2>4
    <3> HIDE DEF h, At
    <3> QED
      BY <2>3, <3>1, <3>2, <3>3
  <2>5. CASE i - d \notin 1 .. Len(t)
    <3>1. At(i - 1) = j
      BY <2>1, <2>5
    <3>2. r[i] = Zero
      BY <2>5
    <3> HIDE DEF h, At
    <3> QED
      BY <2>2, <2>3, <3>1, <3>2, Neutral
  <2> QED
    BY <2>4, <2>5
<1>6. h[Len(r)] = g[Len(t)]
  OBVIOUS
<1>7. Total(r) = h[Len(r)]
  <2> HIDE DEF h
  <2>1. PartialSums(r, h)
    BY <1>3, <1>4, <1>5 DEF PartialSums
  <2> QED
    BY <2>1, TotalIsLastSum
<1> QED
  BY <1>1, <1>6, <1>7, TotalIsLastSum

\* The first term by itself.
LEMMA TotalHead ==
  ASSUME NEW r \in Seq(Rational), NEW t \in Seq(Rational), Len(r) = Len(t) + 1,
         \A i \in 1 .. Len(t) : r[i + 1] = t[i]
  PROVE  Total(r) = Plus(r[1], Total(t))
<1>1. PICK g : PartialSums(t, g)
  BY SumsExist
<1>2. PICK x \in Rational : x = r[1]
  OBVIOUS
<1>3. \A i \in 0 .. Len(t) : g[i] \in Rational
  BY <1>1 DEF PartialSums
<1> DEFINE h == [i \in 0 .. Len(r) |-> IF i = 0 THEN Zero ELSE Plus(x, g[i - 1])]
<1>4. h \in [0 .. Len(r) -> Rational]
  <2>1. \A y \in Rational : Plus(x, y) \in Rational
    BY Closed
  <2>2. Zero \in Rational
    BY Constants
  <2>3. \A i \in 1 .. Len(r) : g[i - 1] \in Rational
    BY <1>3
  <2> QED
    BY <2>1, <2>2, <2>3
<1>5. ASSUME NEW i \in 1 .. Len(r) PROVE h[i] = Plus(h[i - 1], r[i])
  <2>1. CASE i = 1
    <3>1. h[1] = Plus(x, g[0]) /\ h[0] = Zero /\ g[0] = Zero
      BY <1>1 DEF PartialSums
    <3>2. Plus(x, Zero) = Plus(Zero, x)
      BY Neutral
    <3> HIDE DEF h
    <3> QED
      BY <2>1, <3>1, <3>2, <1>2
  <2>2. CASE i # 1
    <3>1. PICK j \in 1 .. Len(t) : j = i - 1
      BY <2>2
    <3>2. h[i] = Plus(x, g[j]) /\ h[i - 1] = Plus(x, g[j - 1])
      BY <3>1
    <3>3. g[j] = Plus(g[j - 1], t[j]) /\ r[i] = t[j] /\ g[j - 1] \in Rational /\ t[j] \in Rational
      BY <3>1, <1>1, <1>3 DEF PartialSums
    <3> HIDE DEF h
    <3> QED
      BY <3>2, <3>3, AssociativePlus
  <2> QED
    BY <2>1, <2>2
<1>6. h[Len(r)] = Plus(x, g[Len(t)])
  OBVIOUS
<1>7. Total(r) = h[Len(r)]
  <2>1. h[0] = Zero
    OBVIOUS
  <2> HIDE DEF h
  <2>2. PartialSums(r, h)
    BY <1>4, <1>5, <2>1 DEF PartialSums
  <2> QED
    BY <2>2, TotalIsLastSum
<1> QED
  BY <1>1, <1>2, <1>6, <1>7, TotalIsLastSum

LEMMA TotalOfZeros ==
  ASSUME NEW r \in Seq(Rational), \A i \in 1 .. Len(r) : r[i] = Zero
  PROVE  Total(r) = Zero
<1> DEFINE h == [i \in 0 .. Len(r) |-> Zero]
<1>1. PartialSums(r, h)
  BY Constants, Neutral DEF PartialSums
<1>2. h[Len(r)] = Zero
  OBVIOUS
<1> HIDE DEF h
<1> QED
  BY <1>1, <1>2, TotalIsLastSum

\* The last term by itself.
LEMMA TotalLast ==
  ASSUME NEW r \in Seq(Rational), NEW t \in Seq(Rational), Len(r) = Len(t) + 1,
         \A i \in 1 .. Len(t) : r[i] = t[i]
  PROVE  Total(r) = Plus(Total(t), r[Len(r)])
<1>1. PICK f : PartialSums(r, f)
  BY SumsExist
<1> DEFINE g == [i \in 0 .. Len(t) |-> f[i]]
<1>2. PartialSums(t, g)
  BY <1>1 DEF PartialSums
<1>3. g[Len(t)] = f[Len(t)]
  OBVIOUS
<1> HIDE DEF g
<1>4. Total(t) = f[Len(t)] /\ Total(r) = f[Len(r)]
  BY <1>1, <1>2, <1>3, TotalIsLastSum
<1>5. f[Len(r)] = Plus(f[Len(r) - 1], r[Len(r)]) /\ Len(r) - 1 = Len(t)
  BY <1>1 DEF PartialSums
<1> QED
  BY <1>4, <1>5

LEMMA TotalType ==
  ASSUME NEW r \in Seq(Rational)
  PROVE  Total(r) \in Rational
  BY SumsExist, TotalIsLastSum

LEMMA SequencesOf ==
  ASSUME NEW m \in Nat, NEW f, f \in [1 .. m -> Rational]
  PROVE  f \in Seq(Rational) /\ Len(f) = m
  OBVIOUS

\* A table is summed by rows as by columns.
Transposed(A, l, m) == [j \in 1 .. m |-> [i \in 1 .. l |-> A[i][j]]]
RowTotals(A, l)     == [i \in 1 .. l |-> Total(A[i])]

LEMMA TotalExchange ==
  ASSUME NEW l \in Nat, NEW m \in Nat, NEW A, A \in [1 .. l -> [1 .. m -> Rational]]
  PROVE  Total(RowTotals(A, l)) = Total(RowTotals(Transposed(A, l, m), m))
<1> DEFINE Rows(k)   == [i \in 1 .. k |-> Total(A[i])]
           Col(k, j) == [i \in 1 .. k |-> A[i][j]]
           Cols(k)   == [j \in 1 .. m |-> Total(Col(k, j))]
           S == {k \in Nat : k <= l => Total(Rows(k)) = Total(Cols(k))}
<1>1. \A i \in 1 .. l : A[i] \in Seq(Rational) /\ Len(A[i]) = m /\ Total(A[i]) \in Rational
  BY SequencesOf, TotalType
<1>2. ASSUME NEW k \in 0 .. l PROVE Rows(k) \in Seq(Rational) /\ Len(Rows(k)) = k
  <2>1. Rows(k) \in [1 .. k -> Rational]
    BY <1>1
  <2> HIDE DEF Rows
  <2> QED
    BY <2>1, SequencesOf
<1>3. ASSUME NEW k \in 0 .. l, NEW j \in 1 .. m
      PROVE  Col(k, j) \in Seq(Rational) /\ Len(Col(k, j)) = k /\ Total(Col(k, j)) \in Rational
  <2>1. Col(k, j) \in [1 .. k -> Rational]
    OBVIOUS
  <2> HIDE DEF Col
  <2> QED
    BY <2>1, SequencesOf, TotalType
<1>4. ASSUME NEW k \in 0 .. l PROVE Cols(k) \in Seq(Rational) /\ Len(Cols(k)) = m
  <2> HIDE DEF Col
  <2>1. Cols(k) \in [1 .. m -> Rational]
    BY <1>3
  <2> HIDE DEF Cols
  <2> QED
    BY <2>1, SequencesOf
<1>5. 0 \in S
  <2>1. Total(Rows(0)) = Zero
    <3>1. \A i \in 1 .. Len(Rows(0)) : Rows(0)[i] = Zero
      BY <1>2
    <3> HIDE DEF Rows
    <3> QED
      BY <1>2, <3>1, TotalOfZeros
  <2>2. ASSUME NEW j \in 1 .. m PROVE Total(Col(0, j)) = Zero
    <3>1. \A i \in 1 .. Len(Col(0, j)) : Col(0, j)[i] = Zero
      BY <1>3
    <3> HIDE DEF Col
    <3> QED
      BY <1>3, <3>1, TotalOfZeros
  <2>3. Total(Cols(0)) = Zero
    <3> HIDE DEF Col
    <3>1. \A j \in 1 .. Len(Cols(0)) : Cols(0)[j] = Zero
      BY <1>4, <2>2
    <3> HIDE DEF Cols
    <3> QED
      BY <1>4, <3>1, TotalOfZeros
  <2> HIDE DEF Rows, Cols
  <2> QED
    BY <2>1, <2>3
<1>6. ASSUME NEW k \in Nat, k \in S PROVE k + 1 \in S
  <2> SUFFICES ASSUME k + 1 <= l PROVE Total(Rows(k + 1)) = Total(Cols(k + 1))
    OBVIOUS
  <2>1. k \in 0 .. l /\ k + 1 \in 0 .. l /\ k + 1 \in 1 .. l
    OBVIOUS
  <2>2. Total(Rows(k)) = Total(Cols(k))
    BY <1>6
  <2>3. Total(Rows(k + 1)) = Plus(Total(Rows(k)), Total(A[k + 1]))
    <3>1. \A i \in 1 .. k : Rows(k + 1)[i] = Rows(k)[i]
      OBVIOUS
    <3>2. Rows(k + 1)[k + 1] = Total(A[k + 1])
      OBVIOUS
    <3> HIDE DEF Rows
    <3>3. PICK r \in Seq(Rational), t \in Seq(Rational) :
            r = Rows(k + 1) /\ t = Rows(k) /\ Len(r) = k + 1 /\ Len(t) = k
      BY <2>1, <1>2
    <3>4. Total(r) = Plus(Total(t), r[Len(r)])
      BY <3>1, <3>3, TotalLast
    <3> QED
      BY <3>2, <3>3, <3>4
  <2>4. ASSUME NEW j \in 1 .. m
        PROVE  Total(Col(k + 1, j)) = Plus(Total(Col(k, j)), A[k + 1][j])
    <3>1. /\ Len(Col(k + 1, j)) = Len(Col(k, j)) + 1
          /\ \A i \in 1 .. Len(Col(k, j)) : Col(k + 1, j)[i] = Col(k, j)[i]
          /\ Col(k + 1, j)[Len(Col(k + 1, j))] = A[k + 1][j]
          /\ Col(k, j) \in Seq(Rational) /\ Col(k + 1, j) \in Seq(Rational)
      BY <2>1, <1>3
    <3> HIDE DEF Col
    <3> QED
      BY <3>1, TotalLast
  <2>5. Total(Cols(k + 1)) = Plus(Total(Cols(k)), Total(A[k + 1]))
    <3> HIDE DEF Col
    <3>1. /\ Cols(k + 1) \in Seq(Rational) /\ Len(Cols(k + 1)) = m
          /\ Cols(k) \in Seq(Rational) /\ Len(Cols(k)) = m
          /\ A[k + 1] \in Seq(Rational) /\ Len(A[k + 1]) = m
      BY <2>1, <1>1, <1>4
    <3>2. ASSUME NEW j \in 1 .. m PROVE Cols(k + 1)[j] = Plus(Cols(k)[j], Times(One, A[k + 1][j]))
      <4>1. A[k + 1][j] \in Rational
        BY <2>1
      <4> QED
        BY <2>4, <4>1, Neutral
    <3>3. Total(Cols(k + 1)) = Plus(Total(Cols(k)), Times(One, Total(A[k + 1])))
      <4> HIDE DEF Cols
      <4>1. PICK r \in Seq(Rational), s \in Seq(Rational), t \in Seq(Rational) :
              /\ r = Cols(k + 1) /\ s = Cols(k) /\ t = A[k + 1]
              /\ Len(r) = m /\ Len(s) = m /\ Len(t) = m
        BY <3>1
      <4>2. One \in Rational /\ \A j \in 1 .. Len(r) : r[j] = Plus(s[j], Times(One, t[j]))
        BY <3>2, <4>1, Constants
      <4>3. Total(r) = Plus(Total(s), Times(One, Total(t)))
        BY <4>1, <4>2, TotalLinear
      <4> QED
        BY <4>1, <4>3
    <3>4. Total(A[k + 1]) \in Rational
      BY <2>1, <1>1
    <3> HIDE DEF Cols
    <3> QED
      BY <3>3, <3>4, Neutral
  <2> HIDE DEF Rows, Cols
  <2> QED
    BY <2>2, <2>3, <2>5
<1>7. l \in S
  <2> HIDE DEF S
  <2> QED
    BY <1>5, <1>6, Inductive
<1>8. Total(Rows(l)) = Total(Cols(l))
  <2> HIDE DEF Rows, Cols
  <2> QED
    BY <1>7
<1>9. Rows(l) = RowTotals(A, l)
  BY DEF RowTotals
<1>10. Cols(l) = RowTotals(Transposed(A, l, m), m)
  <2>1. ASSUME NEW j \in 1 .. m PROVE Transposed(A, l, m)[j] = Col(l, j)
    BY DEF Transposed
  <2> HIDE DEF Col
  <2> QED
    BY <2>1 DEF RowTotals
<1> QED
  BY <1>8, <1>9, <1>10

LEMMA TotalScaled ==
  ASSUME NEW r \in Seq(Rational), NEW t \in Seq(Rational), NEW x \in Rational, Len(t) = Len(r),
         \A i \in 1 .. Len(r) : r[i] = Times(x, t[i])
  PROVE  Total(r) = Times(x, Total(t))
<1>1. PICK z \in Seq(Rational) : Len(z) = Len(r) /\ \A i \in 1 .. Len(r) : z[i] = Zero
  <2> DEFINE y == [i \in 1 .. Len(r) |-> Zero]
  <2>1. y \in [1 .. Len(r) -> Rational]
    BY Constants
  <2>2. \A i \in 1 .. Len(r) : y[i] = Zero
    OBVIOUS
  <2> HIDE DEF y
  <2>3. Len(r) \in Nat
    OBVIOUS
  <2> QED
    BY <2>1, <2>2, <2>3, SequencesOf
<1>2. \A i \in 1 .. Len(r) : r[i] = Plus(z[i], Times(x, t[i]))
  <2> SUFFICES ASSUME NEW i \in 1 .. Len(r) PROVE r[i] = Plus(Zero, Times(x, t[i]))
    BY <1>1
  <2>1. r[i] \in Rational
    OBVIOUS
  <2> QED
    BY <2>1, Neutral
<1>3. Total(r) = Plus(Total(z), Times(x, Total(t)))
  BY <1>1, <1>2, TotalLinear
<1>4. Times(x, Total(t)) \in Rational
  BY TotalType, Closed
<1> QED
  BY <1>1, <1>3, <1>4, TotalOfZeros, Neutral

-----------------------------------------------------------------------------
(* Sums with one term or two that are not zero.                            *)
LEMMA TotalOfOne ==
  ASSUME NEW e \in Rational
  PROVE  \E t \in Seq(Rational) : Len(t) = 1 /\ t[1] = e /\ Total(t) = e
<1>1. PICK y : y = [i \in 1 .. 0 |-> Zero]
  OBVIOUS
<1>2. PICK t : t = [i \in 1 .. 1 |-> e]
  OBVIOUS
<1>3. y \in [1 .. 0 -> Rational] /\ t \in [1 .. 1 -> Rational] /\ t[1] = e
  BY <1>1, <1>2
<1>4. y \in Seq(Rational) /\ Len(y) = 0
  BY <1>3, SequencesOf
<1>5. t \in Seq(Rational) /\ Len(t) = 1
  BY <1>3, SequencesOf
<1>6. \A i \in 1 .. Len(y) : y[i] = Zero /\ t[i + 1] = y[i]
  BY <1>4
<1>7. Total(y) = Zero
  BY <1>4, <1>6, TotalOfZeros
<1>8. Len(t) = Len(y) + 1
  BY <1>4, <1>5
<1>9. Total(t) = Plus(t[1], Total(y))
  BY <1>4, <1>5, <1>6, <1>8, TotalHead
<1> QED
  BY <1>3, <1>5, <1>7, <1>9, Neutral

LEMMA TotalOfSingle ==
  ASSUME NEW r \in Seq(Rational), NEW p \in 1 .. Len(r), \A j \in 1 .. Len(r) : j # p => r[j] = Zero
  PROVE  Total(r) = r[p]
<1>1. PICK e \in Rational : e = r[p]
  OBVIOUS
<1>2. PICK t \in Seq(Rational) : Len(t) = 1 /\ t[1] = e /\ Total(t) = e
  BY TotalOfOne
<1>3. p - 1 \in Nat /\ p - 1 + Len(t) <= Len(r)
  BY <1>2
<1>4. \A i \in 1 .. Len(r) : r[i] = IF i - (p - 1) \in 1 .. Len(t) THEN t[i - (p - 1)] ELSE Zero
  <2> SUFFICES ASSUME NEW i \in 1 .. Len(r)
               PROVE  r[i] = IF i - (p - 1) \in 1 .. 1 THEN t[i - (p - 1)] ELSE Zero
    BY <1>2
  <2>1. i - (p - 1) \in 1 .. 1 <=> i = p
    OBVIOUS
  <2>2. p - (p - 1) = 1
    OBVIOUS
  <2> QED
    BY <1>1, <1>2, <2>1, <2>2
<1> QED
  BY <1>1, <1>2, <1>3, <1>4, TotalWindow

LEMMA TotalOfTwo ==
  ASSUME NEW r \in Seq(Rational), NEW f \in 1 .. Len(r), NEW p \in 1 .. Len(r), f # p,
         \A j \in 1 .. Len(r) : j # f /\ j # p => r[j] = Zero
  PROVE  Total(r) = Plus(r[f], r[p])
<1> DEFINE At(e) == [j \in 1 .. Len(r) |-> IF j = e THEN r[e] ELSE Zero]
<1>1. ASSUME NEW e \in 1 .. Len(r)
      PROVE  \E t \in Seq(Rational) : /\ Len(t) = Len(r) /\ Total(t) = r[e] /\ t[e] = r[e]
                                      /\ \A j \in 1 .. Len(r) : j # e => t[j] = Zero
  <2>1. At(e) \in [1 .. Len(r) -> Rational] /\ Len(r) \in Nat
    BY Constants
  <2>2. At(e)[e] = r[e] /\ \A j \in 1 .. Len(r) : j # e => At(e)[j] = Zero
    OBVIOUS
  <2> HIDE DEF At
  <2>3. At(e) \in Seq(Rational) /\ Len(At(e)) = Len(r)
    BY <2>1, SequencesOf
  <2>4. Total(At(e)) = r[e]
    BY <2>2, <2>3, TotalOfSingle
  <2> QED
    BY <2>2, <2>3, <2>4
<1> HIDE DEF At
<1>2. PICK s \in Seq(Rational) : /\ Len(s) = Len(r) /\ Total(s) = r[f] /\ s[f] = r[f]
                                 /\ \A j \in 1 .. Len(r) : j # f => s[j] = Zero
  BY <1>1
<1>3. PICK t \in Seq(Rational) : /\ Len(t) = Len(r) /\ Total(t) = r[p] /\ t[p] = r[p]
                                 /\ \A j \in 1 .. Len(r) : j # p => t[j] = Zero
  BY <1>1
<1>4. ASSUME NEW j \in 1 .. Len(r) PROVE r[j] = Plus(s[j], Times(One, t[j]))
  <2>1. PICK x \in Rational, y \in Rational : x = s[j] /\ y = t[j]
    BY <1>2, <1>3
  <2>2. Times(One, y) = y /\ Plus(x, Zero) = x /\ Plus(Zero, y) = y
    BY Neutral
  <2>3. CASE j = f
    BY <1>2, <1>3, <2>1, <2>2, <2>3
  <2>4. CASE j = p
    BY <1>2, <1>3, <2>1, <2>2, <2>4
  <2>5. CASE j # f /\ j # p
    BY <1>2, <1>3, <2>1, <2>2, <2>5
  <2> QED
    BY <2>3, <2>4, <2>5
<1>5. Total(r) = Plus(Total(s), Times(One, Total(t)))
  BY <1>2, <1>3, <1>4, TotalLinear, Constants
<1>6. r[p] \in Rational
  OBVIOUS
<1> QED
  BY <1>2, <1>3, <1>5, <1>6, Neutral

-----------------------------------------------------------------------------
(* Polynomials against a sequence.                                         *)

\* Term k + 1 of the sequence against the coefficients of a polynomial: zero
\* where the recurrence the polynomial stands for holds.
Products(s, p, k)    == [j \in 1 .. Len(p) |-> Times(p[j], Whole(s[k - j + 2]))]
Convolution(s, p, k) == Total(Products(s, p, k))

\* The part of it that predicts term k + 1 from the terms before it.
Prediction(s, p, k) == [i \in 1 .. Len(p) - 1 |-> Times(p[i + 1], Whole(s[k - i + 1]))]

Monic == {p \in Seq(Rational) : Len(p) >= 1 /\ p[1] = One}

LEMMA ProductsType ==
  ASSUME NEW s \in Seq(Int), NEW p \in Seq(Rational),
         NEW k \in Int, k >= Len(p) - 1, k < Len(s)
  PROVE  /\ Products(s, p, k) \in Seq(Rational) /\ Len(Products(s, p, k)) = Len(p)
         /\ \A j \in 1 .. Len(p) : /\ Products(s, p, k)[j] = Times(p[j], Whole(s[k - j + 2]))
                                   /\ Whole(s[k - j + 2]) \in Rational
         /\ Convolution(s, p, k) \in Rational
<1>1. ASSUME NEW j \in 1 .. Len(p)
      PROVE  Whole(s[k - j + 2]) \in Rational /\ Times(p[j], Whole(s[k - j + 2])) \in Rational
  <2>1. s[k - j + 2] \in Int /\ p[j] \in Rational
    OBVIOUS
  <2>2. Whole(s[k - j + 2]) \in Rational
    BY <2>1, WholeIsFraction
  <2> QED
    BY <2>1, <2>2, Closed
<1>2. Products(s, p, k) \in [1 .. Len(p) -> Rational]
  BY <1>1 DEF Products
<1>3. Products(s, p, k) \in Seq(Rational) /\ Len(Products(s, p, k)) = Len(p)
  BY <1>2, SequencesOf
<1>4. Convolution(s, p, k) \in Rational
  BY <1>3, SumsExist, TotalIsLastSum DEF Convolution
<1> QED
  BY <1>1, <1>3, <1>4 DEF Products

LEMMA ProductsNamed ==
  ASSUME NEW s \in Seq(Int), NEW p \in Seq(Rational), NEW k \in Int, k >= Len(p) - 1, k < Len(s)
  PROVE  \E t \in Seq(Rational) :
           /\ Len(t) = Len(p) /\ Total(t) = Convolution(s, p, k)
           /\ \A j \in 1 .. Len(p) : t[j] = Times(p[j], Whole(s[k - j + 2]))
  BY ProductsType DEF Convolution

LEMMA ConvolutionHead ==
  ASSUME NEW s \in Seq(Int), NEW p \in Monic, NEW k \in Int, k >= Len(p) - 1, k < Len(s)
  PROVE  /\ Prediction(s, p, k) \in Seq(Rational) /\ Len(Prediction(s, p, k)) = Len(p) - 1
         /\ Whole(s[k + 1]) \in Rational /\ Total(Prediction(s, p, k)) \in Rational
         /\ Convolution(s, p, k) = Plus(Whole(s[k + 1]), Total(Prediction(s, p, k)))
<1>1. p \in Seq(Rational) /\ Len(p) \in Nat \ {0} /\ Len(p) - 1 \in Nat /\ p[1] = One /\ s[k + 1] \in Int
  BY DEF Monic
<1>2. PICK r \in Seq(Rational) :
        /\ r = Products(s, p, k) /\ Len(r) = Len(p) /\ Convolution(s, p, k) = Total(r)
        /\ \A j \in 1 .. Len(p) : r[j] = Times(p[j], Whole(s[k - j + 2]))
  BY <1>1, ProductsType DEF Convolution
<1>3. ASSUME NEW i \in 1 .. Len(p) - 1 PROVE r[i + 1] = Prediction(s, p, k)[i] /\ r[i + 1] \in Rational
  <2>1. k - (i + 1) + 2 = k - i + 1 /\ i + 1 \in 1 .. Len(p)
    BY <1>1
  <2> QED
    BY <2>1, <1>2 DEF Prediction
<1>4. Prediction(s, p, k) \in [1 .. Len(p) - 1 -> Rational]
  BY <1>3 DEF Prediction
<1>5. PICK t \in Seq(Rational) : t = Prediction(s, p, k) /\ Len(t) = Len(p) - 1
  <2>1. PICK m : m \in Nat /\ m = Len(p) - 1
    BY <1>1
  <2>2. Prediction(s, p, k) \in Seq(Rational) /\ Len(Prediction(s, p, k)) = m
    BY <1>4, <2>1, SequencesOf
  <2> QED
    BY <2>1, <2>2
<1>6. Total(r) = Plus(r[1], Total(t))
  <2>1. Len(r) = Len(t) + 1 /\ \A i \in 1 .. Len(t) : r[i + 1] = t[i]
    BY <1>1, <1>2, <1>3, <1>5
  <2> QED
    BY <2>1, TotalHead
<1>7. r[1] = Whole(s[k + 1]) /\ Whole(s[k + 1]) \in Rational
  <2>1. k - 1 + 2 = k + 1 /\ 1 \in 1 .. Len(p)
    BY <1>1
  <2>2. r[1] = Times(One, Whole(s[k + 1]))
    BY <2>1, <1>1, <1>2
  <2> QED
    BY <2>2, <1>1, WholeIsFraction, Neutral
<1>8. Total(t) \in Rational
  BY SumsExist, TotalIsLastSum
<1> QED
  BY <1>2, <1>5, <1>6, <1>7, <1>8

\* Where the convolution is zero, the other coefficients, negated, make up
\* the term.
LEMMA Predicts ==
  ASSUME NEW s \in Seq(Int), NEW p \in Monic, NEW k \in Int, k >= Len(p) - 1, k < Len(s)
  PROVE  Convolution(s, p, k) = Zero <=>
           Whole(s[k + 1]) =
             Total([i \in 1 .. Len(p) - 1 |-> Times(Minus(p[i + 1]), Whole(s[k - i + 1]))])
<1> DEFINE r == [i \in 1 .. Len(p) - 1 |-> Times(Minus(p[i + 1]), Whole(s[k - i + 1]))]
           z == [i \in 1 .. Len(p) - 1 |-> Zero]
<1>1. p \in Seq(Rational) /\ Len(p) - 1 \in Nat
  BY DEF Monic
<1>2. PICK t \in Seq(Rational) : t = Prediction(s, p, k) /\ Len(t) = Len(p) - 1 /\ Total(t) \in Rational
  BY ConvolutionHead
<1>3. PICK w \in Rational : w = Whole(s[k + 1]) /\ Convolution(s, p, k) = Plus(w, Total(t))
  BY <1>2, ConvolutionHead
<1>4. ASSUME NEW i \in 1 .. Len(p) - 1 PROVE r[i] \in Rational /\ Plus(r[i], t[i]) = Zero
  <2>1. PICK x \in Rational : x = p[i + 1]
    BY <1>1
  <2>2. PICK y \in Rational : y = Whole(s[k - i + 1])
    <3>1. s[k - i + 1] \in Int
      BY <1>1
    <3> QED
      BY <3>1, WholeIsFraction
  <2>3. r[i] = Times(Minus(x), y) /\ t[i] = Times(x, y)
    BY <2>1, <2>2, <1>2 DEF Prediction
  <2>4. Minus(x) \in Rational /\ Plus(Minus(x), x) = Zero
    BY Opposite
  <2>5. Times(y, Plus(Minus(x), x)) = Plus(Times(y, Minus(x)), Times(y, x))
    BY <2>4, Distributive
  <2>6. Times(y, Minus(x)) = Times(Minus(x), y) /\ Times(y, x) = Times(x, y)
    BY <2>4, Commutative
  <2>7. Times(y, Zero) = Zero
    BY Neutral
  <2>8. Times(Minus(x), y) \in Rational
    BY <2>4, Closed
  <2> HIDE DEF r
  <2> QED
    BY <2>3, <2>4, <2>5, <2>6, <2>7, <2>8
<1>5. r \in Seq(Rational) /\ Len(r) = Len(p) - 1
  <2>1. r \in [1 .. Len(p) - 1 -> Rational]
    BY <1>4
  <2> HIDE DEF r
  <2> QED
    BY <1>1, <2>1, SequencesOf
<1>6. z \in Seq(Rational) /\ Len(z) = Len(p) - 1 /\ \A i \in 1 .. Len(z) : z[i] = Zero
  BY <1>1, Constants
<1> HIDE DEF r, z
<1>7. Total(z) = Zero /\ Total(r) \in Rational
  BY <1>5, <1>6, TotalOfZeros, SumsExist, TotalIsLastSum
<1>8. Plus(Total(r), Total(t)) = Zero
  <2>1. \A i \in 1 .. Len(z) : z[i] = Plus(r[i], Times(One, t[i]))
    <3> SUFFICES ASSUME NEW i \in 1 .. Len(p) - 1 PROVE z[i] = Plus(r[i], Times(One, t[i]))
      BY <1>6
    <3>1. t[i] \in Rational
      BY <1>2
    <3> QED
      BY <3>1, <1>4, <1>6, Neutral
  <2>2. Total(z) = Plus(Total(r), Times(One, Total(t)))
    <3>1. Len(r) = Len(z) /\ Len(t) = Len(z) /\ One \in Rational
      BY <1>2, <1>5, <1>6, Constants
    <3> QED
      BY <3>1, <1>5, <1>6, <2>1, TotalLinear
  <2> QED
    BY <2>2, <1>2, <1>7, Neutral
<1>9. ASSUME Plus(w, Total(t)) = Zero PROVE w = Total(r)
  BY <1>2, <1>7, <1>8, <1>9, Cancellation
<1> QED
  BY <1>3, <1>8, <1>9 DEF r

\* A polynomial plus a multiple of another, moved up by d places, in m places.
Adjusted(p, q, d, x, m) ==
  [k \in 1 .. m |->
     LET old == IF k <= Len(p) THEN p[k] ELSE Zero
     IN  IF k - d \in 1 .. Len(q) THEN Plus(old, Times(x, q[k - d])) ELSE old]

LEMMA AdjustedType ==
  ASSUME NEW p \in Monic, NEW q \in Seq(Rational), NEW d \in Nat \ {0}, NEW x \in Rational,
         NEW m \in Nat, m >= 1
  PROVE  /\ Adjusted(p, q, d, x, m) \in Monic
         /\ Adjusted(p, q, d, x, m) \in Seq(Rational) /\ Len(Adjusted(p, q, d, x, m)) = m
<1> DEFINE old(k) == IF k <= Len(p) THEN p[k] ELSE Zero
<1>1. p \in Seq(Rational) /\ Len(p) \in Nat \ {0} /\ p[1] = One
  BY DEF Monic
<1>2. ASSUME NEW k \in 1 .. m PROVE old(k) \in Rational
  BY <1>1, Constants
<1>3. ASSUME NEW k \in 1 .. m, k - d \in 1 .. Len(q)
      PROVE  Plus(old(k), Times(x, q[k - d])) \in Rational
  <2>1. q[k - d] \in Rational
    BY <1>3
  <2> HIDE DEF old
  <2> QED
    BY <1>2, <2>1, Closed
<1>4. Adjusted(p, q, d, x, m) =
        [k \in 1 .. m |-> IF k - d \in 1 .. Len(q) THEN Plus(old(k), Times(x, q[k - d])) ELSE old(k)]
  BY DEF Adjusted
<1>5. old(1) = One /\ 1 - d \notin 1 .. Len(q)
  BY <1>1
<1> HIDE DEF old
<1>6. Adjusted(p, q, d, x, m) \in [1 .. m -> Rational]
  BY <1>2, <1>3, <1>4
<1>7. Adjusted(p, q, d, x, m)[1] = One
  BY <1>4, <1>5
<1> QED
  BY <1>6, <1>7, SequencesOf DEF Monic

LEMMA AdjustedConvolution ==
  ASSUME NEW s \in Seq(Int), NEW p \in Monic, NEW q \in Monic, NEW d \in Nat \ {0}, NEW x \in Rational,
         NEW m \in Nat, m >= 1, Len(p) <= m, Len(q) + d <= m,
         NEW k \in Int, k >= m - 1, k < Len(s)
  PROVE  /\ Convolution(s, p, k) \in Rational /\ Convolution(s, q, k - d) \in Rational
         /\ Convolution(s, Adjusted(p, q, d, x, m), k) =
              Plus(Convolution(s, p, k), Times(x, Convolution(s, q, k - d)))
<1> DEFINE g == Adjusted(p, q, d, x, m)
           w(j) == Whole(s[k - j + 2])
           u == [j \in 1 .. m |-> IF j <= Len(p) THEN Products(s, p, k)[j] ELSE Zero]
           v == [j \in 1 .. m |->
                   IF j - d \in 1 .. Len(q) THEN Products(s, q, k - d)[j - d] ELSE Zero]
<1>1. /\ p \in Seq(Rational) /\ q \in Seq(Rational) /\ s \in Seq(Int)
      /\ d \in Nat \ {0} /\ x \in Rational
  BY DEF Monic
<1>2. /\ g \in Seq(Rational) /\ Len(g) = m
      /\ \A j \in 1 .. m : g[j] = LET old == IF j <= Len(p) THEN p[j] ELSE Zero
                              IN  IF j - d \in 1 .. Len(q) THEN Plus(old, Times(x, q[j - d])) ELSE old
  <2>1. \A j \in 1 .. m : g[j] = LET old == IF j <= Len(p) THEN p[j] ELSE Zero
                              IN  IF j - d \in 1 .. Len(q) THEN Plus(old, Times(x, q[j - d])) ELSE old
    BY DEF Adjusted
  <2>2. g \in Seq(Rational) /\ Len(g) = m
    <3> HIDE DEF g
    <3>1. g = Adjusted(p, q, d, x, m)
      BY DEF g
    <3> QED
      BY <1>1, <3>1, AdjustedType
  <2> HIDE DEF g
  <2> QED
    BY <2>1, <2>2
<1> HIDE DEF g
<1>3. /\ Products(s, p, k) \in Seq(Rational) /\ Len(Products(s, p, k)) = Len(p)
      /\ \A j \in 1 .. Len(p) : Products(s, p, k)[j] = Times(p[j], w(j))
      /\ Convolution(s, p, k) \in Rational
  <2>1. k >= Len(p) - 1
    BY <1>1, <1>2
  <2> QED
    BY <1>1, <2>1, ProductsType
<1>4. /\ Products(s, q, k - d) \in Seq(Rational) /\ Len(Products(s, q, k - d)) = Len(q)
      /\ \A i \in 1 .. Len(q) : Products(s, q, k - d)[i] = Times(q[i], w(i + d))
      /\ Convolution(s, q, k - d) \in Rational
  <2>1. PICK h \in Int : h = k - d /\ h >= Len(q) - 1 /\ h < Len(s)
    BY <1>1, <1>2
  <2>2. \A i \in 1 .. Len(q) : h - i + 2 = k - (i + d) + 2
    BY <1>1, <2>1
  <2>3. /\ Products(s, q, h) \in Seq(Rational) /\ Len(Products(s, q, h)) = Len(q)
        /\ \A i \in 1 .. Len(q) : Products(s, q, h)[i] = Times(q[i], Whole(s[h - i + 2]))
        /\ Convolution(s, q, h) \in Rational
    BY <1>1, <2>1, ProductsType
  <2> QED
    BY <2>1, <2>2, <2>3
<1>5. /\ Products(s, g, k) \in Seq(Rational) /\ Len(Products(s, g, k)) = m
      /\ \A j \in 1 .. m : /\ Products(s, g, k)[j] = Times(g[j], w(j))
                           /\ w(j) \in Rational
  BY <1>1, <1>2, ProductsType
<1>6. u \in Seq(Rational) /\ Len(u) = m
  <2>1. u \in [1 .. m -> Rational]
    <3> HIDE DEF w
    <3> QED
      BY <1>1, <1>2, <1>3, Constants
  <2> HIDE DEF u
  <2> QED
    BY <2>1, SequencesOf
<1>7. v \in Seq(Rational) /\ Len(v) = m
  <2>1. v \in [1 .. m -> Rational]
    <3> HIDE DEF w
    <3> QED
      BY <1>1, <1>2, <1>4, Constants
  <2> HIDE DEF v
  <2> QED
    BY <2>1, SequencesOf
<1>8. ASSUME NEW j \in 1 .. m
      PROVE  Products(s, g, k)[j] = Plus(u[j], Times(x, v[j]))
  <2> DEFINE old == IF j <= Len(p) THEN p[j] ELSE Zero
  <2>1. PICK a \in Rational : a = w(j)
    BY <1>5
  <2>2. Products(s, g, k)[j] = Times(g[j], a)
    BY <1>5, <2>1
  <2>3. old \in Rational /\ u[j] = Times(old, a)
    <3>1. CASE j <= Len(p)
      <4>1. j \in 1 .. Len(p)
        BY <3>1, <1>1
      <4>2. u[j] = Times(p[j], w(j)) /\ p[j] \in Rational
        BY <4>1, <1>1, <1>2, <1>3
      <4> QED
        BY <3>1, <4>2, <2>1
    <3>2. CASE ~(j <= Len(p))
      <4>1. u[j] = Zero /\ old = Zero
        BY <3>2, <1>2
      <4> QED
        BY <4>1, <2>1, Constants, Neutral
    <3> QED
      BY <3>1, <3>2
  <2>4. CASE j - d \in 1 .. Len(q)
    <3>1. PICK i \in 1 .. Len(q) : i = j - d /\ i + d = j
      BY <2>4, <1>1
    <3>2. v[j] = Times(q[i], a)
      BY <3>1, <1>2, <1>4, <2>1
    <3>3. g[j] = Plus(old, Times(x, q[i]))
      BY <3>1, <1>2
    <3>4. PICK y \in Rational : y = q[i]
      BY <1>1
    <3> HIDE DEF old, u, v, w
    <3>5. PICK z \in Rational : z = Times(x, y)
      BY <1>1, Closed
    <3>6. Times(Plus(old, z), a) = Plus(Times(old, a), Times(z, a))
      <4>1. Plus(old, z) \in Rational
        BY <2>3, Closed
      <4>2. Times(Plus(old, z), a) = Times(a, Plus(old, z))
        BY <4>1, Commutative
      <4>3. Times(a, Plus(old, z)) = Plus(Times(a, old), Times(a, z))
        BY <2>3, Distributive
      <4>4. Times(a, old) = Times(old, a) /\ Times(a, z) = Times(z, a)
        BY <2>3, Commutative
      <4> QED
        BY <4>2, <4>3, <4>4
    <3>7. Times(z, a) = Times(x, Times(y, a))
      BY <1>1, <3>5, AssociativeTimes
    <3> QED
      BY <2>2, <2>3, <3>2, <3>3, <3>4, <3>5, <3>6, <3>7
  <2>5. CASE j - d \notin 1 .. Len(q)
    <3>1. v[j] = Zero
      BY <2>5, <1>2
    <3>2. g[j] = old
      BY <2>5, <1>2
    <3> HIDE DEF old, u, v, w
    <3>3. Times(x, Zero) = Zero
      BY <1>1, Neutral
    <3>4. Times(old, a) \in Rational
      BY <2>3, Closed
    <3>5. Plus(Times(old, a), Zero) = Times(old, a)
      BY <3>4, Neutral
    <3> QED
      BY <2>2, <2>3, <3>1, <3>2, <3>3, <3>5
  <2> QED
    BY <2>4, <2>5
<1>9. Total(u) = Convolution(s, p, k)
  <2>1. \A j \in 1 .. Len(u) : u[j] = IF j - 0 \in 1 .. Len(p) THEN Products(s, p, k)[j - 0] ELSE Zero
    BY <1>1, <1>2, <1>6
  <2>2. 0 + Len(p) <= Len(u)
    BY <1>1, <1>2, <1>6
  <2> HIDE DEF u
  <2> QED
    BY <2>1, <2>2, <1>3, <1>6, TotalWindow DEF Convolution
<1>10. Total(v) = Convolution(s, q, k - d)
  <2>1. \A j \in 1 .. Len(v) : v[j] = IF j - d \in 1 .. Len(q)
                                      THEN Products(s, q, k - d)[j - d] ELSE Zero
    BY <1>1, <1>2, <1>7
  <2>2. d + Len(q) <= Len(v) /\ d \in Nat
    BY <1>1, <1>2, <1>7
  <2> HIDE DEF v
  <2> QED
    BY <2>1, <2>2, <1>4, <1>7, TotalWindow DEF Convolution
<1>11. Convolution(s, g, k) = Plus(Total(u), Times(x, Total(v)))
  <2> HIDE DEF u, v, w
  <2>1. PICK r \in Seq(Rational) : r = Products(s, g, k) /\ Len(r) = m
    BY <1>5
  <2>2. PICK a \in Seq(Rational), e \in Seq(Rational) : a = u /\ e = v
    BY <1>6, <1>7
  <2>3. Len(a) = Len(r) /\ Len(e) = Len(r)
    BY <1>6, <1>7, <2>1, <2>2
  <2>4. \A j \in 1 .. Len(r) : r[j] = Plus(a[j], Times(x, e[j]))
    BY <1>8, <2>1, <2>2
  <2>5. Total(r) = Plus(Total(a), Times(x, Total(e)))
    BY <2>3, <2>4, TotalLinear
  <2> QED
    BY <2>1, <2>5, <2>2 DEF Convolution
<1> QED
  BY <1>3, <1>4, <1>9, <1>10, <1>11 DEF g

-----------------------------------------------------------------------------
(* Massey's theorem.                                                       *)

-----------------------------------------------------------------------------
(* Massey's theorem.                                                       *)
Generates(s, p, m) == \A k \in Len(p) - 1 .. m - 1 : Convolution(s, p, k) = Zero

\* The convolution of p and q with the sequence, summed by rows.
LEMMA TableRows ==
  ASSUME NEW s \in Seq(Int), NEW p \in Monic, NEW q \in Monic, NEW m \in Nat, m < Len(s),
         Len(p) + Len(q) - 2 <= m, Generates(s, q, m),
         NEW A, A \in [1 .. Len(p) -> [1 .. Len(q) -> Rational]],
         \A i \in 1 .. Len(p), j \in 1 .. Len(q) :
           A[i][j] = Times(p[i], Times(q[j], Whole(s[m - i - j + 3])))
  PROVE  Total(RowTotals(A, Len(p))) = Convolution(s, q, m)
<1> DEFINE r == [i \in 1 .. Len(p) |-> Total(A[i])]
           t == <<Convolution(s, q, m)>>
<1>1. /\ p \in Seq(Rational) /\ q \in Seq(Rational) /\ p[1] = One
      /\ Len(p) \in Nat \ {0} /\ Len(q) \in Nat \ {0}
  BY DEF Monic
<1>2. ASSUME NEW i \in 1 .. Len(p)
      PROVE  /\ Convolution(s, q, m - i + 1) \in Rational
             /\ Total(A[i]) = Times(p[i], Convolution(s, q, m - i + 1))
  <2>1. PICK k \in Int : k = m - i + 1 /\ k >= Len(q) - 1 /\ k < Len(s)
    BY <1>1
  <2>2. PICK v \in Seq(Rational) :
          /\ v = Products(s, q, k) /\ Len(v) = Len(q) /\ Total(v) = Convolution(s, q, k)
          /\ \A j \in 1 .. Len(q) : v[j] = Times(q[j], Whole(s[k - j + 2]))
    BY <1>1, <2>1, ProductsType DEF Convolution
  <2>3. PICK u \in Seq(Rational) : u = A[i] /\ Len(u) = Len(q)
    BY <1>1, SequencesOf
  <2>4. PICK x \in Rational : x = p[i]
    BY <1>1
  <2>5. ASSUME NEW j \in 1 .. Len(u) PROVE u[j] = Times(x, v[j])
    <3>1. k - j + 2 = m - i - j + 3
      BY <1>1, <2>1, <2>3
    <3> QED
      BY <3>1, <2>2, <2>3, <2>4
  <2>6. Total(u) = Times(x, Total(v))
    BY <2>2, <2>3, <2>5, TotalScaled
  <2>7. Total(v) \in Rational
    BY TotalType
  <2> QED
    BY <2>1, <2>2, <2>3, <2>4, <2>6, <2>7
<1>3. ASSUME NEW i \in 1 .. Len(p) PROVE r[i] = IF i = 1 THEN Convolution(s, q, m) ELSE Zero
  <2>1. CASE i = 1
    <3>1. m - 1 + 1 = m /\ p[1] = One
      BY <1>1
    <3>2. Convolution(s, q, m) \in Rational /\ r[1] = Times(One, Convolution(s, q, m))
      BY <3>1, <2>1, <1>2
    <3> QED
      BY <3>2, <2>1, Neutral
  <2>2. CASE i # 1
    <3>1. m - i + 1 \in Len(q) - 1 .. m - 1
      BY <2>2, <1>1
    <3>2. Convolution(s, q, m - i + 1) = Zero /\ p[i] \in Rational
      BY <3>1, <1>1 DEF Generates
    <3>3. r[i] = Times(p[i], Zero)
      BY <3>2, <1>2
    <3> QED
      BY <3>2, <3>3, <2>2, Neutral
  <2> QED
    BY <2>1, <2>2
<1>4. r \in Seq(Rational) /\ Len(r) = Len(p)
  <2>1. \A i \in 1 .. Len(p) : p[i] \in Rational
    BY <1>1
  <2>2. r \in [1 .. Len(p) -> Rational]
    BY <1>2, <2>1, Closed
  <2>3. Len(p) \in Nat
    BY <1>1
  <2> HIDE DEF r
  <2> QED
    BY <2>2, <2>3, SequencesOf
<1>5. PICK w \in Rational : w = Convolution(s, q, m)
  <2>1. 1 \in 1 .. Len(p) /\ m - 1 + 1 = m
    BY <1>1
  <2> QED
    BY <2>1, <1>2
<1> HIDE DEF r
<1>6. Total(r) = w
  <2>1. PICK y \in Seq(Rational) : y = r
    BY <1>4
  <2>2. 1 \in 1 .. Len(y) /\ y[1] = w /\ \A i \in 1 .. Len(y) : i # 1 => y[i] = Zero
    BY <1>1, <1>3, <1>4, <1>5, <2>1
  <2>3. Total(y) = y[1]
    BY <2>2, TotalOfSingle
  <2> QED
    BY <2>1, <2>2, <2>3
<1> QED
  BY <1>5, <1>6 DEF r, RowTotals

\* Two recurrences that both reproduce the first m terms, which outnumber
\* their orders together, agree on the next term.
LEMMA Massey ==
  ASSUME NEW s \in Seq(Int), NEW p \in Monic, NEW q \in Monic, NEW m \in Nat, m < Len(s),
         Len(p) + Len(q) - 2 <= m, Generates(s, p, m), Generates(s, q, m)
  PROVE  Convolution(s, p, m) = Convolution(s, q, m)
<1> DEFINE A == [i \in 1 .. Len(p) |-> [j \in 1 .. Len(q) |-> Times(p[i], Times(q[j], Whole(s[m - i - j + 3])))]]
           B == Transposed(A, Len(p), Len(q))
<1>1. /\ p \in Seq(Rational) /\ q \in Seq(Rational)
      /\ Len(p) \in Nat \ {0} /\ Len(q) \in Nat \ {0}
  BY DEF Monic
<1>2. ASSUME NEW i \in 1 .. Len(p), NEW j \in 1 .. Len(q)
      PROVE  /\ Times(p[i], Times(q[j], Whole(s[m - i - j + 3]))) \in Rational
             /\ A[i][j] = Times(p[i], Times(q[j], Whole(s[m - i - j + 3])))
             /\ A[i][j] = Times(q[j], Times(p[i], Whole(s[m - j - i + 3])))
  <2>1. s[m - i - j + 3] \in Int /\ m - i - j + 3 = m - j - i + 3
    BY <1>1
  <2>2. PICK x \in Rational, y \in Rational, z \in Rational :
          x = p[i] /\ y = q[j] /\ z = Whole(s[m - i - j + 3])
    BY <1>1, <2>1, WholeIsFraction
  <2>3. Times(x, Times(y, z)) \in Rational
    BY Closed
  <2>4. Times(x, Times(y, z)) = Times(y, Times(x, z))
    BY AssociativeTimes, Commutative
  <2>5. A[i][j] = Times(p[i], Times(q[j], Whole(s[m - i - j + 3])))
    OBVIOUS
  <2> HIDE DEF A
  <2> QED
    BY <2>1, <2>2, <2>3, <2>4, <2>5
<1>3. A \in [1 .. Len(p) -> [1 .. Len(q) -> Rational]]
  BY <1>2
<1> HIDE DEF A
<1>4. \A i \in 1 .. Len(p), j \in 1 .. Len(q) : B[j][i] = A[i][j]
  BY DEF Transposed
<1>5. B \in [1 .. Len(q) -> [1 .. Len(p) -> Rational]]
  BY <1>3 DEF Transposed
<1>6. Total(RowTotals(A, Len(p))) = Total(RowTotals(B, Len(q)))
  <2>1. Len(p) \in Nat /\ Len(q) \in Nat
    BY <1>1
  <2> QED
    BY <2>1, <1>3, TotalExchange
<1> HIDE DEF B
<1>7. Total(RowTotals(A, Len(p))) = Convolution(s, q, m)
  BY <1>2, <1>3, TableRows
<1>8. Total(RowTotals(B, Len(q))) = Convolution(s, p, m)
  <2>1. \A j \in 1 .. Len(q), i \in 1 .. Len(p) :
          B[j][i] = Times(q[j], Times(p[i], Whole(s[m - j - i + 3])))
    BY <1>2, <1>4
  <2>2. Len(q) + Len(p) - 2 <= m
    BY <1>1
  <2> QED
    BY <2>1, <2>2, <1>5, TableRows, SMTT(30)
<1> QED
  BY <1>6, <1>7, <1>8

\* The coefficients q reproduce the first m terms of s.
Reproduces(q, s, m) ==
  \A k \in Len(q) .. m - 1 :
    Whole(s[k + 1]) = Total([i \in 1 .. Len(q) |-> Times(q[i], Whole(s[k - i + 1]))])

\* The polynomial a list of coefficients stands for.
PolynomialOf(q) == [j \in 1 .. Len(q) + 1 |-> IF j = 1 THEN One ELSE Minus(q[j - 1])]

LEMMA PolynomialOfGenerates ==
  ASSUME NEW s \in Seq(Int), NEW q \in Seq(Rational), NEW m \in Nat, m <= Len(s)
  PROVE  /\ PolynomialOf(q) \in Monic /\ Len(PolynomialOf(q)) = Len(q) + 1
         /\ Generates(s, PolynomialOf(q), m) <=> Reproduces(q, s, m)
<1> DEFINE p == PolynomialOf(q)
<1>1. ASSUME NEW i \in 1 .. Len(q) PROVE q[i] \in Rational /\ Minus(q[i]) \in Rational /\ Minus(Minus(q[i])) = q[i]
  <2>1. q[i] \in Rational
    OBVIOUS
  <2> QED
    BY <2>1, MinusTwice
<1>2. p \in Monic /\ Len(p) = Len(q) + 1 /\ Len(q) \in Nat
  <2>1. p \in [1 .. Len(q) + 1 -> Rational]
    <3>1. \A j \in 1 .. Len(q) + 1 : j # 1 => Minus(q[j - 1]) \in Rational
      BY <1>1
    <3> QED
      BY <3>1, Constants DEF PolynomialOf
  <2>2. p[1] = One
    BY DEF PolynomialOf
  <2>3. Len(q) + 1 \in Nat /\ Len(q) \in Nat
    OBVIOUS
  <2> HIDE DEF p
  <2>4. p \in Seq(Rational) /\ Len(p) = Len(q) + 1
    BY <2>1, <2>3, SequencesOf
  <2> QED
    BY <2>2, <2>3, <2>4 DEF Monic
<1>3. \A i \in 1 .. Len(q) : Minus(p[i + 1]) = q[i]
  BY <1>1 DEF PolynomialOf
<1> HIDE DEF p
<1>4. ASSUME NEW k \in Len(q) .. m - 1
      PROVE  Convolution(s, p, k) = Zero <=>
               Whole(s[k + 1]) = Total([i \in 1 .. Len(q) |-> Times(q[i], Whole(s[k - i + 1]))])
  <2>1. k \in Int /\ k >= Len(p) - 1 /\ k < Len(s) /\ Len(p) - 1 = Len(q)
    BY <1>2
  <2>2. Convolution(s, p, k) = Zero <=>
          Whole(s[k + 1]) = Total([i \in 1 .. Len(q) |-> Times(Minus(p[i + 1]), Whole(s[k - i + 1]))])
    BY <1>2, <2>1, Predicts
  <2>3. [i \in 1 .. Len(q) |-> Times(Minus(p[i + 1]), Whole(s[k - i + 1]))] =
          [i \in 1 .. Len(q) |-> Times(q[i], Whole(s[k - i + 1]))]
    BY <1>3
  <2> QED
    BY <2>2, <2>3
<1>5. Generates(s, p, m) <=> Reproduces(q, s, m)
  <2>1. Len(p) - 1 = Len(q)
    BY <1>2
  <2> QED
    BY <2>1, <1>4 DEF Generates, Reproduces
<1> QED
  BY <1>2, <1>5 DEF p

-----------------------------------------------------------------------------
(* When a recurrence is the only one of its order.                         *)

\* With Massey's theorem a recurrence that reproduces the beginning goes on
\* to reproduce what another does, once the terms outnumber both orders.
LEMMA GoesOn ==
  ASSUME NEW s \in Seq(Int), NEW p \in Monic, NEW q \in Monic, NEW l \in Nat, NEW m \in Nat,
         m <= Len(s), Generates(s, p, m), Generates(s, q, l), Len(p) + Len(q) - 2 <= l
  PROVE  Generates(s, q, m)
<1> DEFINE S == {e \in Nat : l + e <= m => Generates(s, q, l + e)}
<1>1. Len(p) \in Nat \ {0} /\ Len(q) \in Nat \ {0}
  BY DEF Monic
<1>2. 0 \in S
  OBVIOUS
<1>3. ASSUME NEW e \in Nat, e \in S PROVE e + 1 \in S
  <2> SUFFICES ASSUME l + (e + 1) <= m PROVE Generates(s, q, l + (e + 1))
    OBVIOUS
  <2>1. PICK h \in Nat : h = l + e /\ h < m /\ Generates(s, q, h)
    BY <1>3
  <2>2. Generates(s, p, h)
    BY <2>1 DEF Generates
  <2>3. Convolution(s, q, h) = Convolution(s, p, h)
    BY <2>1, <2>2, Massey
  <2>4. Convolution(s, p, h) = Zero
    <3>1. h \in Len(p) - 1 .. m - 1
      BY <1>1, <2>1
    <3> QED
      BY <3>1 DEF Generates
  <2>5. \A k \in Len(q) - 1 .. h : Convolution(s, q, k) = Zero
    <3> SUFFICES ASSUME NEW k \in Len(q) - 1 .. h PROVE Convolution(s, q, k) = Zero
      OBVIOUS
    <3>1. k = h \/ k \in Len(q) - 1 .. h - 1
      BY <2>1
    <3> QED
      BY <3>1, <2>1, <2>3, <2>4 DEF Generates
  <2>6. l + (e + 1) - 1 = h
    BY <2>1
  <2> QED
    BY <2>5, <2>6 DEF Generates
<1>4. Nat \subseteq S
  <2> HIDE DEF S
  <2> QED
    BY <1>2, <1>3, Inductive
<1>5. CASE m <= l
  BY <1>5 DEF Generates
<1>6. CASE m > l
  <2>1. l + (m - l) = m /\ m - l \in Nat
    BY <1>6
  <2>2. m - l \in S
    <3> HIDE DEF S
    <3> QED
      BY <1>4, <2>1
  <2> QED
    BY <2>2, <2>1
<1> QED
  BY <1>5, <1>6

\* The difference of two polynomials, from its first coefficient on, made monic.
LEMMA DifferenceGenerates ==
  ASSUME NEW s \in Seq(Int), NEW p \in Monic, NEW q \in Monic, Len(p) = Len(q),
         NEW e \in 2 .. Len(p), p[e] # q[e], \A j \in 1 .. e - 1 : p[j] = q[j],
         NEW m \in Nat, m <= Len(s), Generates(s, p, m), Generates(s, q, m)
  PROVE  \E r \in Monic : Len(r) = Len(p) - e + 1 /\ Generates(s, r, m - e + 1)
<1>1. /\ p \in Seq(Rational) /\ q \in Seq(Rational) /\ Len(p) \in Nat \ {0} /\ e \in Nat
      /\ p[1] = One /\ q[1] = One
  BY DEF Monic
<1>2. PICK size : size \in Nat /\ size = Len(p) - e + 1 /\ size >= 1
  <2>1. Len(p) - e + 1 \in Nat /\ Len(p) - e + 1 >= 1
    BY <1>1
  <2> QED
    BY <2>1
<1> DEFINE D(j) == Plus(p[j], Minus(q[j]))
<1>3. ASSUME NEW j \in 1 .. Len(p)
      PROVE  /\ D(j) \in Rational /\ p[j] \in Rational /\ q[j] \in Rational
             /\ p[j] = q[j] <=> D(j) = Zero
  <2>1. p[j] \in Rational /\ q[j] \in Rational
    BY <1>1
  <2> QED
    BY <2>1, Opposite, Closed, DifferenceIsZero
<1>4. PICK x \in Rational : x = D(e) /\ x # Zero
  BY <1>1, <1>3
<1> DEFINE r == [j \in 1 .. size |-> Divide(D(j + e - 1), x)]
<1>5. ASSUME NEW j \in 1 .. size
      PROVE  r[j] \in Rational /\ Times(x, r[j]) = D(j + e - 1)
  <2>1. j + e - 1 \in 1 .. Len(p)
    BY <1>1, <1>2
  <2>2. D(j + e - 1) \in Rational
    BY <2>1, <1>3
  <2>3. PICK y \in Rational : y = D(j + e - 1)
    BY <2>2
  <2>4. Divide(y, x) \in Rational /\ Times(Divide(y, x), x) = y
    BY <1>4, Quotient
  <2>5. Times(x, Divide(y, x)) = y
    BY <2>4, Commutative
  <2>6. r[j] = Divide(y, x)
    BY <2>3
  <2> HIDE DEF r, D
  <2> QED
    BY <2>3, <2>4, <2>5, <2>6
<1>6. r \in Seq(Rational) /\ Len(r) = size /\ size \in Nat /\ size >= 1
  <2>1. r \in [1 .. size -> Rational]
    BY <1>5
  <2> HIDE DEF r
  <2> QED
    BY <1>2, <2>1, SequencesOf
<1>7. r[1] = One
  <2>1. r[1] = Divide(x, x)
    BY <1>4, <1>6, <1>1
  <2> HIDE DEF r
  <2> QED
    BY <2>1, <1>4, QuotientOfSelf
<1>8. r \in Monic
  BY <1>6, <1>7 DEF Monic
<1>9. ASSUME NEW k \in size - 1 .. m - e PROVE Convolution(s, r, k) = Zero
  <2> DEFINE h == k + e - 1
  <2>1. /\ h \in Int /\ h >= Len(p) - 1 /\ h < Len(s) /\ h \in Len(p) - 1 .. m - 1
        /\ k \in Int /\ k >= size - 1 /\ k < Len(s)
    BY <1>1, <1>2
  <2> HIDE DEF h
  <2>2. PICK u \in Seq(Rational) :
          /\ Len(u) = Len(p) /\ Total(u) = Zero
          /\ \A j \in 1 .. Len(p) : u[j] = Times(p[j], Whole(s[h - j + 2]))
    BY <1>1, <2>1, ProductsNamed DEF Generates
  <2>3. PICK v \in Seq(Rational) :
          /\ Len(v) = Len(p) /\ Total(v) = Zero
          /\ \A j \in 1 .. Len(p) : v[j] = Times(q[j], Whole(s[h - j + 2]))
    <3> HIDE DEF r, D
    <3>1. Convolution(s, q, h) = Zero /\ h >= Len(q) - 1
      BY <2>1 DEF Generates
    <3>2. PICK v \in Seq(Rational) :
          /\ Len(v) = Len(q) /\ Total(v) = Convolution(s, q, h)
          /\ \A j \in 1 .. Len(q) : v[j] = Times(q[j], Whole(s[h - j + 2]))
      BY <1>1, <2>1, <3>1, ProductsNamed
    <3> QED
      BY <3>1, <3>2
  <2>4. PICK t \in Seq(Rational) :
          /\ Len(t) = size /\ Total(t) = Convolution(s, r, k)
          /\ \A j \in 1 .. size : t[j] = Times(r[j], Whole(s[k - j + 2]))
    <3> HIDE DEF r, D
    <3>1. PICK y \in Seq(Rational) : y = r /\ Len(y) = size
      BY <1>6
    <3>2. k \in Int /\ k >= Len(y) - 1 /\ k < Len(s)
      BY <2>1, <3>1
    <3>3. PICK t \in Seq(Rational) :
            /\ Len(t) = Len(y) /\ Total(t) = Convolution(s, y, k)
            /\ \A j \in 1 .. Len(y) : t[j] = Times(y[j], Whole(s[k - j + 2]))
      BY <3>2, ProductsNamed
    <3> QED
      BY <3>1, <3>3
  <2> DEFINE w == [j \in 1 .. Len(p) |-> IF j < e THEN Zero ELSE Times(x, t[j - e + 1])]
             y == [j \in 1 .. Len(p) |-> IF j < e THEN Zero ELSE t[j - e + 1]]
  <2>5. \A j \in 1 .. Len(p) : j >= e => j - e + 1 \in 1 .. size /\ t[j - e + 1] \in Rational
    <3> HIDE DEF r, D, w, y
    <3>1. \A j \in 1 .. Len(p) : j >= e => j - e + 1 \in 1 .. size
      BY <1>1, <1>2
    <3> QED
      BY <2>4, <3>1
  <2>6. w \in Seq(Rational) /\ Len(w) = Len(p)
    <3> HIDE DEF r, D
    <3>1. \A j \in 1 .. Len(p) : j >= e => Times(x, t[j - e + 1]) \in Rational
      BY <1>4, <2>5, Closed
    <3>2. w \in [1 .. Len(p) -> Rational]
      BY <3>1, <1>1, Constants
    <3> HIDE DEF w
    <3> QED
      BY <3>2, <1>1, SequencesOf
  <2>7. y \in Seq(Rational) /\ Len(y) = Len(p)
    <3> HIDE DEF r, D, w
    <3>1. y \in [1 .. Len(p) -> Rational]
      BY <2>5, <1>1, Constants
    <3> HIDE DEF y
    <3> QED
      BY <3>1, <1>1, SequencesOf
  <2>8. ASSUME NEW j \in 1 .. Len(p) PROVE u[j] = Plus(v[j], Times(One, w[j]))
    <3>1. PICK z \in Rational : z = Whole(s[h - j + 2])
      BY <1>1, <2>1, ProductsType
    <3>2. PICK a \in Rational, b \in Rational : a = p[j] /\ b = q[j]
      BY <1>3
    <3>3. u[j] = Times(a, z) /\ v[j] = Times(b, z)
      BY <2>2, <2>3, <3>1, <3>2
    <3>4. Times(D(j), z) \in Rational /\ Times(a, z) = Plus(Times(b, z), Times(D(j), z))
      BY <3>2, DifferenceTimes
    <3>5. w[j] = Times(D(j), z)
      <4>1. CASE j < e
        <5>1. D(j) = Zero
          BY <4>1, <1>1, <1>3
        <5>2. w[j] = Zero
          BY <4>1
        <5> HIDE DEF D, w
        <5> QED
          BY <5>1, <5>2, Neutral
      <4>2. CASE j >= e
        <5>1. PICK i \in 1 .. size : i = j - e + 1 /\ i + e - 1 = j /\ k - i + 2 = h - j + 2
          BY <4>2, <2>5, <1>1, <2>1 DEF h
        <5>2. t[i] = Times(r[i], z)
          <6> HIDE DEF D, w, r
          <6> QED
            BY <5>1, <2>4, <3>1
        <5>3. w[j] = Times(x, t[i])
          <6> HIDE DEF D, r
          <6> QED
            BY <5>1, <4>2, <1>1
        <5>4. r[i] \in Rational /\ Times(x, r[i]) = D(j)
          BY <5>1, <1>5
        <5> HIDE DEF D, w, r
        <5>5. Times(x, Times(r[i], z)) = Times(Times(x, r[i]), z)
          BY <5>4, AssociativeTimes
        <5> QED
          BY <5>2, <5>3, <5>4, <5>5
      <4> QED
        BY <4>1, <4>2, <1>1
    <3> HIDE DEF D, w
    <3> QED
      BY <3>3, <3>4, <3>5, Neutral
  <2>9. Total(w) = Times(x, Total(y))
    <3>1. \A j \in 1 .. Len(p) : w[j] = Times(x, y[j])
      BY <1>4, Neutral
    <3> HIDE DEF w, y
    <3> QED
      BY <3>1, <1>4, <2>6, <2>7, TotalScaled
  <2>10. Total(y) = Total(t)
    <3>1. \A j \in 1 .. Len(p) : y[j] = IF j - (e - 1) \in 1 .. Len(t) THEN t[j - (e - 1)] ELSE Zero
      <4> HIDE DEF w, r, D
      <4> QED
        BY <1>1, <1>2, <2>4
    <3>2. e - 1 \in Nat /\ (e - 1) + Len(t) <= Len(p)
      BY <1>1, <1>2, <2>4
    <3> HIDE DEF y
    <3> QED
      BY <3>1, <3>2, <2>7, TotalWindow
  <2>11. Total(u) = Plus(Total(v), Times(One, Total(w)))
    <3> HIDE DEF w, y, r, D
    <3>1. PICK i \in Seq(Rational) : i = w
      BY <2>6
    <3>2. Len(v) = Len(u) /\ Len(i) = Len(u) /\ One \in Rational
      BY <2>2, <2>3, <2>6, <3>1, Constants
    <3>3. \A j \in 1 .. Len(u) : u[j] = Plus(v[j], Times(One, i[j]))
      BY <2>2, <2>8, <3>1
    <3>4. Total(u) = Plus(Total(v), Times(One, Total(i)))
      BY <3>2, <3>3, TotalOfSums, Zenon
    <3> QED
      BY <3>1, <3>4
  <2>12. PICK f \in Rational : f = Total(t)
    BY TotalType
  <2>13. Times(x, f) = Zero
    <3> HIDE DEF w, y
    <3>1. Times(x, f) \in Rational
      BY <1>4, Closed
    <3>2. Total(w) = Times(x, f)
      BY <2>9, <2>10, <2>12
    <3>3. Zero = Plus(Zero, Times(One, Times(x, f)))
      BY <2>2, <2>3, <2>11, <3>2
    <3> HIDE DEF D
    <3> QED
      BY <3>1, <3>3, Neutral
  <2> QED
    BY <1>4, <2>4, <2>12, <2>13, NoZeroDivisors
<1>10. Generates(s, r, m - e + 1)
  <2>1. m - e + 1 - 1 = m - e
    BY <1>1
  <2> HIDE DEF r
  <2> QED
    BY <2>1, <1>6, <1>9 DEF Generates
<1> HIDE DEF r
<1> QED
  BY <1>2, <1>6, <1>8, <1>10

\* The shortest recurrence is the only one of its order when there are at
\* least twice as many terms.
LEMMA ShortestIsUnique ==
  ASSUME NEW s \in Seq(Int), NEW p \in Monic, NEW q \in Monic, Len(p) = Len(q),
         NEW m \in Nat, m <= Len(s), 2 * (Len(p) - 1) <= m,
         Generates(s, p, m), Generates(s, q, m),
         \A r \in Monic : Generates(s, r, m) => Len(r) >= Len(p)
  PROVE  p = q
<1>1. /\ p \in Seq(Rational) /\ q \in Seq(Rational) /\ Len(p) \in Nat \ {0}
      /\ p[1] = One /\ q[1] = One
  BY DEF Monic
<1> SUFFICES ASSUME p # q PROVE FALSE
  OBVIOUS
<1> DEFINE T == {j \in 1 .. Len(p) : p[j] # q[j]}
<1>2. T # {}
  BY <1>1
<1>3. PICK e \in T : \A j \in T : e <= j
  <2>1. T \in SUBSET Nat
    OBVIOUS
  <2> HIDE DEF T
  <2> QED
    BY <1>2, <2>1, LeastNatural
<1>4. e \in 2 .. Len(p) /\ p[e] # q[e] /\ \A j \in 1 .. e - 1 : p[j] = q[j]
  BY <1>1, <1>3
<1>5. PICK r \in Monic : Len(r) = Len(p) - e + 1 /\ Generates(s, r, m - e + 1)
  BY <1>4, DifferenceGenerates
<1>6. Generates(s, r, m)
  <2>1. PICK l \in Nat : l = m - e + 1
    BY <1>1, <1>4
  <2>2. Len(p) + Len(r) - 2 <= l
    BY <1>1, <1>4, <1>5, <2>1
  <2> QED
    BY <1>5, <2>1, <2>2, GoesOn
<1> QED
  BY <1>1, <1>4, <1>5, <1>6

\* Of an order beyond the shortest recurrence's there are several.
LEMMA LongerIsNotUnique ==
  ASSUME NEW s \in Seq(Int), NEW p \in Monic, NEW m \in Nat, m <= Len(s), Generates(s, p, m),
         NEW size \in Nat, size > Len(p)
  PROVE  \E q \in Monic, r \in Monic :
           /\ Len(q) = size /\ Len(r) = size /\ q # r
           /\ Generates(s, q, m) /\ Generates(s, r, m)
<1> DEFINE G(x) == Adjusted(p, p, 1, x, size)
<1>1. p \in Seq(Rational) /\ Len(p) \in Nat \ {0} /\ p[1] = One /\ Zero \in Rational /\ One \in Rational
  BY Constants DEF Monic
<1>2. ASSUME NEW x \in Rational
      PROVE  G(x) \in Monic /\ Len(G(x)) = size
  BY <1>1, AdjustedType
<1>3. ASSUME NEW x \in Rational, NEW k \in size - 1 .. m - 1
      PROVE  Convolution(s, G(x), k) = Zero
  <2>1. /\ k \in Int /\ k >= size - 1 /\ k < Len(s) /\ size >= 1 /\ Len(p) <= size /\ Len(p) + 1 <= size
        /\ k \in Len(p) - 1 .. m - 1 /\ k - 1 \in Len(p) - 1 .. m - 1 /\ 1 \in Nat \ {0}
    BY <1>1
  <2>2. Convolution(s, G(x), k) = Plus(Convolution(s, p, k), Times(x, Convolution(s, p, k - 1)))
    BY <2>1, AdjustedConvolution
  <2>3. Convolution(s, p, k) = Zero /\ Convolution(s, p, k - 1) = Zero
    BY <2>1 DEF Generates
  <2> HIDE DEF G
  <2> QED
    BY <2>2, <2>3, <1>1, Neutral
<1>4. ASSUME NEW x \in Rational PROVE Generates(s, G(x), m)
  <2> HIDE DEF G
  <2> QED
    BY <1>2, <1>3 DEF Generates
<1>5. PICK old \in Rational : \A x \in Rational : G(x)[2] = Plus(old, x)
  <2>1. PICK old \in Rational : old = IF 2 <= Len(p) THEN p[2] ELSE Zero
    BY <1>1
  <2>2. ASSUME NEW x \in Rational PROVE G(x)[2] = Plus(old, x)
    <3>1. 2 \in 1 .. size /\ 2 - 1 \in 1 .. Len(p) /\ 2 - 1 = 1
      BY <1>1
    <3>2. G(x)[2] = Plus(old, Times(x, p[2 - 1]))
      BY <2>1, <3>1 DEF Adjusted
    <3>3. Times(x, One) = x
      BY Neutral
    <3> HIDE DEF G
    <3> QED
      BY <1>1, <3>1, <3>2, <3>3
  <2> HIDE DEF G
  <2> QED
    BY <2>2
<1> HIDE DEF G
<1>6. G(Zero) # G(One)
  <2> SUFFICES ASSUME G(Zero) = G(One) PROVE FALSE
    OBVIOUS
  <2>1. Plus(old, Zero) = Plus(old, One)
    BY <1>1, <1>5
  <2>2. PICK z \in Rational : z = Minus(old) /\ Plus(z, old) = Zero
    BY Opposite
  <2>3. Plus(Plus(z, old), Zero) = Plus(Plus(z, old), One)
    BY <2>1, <1>1, AssociativePlus
  <2> QED
    BY <2>2, <2>3, <1>1, Neutral, Constants
<1> QED
  BY <1>1, <1>2, <1>4, <1>6

\* The list of coefficients a monic polynomial stands for.
CoefficientsOf(p) == [i \in 1 .. Len(p) - 1 |-> Minus(p[i + 1])]

LEMMA CoefficientsOfPolynomial ==
  ASSUME NEW p \in Monic
  PROVE  /\ CoefficientsOf(p) \in Seq(Rational) /\ Len(CoefficientsOf(p)) = Len(p) - 1
         /\ PolynomialOf(CoefficientsOf(p)) = p
<1>1. p \in Seq(Rational) /\ Len(p) \in Nat \ {0} /\ Len(p) - 1 \in Nat /\ p[1] = One
  BY DEF Monic
<1>2. ASSUME NEW i \in 1 .. Len(p) - 1
      PROVE  Minus(p[i + 1]) \in Rational /\ Minus(Minus(p[i + 1])) = p[i + 1]
  <2>1. p[i + 1] \in Rational
    BY <1>1
  <2> QED
    BY <2>1, MinusTwice
<1>3. CoefficientsOf(p) \in [1 .. Len(p) - 1 -> Rational]
  BY <1>2 DEF CoefficientsOf
<1>4. CoefficientsOf(p) \in Seq(Rational) /\ Len(CoefficientsOf(p)) = Len(p) - 1
  BY <1>1, <1>3, SequencesOf
<1>5. ASSUME NEW j \in 1 .. Len(p), j # 1
      PROVE  Minus(CoefficientsOf(p)[j - 1]) = p[j]
  <2>1. PICK i \in 1 .. Len(p) - 1 : i = j - 1 /\ i + 1 = j
    BY <1>1, <1>5
  <2> QED
    BY <2>1, <1>2 DEF CoefficientsOf
<1>6. PolynomialOf(CoefficientsOf(p)) = [j \in 1 .. Len(p) |-> p[j]]
  <2>1. Len(CoefficientsOf(p)) + 1 = Len(p)
    BY <1>1, <1>4
  <2> QED
    BY <2>1, <1>1, <1>5 DEF PolynomialOf
<1>7. p = [j \in 1 .. Len(p) |-> p[j]]
  BY <1>1
<1> QED
  BY <1>4, <1>6, <1>7

\* The same of lists of coefficients: the only ones of their order that
\* reproduce the terms.
OnlyOne(q, s, m) ==
  /\ Reproduces(q, s, m)
  /\ \A r \in Seq(Rational) : Len(r) = Len(q) /\ Reproduces(r, s, m) => r = q

LEMMA MinimalIsOnlyOne ==
  ASSUME NEW s \in Seq(Int), NEW q \in Seq(Rational), NEW m \in Nat, m <= Len(s),
         2 * Len(q) <= m, Reproduces(q, s, m),
         \A r \in Seq(Rational) : Reproduces(r, s, m) => Len(r) >= Len(q)
  PROVE  /\ OnlyOne(q, s, m)
         /\ \A r \in Seq(Rational) : Len(r) > Len(q) => ~ OnlyOne(r, s, m)
<1> DEFINE p == PolynomialOf(q)
<1>1. p \in Monic /\ Len(p) = Len(q) + 1 /\ Generates(s, p, m) /\ Len(q) \in Nat
  BY PolynomialOfGenerates
<1>2. ASSUME NEW r \in Monic
      PROVE  \E t \in Seq(Rational) :
               /\ t = CoefficientsOf(r) /\ Len(t) = Len(r) - 1 /\ PolynomialOf(t) = r
               /\ Generates(s, r, m) <=> Reproduces(t, s, m)
  <2>1. PICK t \in Seq(Rational) : t = CoefficientsOf(r) /\ Len(t) = Len(r) - 1 /\ PolynomialOf(t) = r
    BY CoefficientsOfPolynomial
  <2> QED
    BY <2>1, PolynomialOfGenerates
<1>3. \A r \in Monic : Generates(s, r, m) => Len(r) >= Len(p)
  <2> SUFFICES ASSUME NEW r \in Monic, Generates(s, r, m) PROVE Len(r) >= Len(p)
    OBVIOUS
  <2>1. PICK t \in Seq(Rational) : Len(t) = Len(r) - 1 /\ Reproduces(t, s, m)
    BY <1>2
  <2>2. Len(r) \in Nat /\ Len(t) >= Len(q)
    BY <2>1 DEF Monic
  <2> QED
    BY <1>1, <2>1, <2>2
<1>4. ASSUME NEW r \in Seq(Rational), Len(r) = Len(q), Reproduces(r, s, m) PROVE r = q
  <2>1. PolynomialOf(r) \in Monic /\ Len(PolynomialOf(r)) = Len(p) /\ Generates(s, PolynomialOf(r), m)
    BY <1>1, <1>4, PolynomialOfGenerates
  <2>2. 2 * (Len(p) - 1) <= m
    BY <1>1
  <2>3. PolynomialOf(r) = p
    BY <1>1, <1>3, <2>1, <2>2, ShortestIsUnique
  <2>4. ASSUME NEW i \in 1 .. Len(q) PROVE r[i] = q[i]
    <3>1. i + 1 \in 1 .. Len(q) + 1 /\ i + 1 # 1 /\ (i + 1) - 1 = i
      BY <1>1
    <3>2. PolynomialOf(r)[i + 1] = Minus(r[i]) /\ PolynomialOf(q)[i + 1] = Minus(q[i])
      BY <3>1, <1>4 DEF PolynomialOf
    <3>3. r[i] \in Rational /\ q[i] \in Rational
      BY <1>4
    <3> QED
      BY <2>3, <3>2, <3>3, MinusTwice
  <2>5. r = [i \in 1 .. Len(q) |-> r[i]] /\ q = [i \in 1 .. Len(q) |-> q[i]]
    BY <1>4
  <2> QED
    BY <2>4, <2>5
<1>5. ASSUME NEW r \in Seq(Rational), Len(r) > Len(q), OnlyOne(r, s, m) PROVE FALSE
  <2>1. PICK size \in Nat : size = Len(r) + 1 /\ size > Len(p)
    BY <1>1, <1>5
  <2>2. PICK u \in Monic, v \in Monic :
          /\ Len(u) = size /\ Len(v) = size /\ u # v
          /\ Generates(s, u, m) /\ Generates(s, v, m)
    BY <1>1, <2>1, LongerIsNotUnique
  <2>3. PICK x \in Seq(Rational) : Len(x) = Len(r) /\ PolynomialOf(x) = u /\ Reproduces(x, s, m)
    BY <1>2, <2>1, <2>2
  <2>4. PICK y \in Seq(Rational) : Len(y) = Len(r) /\ PolynomialOf(y) = v /\ Reproduces(y, s, m)
    BY <1>2, <2>1, <2>2
  <2> QED
    BY <1>5, <2>2, <2>3, <2>4 DEF OnlyOne
<1> QED
  BY <1>4, <1>5 DEF OnlyOne
=============================================================================
