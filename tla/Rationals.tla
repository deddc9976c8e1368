------------------------------ MODULE Rationals ------------------------------
(***************************************************************************)
(* The exact rational arithmetic the miners compute with: the part of      *)
(* fractions.Fraction they use.  A rational is kept in lowest terms with   *)
(* a positive denominator, so that equality of values is equality of       *)
(* records, as it is for Fraction.                                         *)
(***************************************************************************)
EXTENDS Integers, Sequences

\* Euclid's algorithm.
euclid[y \in Nat] == [x \in Nat |-> IF y = 0 THEN x ELSE euclid[x % y][y]]
gcd(x, y) == euclid[y][x]

Magnitude(x) == IF x < 0 THEN -x ELSE x

Fraction(x, y) ==
  LET g    == gcd(Magnitude(x), Magnitude(y))
      sign == IF y < 0 THEN -1 ELSE 1
  IN  [num |-> sign * (x \div g), den |-> sign * (y \div g)]

Whole(x) == [num |-> x, den |-> 1]
Zero     == Whole(0)
One      == Whole(1)

Integral(q) == q.den = 1

Plus(p, q)   == Fraction(p.num * q.den + q.num * p.den, p.den * q.den)
Times(p, q)  == Fraction(p.num * q.num, p.den * q.den)
Minus(q)     == [q EXCEPT !.num = -q.num]
Divide(p, q) == Fraction(p.num * q.den, p.den * q.num)

\* The sum of a sequence of rationals.
Total(terms) ==
  LET upTo[i \in 0 .. Len(terms)] ==
        IF i = 0 THEN Zero ELSE Plus(upTo[i - 1], terms[i])
  IN  upTo[Len(terms)]
=============================================================================
