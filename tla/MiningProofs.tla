---------------------------- MODULE MiningProofs ----------------------------
(***************************************************************************)
(* Proofs about formula mining and trace discovery, for every trace.       *)
(*                                                                         *)
(* The Berlekamp-Massey loop never leaves its lists, what it has found     *)
(* generates all it has read, and nothing shorter does.  The elimination   *)
(* of the search keeps its columns in reduced echelon form and keeps the   *)
(* solutions of its system, so the search takes the first order that has   *)
(* an integral recurrence and no other.  Together: the two searches agree, *)
(* and a candidate that passed computes the trace it was mined from.  The  *)
(* polynomial of the table of differences and the recurrence agree for     *)
(* ever where the training terms outnumber their orders together.          *)
(*                                                                         *)
(* Of discovery: the buckets of the samples are the groups of agreeing     *)
(* sources, so what is selected does not depend on the order they came in  *)
(* beyond the choice among the largest; an emitted structural or holonomic *)
(* definition computes the terms it was judged by; and a holonomic         *)
(* recurrence within the bound is not missed.                              *)
(***************************************************************************)
EXTENDS Mining, Discovery, LinearRecurrences, FiniteSetTheorems

-----------------------------------------------------------------------------
(* The lists of the loop.                                                  *)

\* The strengthening of IndicesInRange that is inductive.
IndexInv ==
  /\ n \in Nat
  /\ linear_complexity \in 0 .. n
  /\ shift \in Nat \ {0}
  /\ Len(b) \in Nat
  /\ Len(c) = linear_complexity + 1
  /\ Len(b) + shift = n - linear_complexity + 2

\* The correction pads c to the reach of the shifted b, and no further.
LEMMA CorrectedHasItsLength ==
  ASSUME IndexInv
  PROVE  /\ Len(Corrected) = CorrectedLength
         /\ CorrectedLength = IF MustGrow THEN n - linear_complexity + 2
                                          ELSE linear_complexity + 1
<1>1. /\ CorrectedLength \in Nat
      /\ CorrectedLength = IF MustGrow THEN n - linear_complexity + 2
                                       ELSE linear_complexity + 1
  BY DEF IndexInv, CorrectedLength, MustGrow
<1>2. Len(Corrected) = CorrectedLength
  BY <1>1 DEF Corrected
<1>3. QED
  BY <1>1, <1>2

LEMMA IndexInvInit == BMInit => IndexInv
  BY DEF BMInit, IndexInv

LEMMA IndexInvStep == IndexInv /\ [BMNext]_bmVars => IndexInv'
<1> SUFFICES ASSUME IndexInv, [BMNext]_bmVars
             PROVE  IndexInv'
  OBVIOUS
<1>1. CASE ZeroDiscrepancy
  BY <1>1 DEF IndexInv, ZeroDiscrepancy
<1>2. CASE Grow
  <2>1. Len(c') = n - linear_complexity + 2
    BY <1>2, CorrectedHasItsLength DEF Grow
  <2>2. linear_complexity' = n + 1 - linear_complexity
    BY <1>2 DEF Grow
  <2>3. Len(b') = linear_complexity + 1
    BY <1>2 DEF Grow, IndexInv
  <2>4. QED
    BY <1>2, <2>1, <2>2, <2>3 DEF Grow, IndexInv
<1>3. CASE Correct
  <2>1. Len(c') = linear_complexity + 1
    BY <1>3, CorrectedHasItsLength DEF Correct
  <2>2. QED
    BY <1>3, <2>1 DEF Correct, IndexInv
<1>4. CASE UNCHANGED bmVars
  BY <1>4 DEF IndexInv, bmVars, loopState
<1>5. QED
  BY <1>1, <1>2, <1>3, <1>4 DEF BMNext

\* Whatever the sequence, the loop of berlekamp_massey and its return
\* statement subscript c and the sequence within their bounds, and the
\* recurrence is never longer than the part of the sequence read.
THEOREM IndicesAreInRange == BMSpec => []IndicesInRange
<1>1. IndexInv => IndicesInRange
  BY DEF IndexInv, IndicesInRange
<1>2. QED
  BY IndexInvInit, IndexInvStep, <1>1, PTL DEF BMSpec

\* The recurrence only ever gets longer, and when it does its old and new
\* lengths add up to the number of terms that forced the growth.
THEOREM ComplexityGrows ==
  BMSpec => [][/\ linear_complexity' >= linear_complexity
               /\ linear_complexity' # linear_complexity =>
                    linear_complexity' + linear_complexity = n']_bmVars
<1> DEFINE Growing == /\ linear_complexity' >= linear_complexity
                      /\ linear_complexity' # linear_complexity =>
                           linear_complexity' + linear_complexity = n'
<1>1. IndexInv /\ BMNext => Growing
  BY DEF IndexInv, BMNext, ZeroDiscrepancy, Grow, Correct, MustGrow
<1>2. IndexInv /\ [BMNext]_bmVars => [Growing]_bmVars
  BY <1>1
<1>3. BMSpec => [][Growing]_bmVars
  BY IndexInvInit, IndexInvStep, <1>2, PTL DEF BMSpec
<1>4. QED
  BY <1>3

-----------------------------------------------------------------------------
\* The miner implements the loop: each of its steps is a pass of the loop
\* or leaves the loop's state alone.
THEOREM MiningRunsTheLoop == MiningSpec => BMSpec
<1>1. MiningInit => BMInit
  BY DEF MiningInit
<1>2. [MiningNext]_miningVars => [BMNext]_bmVars
  <2> SUFFICES ASSUME [MiningNext]_miningVars
               PROVE  [BMNext]_bmVars
    OBVIOUS
  <2>1. CASE TooShort
    BY <2>1 DEF TooShort
  <2>2. CASE SearchStep
    BY <2>2 DEF SearchStep
  <2>3. CASE LoopStep
    BY <2>3 DEF LoopStep
  <2>4. CASE Mined
    BY <2>4 DEF Mined
  <2>5. CASE UNCHANGED miningVars
    BY <2>5 DEF miningVars
  <2>6. QED
    BY <2>1, <2>2, <2>3, <2>4, <2>5 DEF MiningNext
<1>3. QED
  BY <1>1, <1>2, PTL DEF MiningSpec, BMSpec

\* Whatever the trace and the holdout, the miner never subscripts c or the
\* training terms out of bounds.
THEOREM MinerIndicesAreInRange == MiningSpec => []IndicesInRange
BY MiningRunsTheLoop, IndicesAreInRange, PTL

-----------------------------------------------------------------------------
(* The loop.                                                               *)
Scalars == Rational \ {Zero}

TypeInv ==
  /\ IndexInv
  /\ sequence \in Seq(Int)
  /\ n <= Len(sequence)
  /\ c \in Monic
  /\ b \in Monic
  /\ discrepancy_scale \in Scalars

\* c annihilates what it has read; b annihilated all but the last term
\* it had read when c outgrew it, and there left the discrepancy.
Annihilates ==
  /\ \A k \in linear_complexity .. n - 1 : Convolution(sequence, c, k) = Zero
  /\ \A k \in Len(b) - 1 .. n - shift - 1 : Convolution(sequence, b, k) = Zero
  /\ Len(b) - 1 <= n - shift => Convolution(sequence, b, n - shift) = discrepancy_scale

LEMMA DiscrepancyIsConvolution ==
  ASSUME TypeInv, n < Len(sequence)
  PROVE  Discrepancy = Convolution(sequence, c, n) /\ Discrepancy \in Rational
<1>1. /\ linear_complexity \in Nat /\ Len(c) = linear_complexity + 1 /\ n \in Int /\ n >= Len(c) - 1
      /\ c \in Monic /\ c \in Seq(Rational) /\ sequence \in Seq(Int)
  BY DEF TypeInv, IndexInv, Monic
<1>2. Convolution(sequence, c, n) = Plus(Whole(sequence[n + 1]), Total(Prediction(sequence, c, n)))
  BY <1>1, ConvolutionHead
<1>3. Discrepancy = Plus(Whole(sequence[n + 1]), Total(Prediction(sequence, c, n)))
  <2>1. Len(c) - 1 = linear_complexity
    BY <1>1
  <2> QED
    BY <2>1 DEF Discrepancy, Prediction
<1> QED
  BY <1>1, <1>2, <1>3, ProductsType

LEMMA FactorCancels ==
  ASSUME TypeInv, n < Len(sequence)
  PROVE  /\ Factor \in Rational
         /\ Plus(Discrepancy, Times(Factor, discrepancy_scale)) = Zero
<1>1. Discrepancy \in Rational /\ discrepancy_scale \in Rational /\ discrepancy_scale # Zero
  BY DiscrepancyIsConvolution DEF TypeInv, Scalars
<1>2. Minus(Discrepancy) \in Rational /\ Plus(Discrepancy, Minus(Discrepancy)) = Zero
  BY <1>1, Opposite
<1> QED
  BY <1>1, <1>2, Quotient DEF Factor

\* The correction is an adjustment of c, in just the places it has room for.
LEMMA CorrectedIsAdjusted ==
  ASSUME TypeInv, n < Len(sequence)
  PROVE  /\ Corrected = Adjusted(c, b, shift, Factor, CorrectedLength)
         /\ CorrectedLength \in Nat /\ CorrectedLength >= 1
         /\ Len(c) <= CorrectedLength /\ Len(b) + shift <= CorrectedLength
         /\ shift \in Nat \ {0} /\ Factor \in Rational /\ Corrected \in Monic
<1>1. /\ CorrectedLength \in Nat /\ CorrectedLength >= 1
      /\ Len(c) <= CorrectedLength /\ Len(b) + shift <= CorrectedLength
      /\ shift \in Nat \ {0} /\ c \in Monic /\ b \in Seq(Rational)
  BY DEF TypeInv, IndexInv, Monic, CorrectedLength
<1>2. Corrected = Adjusted(c, b, shift, Factor, CorrectedLength)
  BY DEF Corrected, Adjusted
<1>3. Factor \in Rational
  BY FactorCancels
<1> QED
  BY <1>1, <1>2, <1>3, AdjustedType

-----------------------------------------------------------------------------
(* The invariant of the loop.                                              *)
LoopInv == TypeInv /\ Annihilates

LEMMA LoopInvInit == BMInit => LoopInv
<1> SUFFICES ASSUME BMInit PROVE LoopInv
  OBVIOUS
<1>1. IndexInv
  BY IndexInvInit
<1>2. sequence \in Seq(Int) /\ n <= Len(sequence)
  BY SequencesAssumption DEF BMInit
<1>3. <<One>> \in Monic /\ Len(<<One>>) = 1 /\ One \in Scalars
  BY Constants DEF Scalars, Monic
<1>4. TypeInv
  BY <1>1, <1>2, <1>3 DEF BMInit, TypeInv
<1>5. Annihilates
  BY <1>3 DEF BMInit, Annihilates
<1> QED
  BY <1>4, <1>5 DEF LoopInv

\* The terms an enlarged or corrected recurrence has to reproduce: the
\* correction cancels what c missed, and b adds nothing where c was right.
LEMMA CorrectedAnnihilates ==
  ASSUME LoopInv, n < Len(sequence), linear_complexity >= 1,
         NEW k \in linear_complexity .. n, k >= CorrectedLength - 1
  PROVE  Convolution(sequence, Corrected, k) = Zero
<1>1. /\ k \in Int /\ k < Len(sequence) /\ n \in Nat
      /\ shift \in Nat \ {0} /\ Len(b) \in Nat /\ Len(b) + shift = n - linear_complexity + 2
      /\ linear_complexity \in Nat
      /\ CorrectedLength \in Nat /\ CorrectedLength >= Len(b) + shift
  BY CorrectedIsAdjusted DEF LoopInv, TypeInv, IndexInv
<1>2. k - shift >= Len(b) - 1
  BY <1>1
<1>3. Convolution(sequence, Corrected, k) = Plus(Convolution(sequence, c, k), Times(Factor, Convolution(sequence, b, k - shift)))
  <2>1. c \in Monic /\ b \in Monic /\ sequence \in Seq(Int) /\ k < Len(sequence) /\ k \in Int
    BY <1>1 DEF LoopInv, TypeInv
  <2>2. Corrected = Adjusted(c, b, shift, Factor, CorrectedLength)
    BY CorrectedIsAdjusted DEF LoopInv
  <2>3. /\ CorrectedLength \in Nat /\ CorrectedLength >= 1 /\ Factor \in Rational
        /\ Len(c) <= CorrectedLength /\ Len(b) + shift <= CorrectedLength
        /\ shift \in Nat \ {0} /\ k >= CorrectedLength - 1
    BY CorrectedIsAdjusted DEF LoopInv
  <2> QED
    BY <2>1, <2>2, <2>3, AdjustedConvolution
<1>4. CASE k = n
  <2>1. Convolution(sequence, c, k) = Discrepancy
    BY <1>4, DiscrepancyIsConvolution DEF LoopInv
  <2>2. Convolution(sequence, b, k - shift) = discrepancy_scale
    BY <1>2, <1>4 DEF LoopInv, Annihilates
  <2> QED
    BY <1>3, <2>1, <2>2, FactorCancels DEF LoopInv
<1>5. CASE k # n
  <2>1. Convolution(sequence, c, k) = Zero
    BY <1>1, <1>5 DEF LoopInv, Annihilates
  <2>2. k - shift \in Len(b) - 1 .. n - shift - 1
    BY <1>1, <1>2, <1>5
  <2>3. Convolution(sequence, b, k - shift) = Zero
    BY <2>2 DEF LoopInv, Annihilates
  <2>4. Factor \in Rational
    BY FactorCancels DEF LoopInv
  <2>5. Times(Factor, Zero) = Zero /\ Plus(Zero, Zero) = Zero
    BY <2>4, Neutral, Constants
  <2> QED
    BY <1>3, <2>1, <2>3, <2>5
<1> QED
  BY <1>4, <1>5

LEMMA LoopInvStep == LoopInv /\ [BMNext]_bmVars => LoopInv'
<1> SUFFICES ASSUME LoopInv, [BMNext]_bmVars PROVE LoopInv'
  OBVIOUS
<1>1. IndexInv'
  BY IndexInvStep DEF LoopInv, TypeInv
<1>2. CASE UNCHANGED bmVars
  BY <1>2 DEF bmVars, loopState, LoopInv, TypeInv, IndexInv, Annihilates
<1>3. CASE ZeroDiscrepancy
  <2>1. /\ n < Len(sequence) /\ Discrepancy = Zero /\ n' = n + 1 /\ shift' = shift + 1
        /\ sequence' = sequence /\ c' = c /\ b' = b /\ linear_complexity' = linear_complexity
        /\ discrepancy_scale' = discrepancy_scale
    BY <1>3 DEF ZeroDiscrepancy, Wrong
  <2>2. /\ n \in Nat /\ shift \in Nat /\ linear_complexity \in Nat /\ Len(b) \in Nat
        /\ Len(sequence) \in Nat
    BY DEF LoopInv, TypeInv, IndexInv
  <2>3. TypeInv'
    BY <1>1, <2>1, <2>2 DEF LoopInv, TypeInv
  <2>4. Convolution(sequence, c, n) = Zero
    BY <2>1, DiscrepancyIsConvolution DEF LoopInv
  <2>5. \A k \in linear_complexity .. n : Convolution(sequence, c, k) = Zero
    BY <2>2, <2>4 DEF LoopInv, Annihilates
  <2>6. Annihilates'
    BY <2>1, <2>2, <2>5 DEF LoopInv, Annihilates
  <2> QED
    BY <2>3, <2>6 DEF LoopInv
<1>4. CASE Grow
  <2>1. /\ n < Len(sequence) /\ Discrepancy # Zero /\ MustGrow /\ n' = n + 1 /\ shift' = 1
        /\ sequence' = sequence /\ c' = Corrected /\ b' = c
        /\ linear_complexity' = n + 1 - linear_complexity
        /\ discrepancy_scale' = Discrepancy
    BY <1>4 DEF Grow, Wrong
  <2>2. /\ n \in Nat /\ linear_complexity \in Nat /\ linear_complexity <= n
        /\ Len(c) = linear_complexity + 1 /\ Len(sequence) \in Nat
    BY DEF LoopInv, TypeInv, IndexInv
  <2>3. TypeInv'
    <3>1. Discrepancy \in Scalars
      BY <2>1, DiscrepancyIsConvolution DEF LoopInv, Scalars
    <3>2. Corrected \in Monic
      BY <2>1, CorrectedIsAdjusted DEF LoopInv
    <3> QED
      BY <1>1, <2>1, <2>2, <3>1, <3>2 DEF LoopInv, TypeInv
  <2>4. \A k \in linear_complexity' .. n : Convolution(sequence, Corrected, k) = Zero
    <3> SUFFICES ASSUME NEW k \in linear_complexity' .. n PROVE Convolution(sequence, Corrected, k) = Zero
      OBVIOUS
    <3>1. linear_complexity >= 1 /\ k \in linear_complexity .. n
      BY <2>1, <2>2 DEF MustGrow
    <3>2. CorrectedLength = n - linear_complexity + 2
      BY <2>1, CorrectedHasItsLength DEF LoopInv, TypeInv
    <3>3. k >= CorrectedLength - 1
      BY <2>1, <2>2, <3>2
    <3> QED
      BY <2>1, <3>1, <3>3, CorrectedAnnihilates
  <2>5. \A k \in linear_complexity .. n - 1 : Convolution(sequence, c, k) = Zero
    BY DEF LoopInv, Annihilates
  <2>6. Convolution(sequence, c, n) = Discrepancy
    BY <2>1, DiscrepancyIsConvolution DEF LoopInv
  <2>7. Annihilates'
    BY <2>1, <2>2, <2>4, <2>5, <2>6 DEF Annihilates
  <2> QED
    BY <2>3, <2>7 DEF LoopInv
<1>5. CASE Correct
  <2>1. /\ n < Len(sequence) /\ Discrepancy # Zero /\ ~ MustGrow /\ n' = n + 1 /\ shift' = shift + 1
        /\ sequence' = sequence /\ c' = Corrected /\ b' = b
        /\ linear_complexity' = linear_complexity
        /\ discrepancy_scale' = discrepancy_scale
    BY <1>5 DEF Correct, Wrong
  <2>2. /\ n \in Nat /\ shift \in Nat /\ linear_complexity \in Nat /\ Len(b) \in Nat
        /\ Len(sequence) \in Nat /\ Len(c) = linear_complexity + 1
    BY DEF LoopInv, TypeInv, IndexInv
  <2>3. TypeInv'
    <3>1. Corrected \in Monic
      BY <2>1, CorrectedIsAdjusted DEF LoopInv
    <3> QED
      BY <1>1, <2>1, <2>2, <3>1 DEF LoopInv, TypeInv
  <2>4. \A k \in linear_complexity .. n : Convolution(sequence, Corrected, k) = Zero
    <3> SUFFICES ASSUME NEW k \in linear_complexity .. n PROVE Convolution(sequence, Corrected, k) = Zero
      OBVIOUS
    <3>1. linear_complexity >= 1
      BY <2>1, <2>2 DEF MustGrow
    <3>2. CorrectedLength = linear_complexity + 1
      BY <2>1, CorrectedHasItsLength DEF LoopInv, TypeInv
    <3>3. k >= CorrectedLength - 1
      BY <2>2, <3>2
    <3> QED
      BY <2>1, <3>1, <3>3, CorrectedAnnihilates
  <2>5. Annihilates'
    BY <2>1, <2>2, <2>4 DEF LoopInv, Annihilates
  <2> QED
    BY <2>3, <2>5 DEF LoopInv
<1> QED
  BY <1>2, <1>3, <1>4, <1>5 DEF BMNext

\* The recurrence the loop has found reproduces every term it has read, from
\* its own seeds on, whatever the sequence.
THEOREM LoopGenerates == BMSpec => []PrefixGenerated
<1>1. ASSUME LoopInv PROVE PrefixGenerated
  <2> SUFFICES ASSUME NEW k \in linear_complexity .. n - 1
               PROVE  Whole(sequence[k + 1]) =
                        Total([i \in 1 .. linear_complexity |->
                                 Times(Recurrence[i], Whole(sequence[k - i + 1]))])
    BY DEF PrefixGenerated
  <2>1. /\ c \in Monic /\ sequence \in Seq(Int) /\ linear_complexity \in Nat
        /\ Len(c) - 1 = linear_complexity /\ n \in Nat /\ n <= Len(sequence)
    BY <1>1 DEF LoopInv, TypeInv, IndexInv
  <2>2. k \in Int /\ k >= Len(c) - 1 /\ k < Len(sequence)
    BY <2>1
  <2>3. Convolution(sequence, c, k) = Zero
    BY <1>1 DEF LoopInv, Annihilates
  <2>4. Whole(sequence[k + 1]) =
          Total([i \in 1 .. linear_complexity |-> Times(Minus(c[i + 1]), Whole(sequence[k - i + 1]))])
    BY <2>1, <2>2, <2>3, Predicts
  <2>5. [i \in 1 .. linear_complexity |-> Times(Minus(c[i + 1]), Whole(sequence[k - i + 1]))] =
          [i \in 1 .. linear_complexity |-> Times(Recurrence[i], Whole(sequence[k - i + 1]))]
    BY DEF Recurrence
  <2> QED
    BY <2>4, <2>5
<1>2. LoopInv => PrefixGenerated
  BY <1>1
<1> QED
  BY LoopInvInit, LoopInvStep, <1>2, PTL DEF BMSpec

\* No shorter polynomial reproduces what the loop has read.
Shortest == \A p \in Monic : Generates(sequence, p, n) => Len(p) >= linear_complexity + 1

LEMMA LoopGeneratesPrefix ==
  ASSUME LoopInv
  PROVE  Generates(sequence, c, n)
  BY DEF LoopInv, TypeInv, IndexInv, Annihilates, Generates

LEMMA ShortestStep == LoopInv /\ Shortest /\ [BMNext]_bmVars => Shortest'
<1> SUFFICES ASSUME LoopInv, Shortest, [BMNext]_bmVars PROVE Shortest'
  OBVIOUS
<1>1. CASE UNCHANGED bmVars
  BY <1>1 DEF bmVars, loopState, Shortest
<1>2. CASE BMNext
  <2>1. /\ n < Len(sequence) /\ n' = n + 1 /\ sequence' = sequence /\ n \in Nat
        /\ sequence \in Seq(Int) /\ c \in Monic /\ linear_complexity \in Nat
        /\ linear_complexity <= n /\ Len(c) = linear_complexity + 1
    BY <1>2 DEF BMNext, ZeroDiscrepancy, Grow, Correct, LoopInv, TypeInv, IndexInv
  <2> SUFFICES ASSUME NEW p \in Monic, Generates(sequence, p, n + 1)
               PROVE  Len(p) >= linear_complexity' + 1
    BY <2>1 DEF Shortest
  <2>2. Len(p) \in Nat \ {0}
    BY DEF Monic
  <2>3. Generates(sequence, p, n) /\ Len(p) >= linear_complexity + 1
    BY <2>1, <2>2 DEF Generates, Shortest
  <2>4. CASE ZeroDiscrepancy \/ Correct
    BY <2>3, <2>4 DEF ZeroDiscrepancy, Correct
  <2>5. CASE Grow
    <3>1. linear_complexity' = n + 1 - linear_complexity /\ Discrepancy # Zero
      BY <2>5 DEF Grow, Wrong
    <3> SUFFICES ASSUME Len(p) < n + 2 - linear_complexity PROVE FALSE
      BY <2>1, <2>2, <3>1
    <3>2. Convolution(sequence, p, n) = Zero
      <4>1. n \in Len(p) - 1 .. n + 1 - 1
        BY <2>1, <2>2
      <4> QED
        BY <4>1 DEF Generates
    <3>3. Convolution(sequence, p, n) = Convolution(sequence, c, n)
      <4>1. Len(p) + Len(c) - 2 <= n
        BY <2>1, <2>2
      <4> QED
        BY <4>1, <2>1, <2>3, LoopGeneratesPrefix, Massey
    <3>4. Discrepancy = Convolution(sequence, c, n)
      BY <2>1, DiscrepancyIsConvolution DEF LoopInv
    <3> QED
      BY <3>1, <3>2, <3>3, <3>4
  <2> QED
    BY <1>2, <2>4, <2>5 DEF BMNext
<1> QED
  BY <1>1, <1>2

LEMMA ShortestInit == BMInit => Shortest
<1> SUFFICES ASSUME BMInit, NEW p \in Monic PROVE Len(p) >= linear_complexity + 1
  BY DEF Shortest
<1> QED
  BY DEF BMInit, Monic

\* And no shorter recurrence does: what berlekamp_massey returns is minimal.
NoShorterRecurrence ==
  \A q \in Seq(Rational) : Reproduces(q, sequence, n) => Len(q) >= linear_complexity

THEOREM LoopIsMinimal == BMSpec => []NoShorterRecurrence
<1>1. ASSUME LoopInv, Shortest, NEW q \in Seq(Rational), Reproduces(q, sequence, n)
      PROVE  Len(q) >= linear_complexity
  <2>1. sequence \in Seq(Int) /\ n \in Nat /\ n <= Len(sequence) /\ linear_complexity \in Nat /\ Len(q) \in Nat
    BY <1>1 DEF LoopInv, TypeInv, IndexInv
  <2>2. PICK p \in Monic : Len(p) = Len(q) + 1 /\ Generates(sequence, p, n)
    BY <1>1, <2>1, PolynomialOfGenerates
  <2> QED
    BY <1>1, <2>1, <2>2 DEF Shortest
<1>2. LoopInv /\ Shortest => NoShorterRecurrence
  BY <1>1 DEF NoShorterRecurrence
<1> QED
  BY LoopInvInit, LoopInvStep, ShortestInit, ShortestStep, <1>2, PTL DEF BMSpec

-----------------------------------------------------------------------------
(* The elimination.                                                        *)
Row(size) == [1 .. size + 1 -> Rational]

MatrixInv ==
  /\ order \in Nat \ {0}
  /\ col \in 1 .. order + 1
  /\ rows \in Seq(Row(order))
  /\ pivots \in Seq(Nat)

\* With ReducedEchelon: as many pivots as columns passed, and then in order,
\* or a column passed that holds none.
PivotsInv ==
  /\ Rank <= col - 1
  /\ \A r \in 1 .. Rank : pivots[r] \in 1 .. col - 1
  /\ Rank = col - 1 => \A r \in 1 .. Rank : pivots[r] = r
  /\ Rank < col - 1 => \E f \in 1 .. col - 1 : \A r \in 1 .. Rank : pivots[r] # f

EchelonInv == MatrixInv /\ PivotsInv /\ ReducedEchelon

\* Row k of the matrix with two rows swapped.
Swap(k, first) == IF k = Rank + 1 THEN first ELSE IF k = first THEN Rank + 1 ELSE k

LEMMA SequencesAre ==
  ASSUME NEW S, NEW m \in Nat, NEW f, f \in [1 .. m -> S]
  PROVE  f \in Seq(S) /\ Len(f) = m
  OBVIOUS

LEMMA PivotRows ==
  ASSUME EchelonInv, Pivot
  PROVE  \E first \in Rank + 1 .. Len(rows), x \in Rational, t \in Row(order) :
           /\ x # Zero /\ x = rows[first][col]
           /\ \A j \in 1 .. order + 1 : t[j] = Divide(rows[first][j], x)
           /\ rows' \in Seq(Row(order)) /\ Len(rows') = Len(rows) /\ rows'[Rank + 1] = t
           /\ \A k \in 1 .. Len(rows), j \in 1 .. order + 1 :
                k # Rank + 1 =>
                  rows'[k][j] = Plus(rows[Swap(k, first)][j],
                                     Minus(Times(rows[Swap(k, first)][col], t[j])))
<1>1. /\ order \in Nat \ {0} /\ col \in 1 .. order + 1 /\ rows \in Seq(Row(order))
      /\ Rank \in Nat /\ Len(rows) \in Nat
  BY DEF EchelonInv, MatrixInv, Rank
<1> DEFINE m(first) == Swapped(first)
           scaled(first) == [j \in 1 .. order + 1 |-> Divide(m(first)[Rank + 1][j], m(first)[Rank + 1][col])]
<1>2. PICK first \in Usable :
        rows' = [k \in DOMAIN m(first) |->
                   IF k = Rank + 1 THEN scaled(first)
                   ELSE IF Reduced(k)
                   THEN [j \in 1 .. order + 1 |->
                           Plus(m(first)[k][j], Minus(Times(m(first)[k][col], scaled(first)[j])))]
                   ELSE m(first)[k]]
  BY Zenon DEF Pivot
<1>3. first \in Rank + 1 .. Len(rows) /\ first \in 1 .. Len(rows) /\ rows[first][col] # Zero
  BY <1>1 DEF Usable
<1>4. PICK x \in Rational : x = rows[first][col] /\ x # Zero
  BY <1>1, <1>3 DEF Row
<1>5. Rank + 1 \in 1 .. Len(rows)
  BY <1>1, <1>3
<1>6. DOMAIN m(first) = 1 .. Len(rows) /\ \A k \in 1 .. Len(rows) : m(first)[k] = rows[Swap(k, first)]
  BY <1>1, <1>3, <1>5 DEF Swapped, Swap
<1>7. \A k \in 1 .. Len(rows) : Swap(k, first) \in 1 .. Len(rows)
  BY <1>3, <1>5 DEF Swap
<1>8. m(first)[Rank + 1] = rows[first]
  BY <1>5, <1>6 DEF Swap
<1> DEFINE t == scaled(first)
<1>9. \A j \in 1 .. order + 1 : t[j] = Divide(rows[first][j], x)
  BY <1>4, <1>8
<1>10. t \in Row(order)
  <2>1. \A j \in 1 .. order + 1 : rows[first][j] \in Rational
    BY <1>1, <1>3 DEF Row
  <2>2. \A j \in 1 .. order + 1 : Divide(rows[first][j], x) \in Rational
    BY <2>1, <1>4, Quotient
  <2>3. t = [j \in 1 .. order + 1 |-> Divide(rows[first][j], x)]
    BY <1>4, <1>8
  <2> HIDE DEF t
  <2> QED
    BY <2>2, <2>3 DEF Row
<1> DEFINE g == [k \in 1 .. Len(rows) |->
                   IF k = Rank + 1 THEN t
                   ELSE [j \in 1 .. order + 1 |->
                           Plus(rows[Swap(k, first)][j], Minus(Times(rows[Swap(k, first)][col], t[j])))]]
<1>11. rows' = g
  <2>1. \A k : k # Rank + 1 => Reduced(k)
    BY DEF Reduced
  <2> HIDE DEF t, m
  <2> QED
    BY <1>2, <1>6, <2>1 DEF t
<1> HIDE DEF t, m, scaled
<1>12. ASSUME NEW k \in 1 .. Len(rows), NEW j \in 1 .. order + 1
       PROVE  Plus(rows[Swap(k, first)][j], Minus(Times(rows[Swap(k, first)][col], t[j]))) \in Rational
  <2>1. rows[Swap(k, first)][j] \in Rational /\ rows[Swap(k, first)][col] \in Rational /\ t[j] \in Rational
    BY <1>1, <1>7, <1>10 DEF Row
  <2>2. PICK a \in Rational, e \in Rational, d \in Rational :
          a = rows[Swap(k, first)][j] /\ e = rows[Swap(k, first)][col] /\ d = t[j]
    BY <2>1
  <2>3. Plus(a, Minus(Times(e, d))) \in Rational
    BY Closed, Opposite
  <2> QED
    BY <2>2, <2>3
<1>13. g \in [1 .. Len(rows) -> Row(order)]
  BY <1>10, <1>12 DEF Row
<1>14. rows' \in Seq(Row(order)) /\ Len(rows') = Len(rows)
  <2> HIDE DEF g
  <2> QED
    BY <1>1, <1>11, <1>13, SequencesAre
<1>15. rows'[Rank + 1] = t
  BY <1>5, <1>11
<1>16. \A k \in 1 .. Len(rows), j \in 1 .. order + 1 :
         k # Rank + 1 =>
           rows'[k][j] = Plus(rows[Swap(k, first)][j], Minus(Times(rows[Swap(k, first)][col], t[j])))
  BY <1>11
<1> QED
  BY <1>3, <1>4, <1>9, <1>10, <1>14, <1>15, <1>16

LEMMA EliminationArithmetic ==
  ASSUME NEW a \in Rational, NEW y \in Rational
  PROVE  /\ Plus(y, Minus(Times(a, Zero))) = y
         /\ Plus(a, Minus(Times(a, One))) = Zero
         /\ a # Zero => Divide(Zero, a) = Zero /\ Divide(a, a) = One
<1>1. Plus(Zero, Minus(Zero)) = Zero /\ Minus(Zero) \in Rational
  BY Opposite, Constants
<1>2. Minus(Zero) = Zero
  BY <1>1, Neutral
<1>3. Plus(y, Minus(Times(a, Zero))) = y
  BY <1>2, Neutral
<1>4. Plus(a, Minus(Times(a, One))) = Zero
  BY Neutral, Opposite
<1>5. ASSUME a # Zero PROVE Divide(Zero, a) = Zero
  <2>1. Divide(Zero, a) \in Rational /\ Times(Divide(Zero, a), a) = Zero
    BY <1>5, Quotient, Constants
  <2>2. Times(a, Divide(Zero, a)) = Zero
    BY <2>1, Commutative
  <2> QED
    BY <1>5, <2>1, <2>2, NoZeroDivisors
<1> QED
  BY <1>3, <1>4, <1>5, QuotientOfSelf

\* A pivot step brings one more column into form and leaves those before in it.
LEMMA PivotKeepsEchelon == EchelonInv /\ Pivot => EchelonInv'
<1> SUFFICES ASSUME EchelonInv, Pivot PROVE EchelonInv'
  OBVIOUS
<1>1. PICK first \in Rank + 1 .. Len(rows), x \in Rational, t \in Row(order) :
        /\ x # Zero /\ x = rows[first][col]
        /\ \A j \in 1 .. order + 1 : t[j] = Divide(rows[first][j], x)
        /\ rows' \in Seq(Row(order)) /\ Len(rows') = Len(rows) /\ rows'[Rank + 1] = t
        /\ \A k \in 1 .. Len(rows), j \in 1 .. order + 1 :
             k # Rank + 1 =>
               rows'[k][j] = Plus(rows[Swap(k, first)][j],
                                  Minus(Times(rows[Swap(k, first)][col], t[j])))
  BY PivotRows
<1>2. /\ order \in Nat \ {0} /\ col \in 1 .. order + 1 /\ rows \in Seq(Row(order))
      /\ pivots \in Seq(Nat) /\ Rank = Len(pivots) /\ Rank \in Nat /\ Len(rows) \in Nat
      /\ Rank <= col - 1
  BY DEF EchelonInv, MatrixInv, PivotsInv, Rank
<1>3. /\ col <= order /\ col' = col + 1 /\ order' = order /\ pivots' = Append(pivots, col)
  BY DEF Pivot
<1>4. /\ pivots' \in Seq(Nat) /\ Rank' = Rank + 1 /\ pivots'[Rank + 1] = col
      /\ \A r \in 1 .. Rank : pivots'[r] = pivots[r]
  BY <1>2, <1>3 DEF Rank
<1>5. MatrixInv'
  BY <1>1, <1>2, <1>3, <1>4 DEF MatrixInv
<1>6. PivotsInv'
  <2>1. Rank' <= col' - 1
    BY <1>2, <1>3, <1>4
  <2>2. \A r \in 1 .. Rank' : pivots'[r] \in 1 .. col' - 1
    BY <1>2, <1>3, <1>4 DEF EchelonInv, PivotsInv
  <2>3. Rank' = col' - 1 => \A r \in 1 .. Rank' : pivots'[r] = r
    BY <1>2, <1>3, <1>4 DEF EchelonInv, PivotsInv
  <2>4. Rank' < col' - 1 => \E f \in 1 .. col' - 1 : \A r \in 1 .. Rank' : pivots'[r] # f
    <3> SUFFICES ASSUME Rank' < col' - 1 PROVE \E f \in 1 .. col' - 1 : \A r \in 1 .. Rank' : pivots'[r] # f
      OBVIOUS
    <3>1. Rank < col - 1
      BY <1>2, <1>3, <1>4
    <3>2. PICK f \in 1 .. col - 1 : \A r \in 1 .. Rank : pivots[r] # f
      BY <3>1 DEF EchelonInv, PivotsInv
    <3>3. f \in 1 .. col' - 1 /\ \A r \in 1 .. Rank' : pivots'[r] # f
      BY <3>2, <1>2, <1>3, <1>4
    <3> QED
      BY <3>3
  <2> QED
    BY <2>1, <2>2, <2>3, <2>4 DEF PivotsInv
<1>7. ASSUME NEW k \in 1 .. Len(rows), NEW j \in 1 .. order + 1
      PROVE  /\ rows[k][j] \in Rational
             /\ Swap(k, first) \in 1 .. Len(rows)
             /\ k \in 1 .. Rank => Swap(k, first) = k
             /\ k > Rank => Swap(k, first) > Rank
  BY <1>1, <1>2 DEF Row, Swap
<1>8. ASSUME NEW k \in 1 .. Len(rows), NEW j \in 1 .. order + 1, t[j] = Zero, k # Rank + 1
      PROVE  rows'[k][j] = rows[Swap(k, first)][j]
  <2>1. PICK i \in 1 .. Len(rows) : i = Swap(k, first)
    BY <1>7
  <2>2. rows[i][j] \in Rational /\ rows[i][col] \in Rational
    BY <1>2, <1>7
  <2>3. rows'[k][j] = Plus(rows[i][j], Minus(Times(rows[i][col], Zero)))
    BY <1>1, <1>8, <2>1
  <2> QED
    BY <2>1, <2>2, <2>3, EliminationArithmetic
<1>9. ASSUME NEW r \in 1 .. Rank, NEW k \in 1 .. Len(rows)
      PROVE  rows'[k][pivots[r]] = IF k = r THEN One ELSE Zero
  <2>1. PICK j \in 1 .. order + 1 : j = pivots[r] /\ j \in 1 .. col - 1
    BY <1>2 DEF EchelonInv, PivotsInv
  <2>2. \A i \in 1 .. Len(rows) : rows[i][j] = IF i = r THEN One ELSE Zero
    BY <2>1 DEF EchelonInv, ReducedEchelon
  <2>3. t[j] = Zero
    <3>1. rows[first][j] = Zero
      BY <1>1, <1>2, <2>2
    <3> QED
      BY <3>1, <1>1, EliminationArithmetic
  <2>4. CASE k = Rank + 1
    BY <1>1, <1>2, <2>1, <2>3, <2>4
  <2>5. CASE k # Rank + 1
    <3>1. rows'[k][j] = rows[Swap(k, first)][j]
      BY <1>8, <2>3, <2>5
    <3>2. Swap(k, first) = r <=> k = r
      <4>1. k \in 1 .. Rank => Swap(k, first) = k
        BY <2>1, <1>7
      <4>2. k > Rank => Swap(k, first) > Rank
        BY <2>1, <1>7
      <4> QED
        BY <4>1, <4>2, <1>2
    <3> QED
      BY <2>1, <2>2, <3>1, <3>2, <1>7
  <2> QED
    BY <2>4, <2>5
<1>10. ASSUME NEW k \in 1 .. Len(rows)
       PROVE  rows'[k][col] = IF k = Rank + 1 THEN One ELSE Zero
  <2>1. t[col] = One
    BY <1>1, <1>2, EliminationArithmetic
  <2>2. CASE k = Rank + 1
    BY <1>1, <2>1, <2>2
  <2>3. CASE k # Rank + 1
    <3>1. PICK a \in Rational : a = rows[Swap(k, first)][col]
      BY <1>2, <1>7
    <3>2. rows'[k][col] = Plus(a, Minus(Times(a, One)))
      BY <1>1, <1>2, <2>1, <2>3, <3>1
    <3> QED
      BY <2>3, <3>2, EliminationArithmetic
  <2> QED
    BY <2>2, <2>3
<1>11. ASSUME NEW j \in 1 .. col - 1, NEW k \in Rank + 2 .. Len(rows)
       PROVE  rows'[k][j] = Zero
  <2>1. j \in 1 .. order + 1 /\ k \in 1 .. Len(rows) /\ k # Rank + 1 /\ k > Rank
    BY <1>2
  <2>2. \A i \in Rank + 1 .. Len(rows) : rows[i][j] = Zero
    BY DEF EchelonInv, ReducedEchelon
  <2>3. t[j] = Zero
    BY <1>1, <2>1, <2>2, EliminationArithmetic
  <2>4. Swap(k, first) \in Rank + 1 .. Len(rows)
    BY <1>2, <1>7, <2>1
  <2> QED
    BY <1>8, <2>1, <2>2, <2>3, <2>4
<1>12. ReducedEchelon'
  <2>1. Rank' <= Len(rows')
    BY <1>1, <1>2, <1>4
  <2>2. \A p, r \in 1 .. Rank' : p < r => pivots'[p] < pivots'[r]
    <3> SUFFICES ASSUME NEW p \in 1 .. Rank + 1, NEW r \in 1 .. Rank + 1, p < r
                 PROVE  pivots'[p] < pivots'[r]
      BY <1>4
    <3>1. p \in 1 .. Rank /\ pivots'[p] = pivots[p] /\ pivots[p] \in 1 .. col - 1
      BY <1>2, <1>4 DEF EchelonInv, PivotsInv
    <3>2. CASE r = Rank + 1
      BY <3>1, <3>2, <1>2, <1>4
    <3>3. CASE r # Rank + 1
      <4>1. r \in 1 .. Rank /\ pivots'[r] = pivots[r]
        BY <3>3, <1>2, <1>4
      <4>2. pivots[p] < pivots[r]
        BY <3>1, <4>1 DEF EchelonInv, ReducedEchelon
      <4> QED
        BY <3>1, <4>1, <4>2
    <3> QED
      BY <3>2, <3>3
  <2>3. \A r \in 1 .. Rank', k \in 1 .. Len(rows') :
          rows'[k][pivots'[r]] = IF k = r THEN One ELSE Zero
    <3> SUFFICES ASSUME NEW r \in 1 .. Rank + 1, NEW k \in 1 .. Len(rows)
                 PROVE  rows'[k][pivots'[r]] = IF k = r THEN One ELSE Zero
      BY <1>1, <1>4
    <3>1. CASE r = Rank + 1
      BY <3>1, <1>4, <1>10
    <3>2. CASE r \in 1 .. Rank
      BY <3>2, <1>4, <1>9
    <3> QED
      BY <3>1, <3>2, <1>2
  <2>4. \A j \in 1 .. col' - 1, k \in Rank' + 1 .. Len(rows') : rows'[k][j] = Zero
    <3> SUFFICES ASSUME NEW j \in 1 .. col, NEW k \in Rank + 2 .. Len(rows)
                 PROVE  rows'[k][j] = Zero
      BY <1>1, <1>2, <1>3, <1>4
    <3>1. CASE j = col
      BY <3>1, <1>2, <1>10
    <3>2. CASE j \in 1 .. col - 1
      BY <3>2, <1>11
    <3> QED
      BY <3>1, <3>2, <1>2
  <2> QED
    BY <2>1, <2>2, <2>3, <2>4 DEF ReducedEchelon
<1> QED
  BY <1>5, <1>6, <1>12 DEF EchelonInv

LEMMA SkipKeepsEchelon == EchelonInv /\ SkipColumn => EchelonInv'
<1> SUFFICES ASSUME EchelonInv, SkipColumn PROVE EchelonInv'
  OBVIOUS
<1>1. /\ order \in Nat \ {0} /\ col \in 1 .. order + 1 /\ rows \in Seq(Row(order))
      /\ Rank \in Nat /\ Len(rows) \in Nat /\ Rank <= col - 1
  BY DEF EchelonInv, MatrixInv, PivotsInv, Rank
<1>2. /\ col <= order /\ Usable = {} /\ col' = col + 1
      /\ order' = order /\ rows' = rows /\ pivots' = pivots /\ Rank' = Rank
  BY DEF SkipColumn, Rank
<1>3. MatrixInv'
  BY <1>1, <1>2 DEF EchelonInv, MatrixInv
<1>4. PivotsInv'
  <2>1. \A r \in 1 .. Rank : pivots[r] \in 1 .. col - 1
    BY DEF EchelonInv, PivotsInv
  <2>2. \A r \in 1 .. Rank : pivots[r] # col
    BY <1>1, <2>1
  <2>3. col \in 1 .. col' - 1 /\ Rank < col' - 1
    BY <1>1, <1>2
  <2>4. \A r \in 1 .. Rank : pivots[r] \in 1 .. col' - 1
    BY <1>1, <1>2, <2>1
  <2> QED
    BY <1>1, <1>2, <2>2, <2>3, <2>4 DEF PivotsInv
<1>5. \A k \in Rank + 1 .. Len(rows) : rows[k][col] = Zero
  BY <1>2 DEF Usable
<1>6. ReducedEchelon'
  <2>1. \A j \in 1 .. col' - 1, k \in Rank + 1 .. Len(rows) : rows[k][j] = Zero
    <3> SUFFICES ASSUME NEW j \in 1 .. col, NEW k \in Rank + 1 .. Len(rows) PROVE rows[k][j] = Zero
      BY <1>1, <1>2
    <3>1. CASE j = col
      BY <3>1, <1>5
    <3>2. CASE j \in 1 .. col - 1
      BY <3>2 DEF EchelonInv, ReducedEchelon
    <3> QED
      BY <3>1, <3>2, <1>1
  <2> QED
    BY <1>2, <2>1 DEF EchelonInv, ReducedEchelon
<1> QED
  BY <1>3, <1>4, <1>6 DEF EchelonInv

\* The system for an order, not yet reduced.
LEMMA HankelType ==
  ASSUME NEW s \in Seq(Int), NEW L \in Nat \ {0}, L <= Len(s)
  PROVE  HankelSystem(s, L) \in Seq(Row(L)) /\ Len(HankelSystem(s, L)) = Len(s) - L
<1>1. Len(s) - L \in Nat
  OBVIOUS
<1>2. ASSUME NEW k \in 1 .. Len(s) - L, NEW i \in 1 .. L + 1
      PROVE  Whole(IF i <= L THEN s[L + k - i] ELSE s[L + k]) \in Rational
  <2>1. (IF i <= L THEN s[L + k - i] ELSE s[L + k]) \in Int
    OBVIOUS
  <2> QED
    BY <2>1, WholeIsFraction
<1>3. HankelSystem(s, L) \in [1 .. Len(s) - L -> Row(L)]
  BY <1>2 DEF HankelSystem, Row
<1> QED
  BY <1>1, <1>3, SequencesAre

LEMMA CapFacts ==
  ASSUME NEW s \in Seq(Int)
  PROVE  Cap(s) \in Nat /\ 2 * Cap(s) <= Len(s) /\ Cap(s) <= MaxOrder
  BY MaxOrderAssumption DEF Cap

\* The orders tried stay within the cap.
OrderInv(s) == searching => order <= Cap(s)

LEMMA FreshEchelon ==
  ASSUME NEW L \in Nat \ {0}, order' = L, rows' \in Seq(Row(L)), pivots' = <<>>, col' = 1
  PROVE  EchelonInv'
<1>1. Rank' = 0
  BY DEF Rank
<1> QED
  BY <1>1 DEF EchelonInv, MatrixInv, PivotsInv, ReducedEchelon

LEMMA EchelonInit ==
  ASSUME NEW s \in Seq(Int), SearchInit(s)
  PROVE  EchelonInv /\ OrderInv(s)
<1>1. rows \in Seq(Row(1))
  <2>1. CASE Cap(s) > 0
    BY <2>1, CapFacts, HankelType DEF SearchInit
  <2>2. CASE ~(Cap(s) > 0)
    BY <2>2 DEF SearchInit
  <2> QED
    BY <2>1, <2>2
<1>2. Rank = 0 /\ order = 1 /\ col = 1 /\ pivots = <<>>
  BY DEF SearchInit, Rank
<1>3. EchelonInv
  BY <1>1, <1>2 DEF EchelonInv, MatrixInv, PivotsInv, ReducedEchelon
<1>4. OrderInv(s)
  <2>1. searching = (Cap(s) > 0)
    BY DEF SearchInit
  <2>2. searching => Cap(s) > 0
    BY <2>1, Zenon
  <2>3. Cap(s) > 0 => 1 <= Cap(s)
    BY CapFacts
  <2> QED
    BY <1>2, <2>2, <2>3, Zenon DEF OrderInv
<1> QED
  BY <1>3, <1>4

LEMMA EchelonStep ==
  ASSUME NEW s \in Seq(Int), EchelonInv, OrderInv(s), SearchNext(s)
  PROVE  EchelonInv' /\ (searching' => order' <= Cap(s))
<1>1. CASE Pivot
  BY <1>1, PivotKeepsEchelon DEF Pivot, OrderInv
<1>2. CASE SkipColumn
  BY <1>2, SkipKeepsEchelon DEF SkipColumn, OrderInv
<1>3. CASE Accept \/ Exhausted(s)
  <2>1. UNCHANGED <<order, rows, pivots, col>> /\ ~ searching'
    BY <1>3 DEF Accept, Exhausted
  <2>2. Rank' = Rank
    BY <2>1 DEF Rank
  <2>3. MatrixInv' /\ PivotsInv'
    BY <2>1, <2>2 DEF EchelonInv, MatrixInv, PivotsInv
  <2>4. ReducedEchelon'
    BY <2>1, <2>2 DEF EchelonInv, ReducedEchelon
  <2> QED
    BY <2>1, <2>3, <2>4 DEF EchelonInv
<1>4. CASE TryNextOrder(s)
  <2>1. /\ order' = order + 1 /\ rows' = HankelSystem(s, order + 1) /\ pivots' = <<>> /\ col' = 1
        /\ order < Cap(s) /\ order \in Nat \ {0}
    BY <1>4 DEF TryNextOrder, EchelonInv, MatrixInv
  <2>2. order + 1 <= Len(s) /\ order + 1 \in Nat \ {0} /\ order + 1 <= Cap(s)
    BY <2>1, CapFacts
  <2>3. rows' \in Seq(Row(order + 1))
    BY <2>1, <2>2, HankelType
  <2> QED
    BY <2>1, <2>2, <2>3, FreshEchelon
<1> QED
  BY <1>1, <1>2, <1>3, <1>4 DEF SearchNext

-----------------------------------------------------------------------------
\* The elimination inside find_bm_candidate, for every sequence and order.
SequenceInv == sequence \in Seq(Int)

LEMMA MiningEchelonInit == MiningInit => SequenceInv /\ EchelonInv /\ OrderInv(sequence)
  BY SequencesAssumption, EchelonInit DEF MiningInit, BMInit, SequenceInv

LEMMA MiningEchelonStep ==
  SequenceInv /\ EchelonInv /\ OrderInv(sequence) /\ [MiningNext]_miningVars
    => (SequenceInv /\ EchelonInv /\ OrderInv(sequence))'
<1> SUFFICES ASSUME SequenceInv, EchelonInv, OrderInv(sequence), [MiningNext]_miningVars
             PROVE  (SequenceInv /\ EchelonInv /\ OrderInv(sequence))'
  OBVIOUS
<1>1. CASE SearchStep
  <2>1. sequence' = sequence /\ SearchNext(sequence)
    BY <1>1 DEF SearchStep, bmVars
  <2> QED
    BY <2>1, EchelonStep DEF SequenceInv, OrderInv, Cap
<1>2. CASE UNCHANGED searchVars /\ sequence' = sequence
  BY <1>2 DEF searchVars, SequenceInv, EchelonInv, MatrixInv, PivotsInv, ReducedEchelon, Rank, OrderInv, Cap
<1>3. CASE TooShort \/ LoopStep \/ Mined \/ UNCHANGED miningVars
  BY <1>2, <1>3 DEF TooShort, LoopStep, Mined, miningVars, bmVars, BMNext, ZeroDiscrepancy, Grow, Correct
<1> QED
  BY <1>1, <1>3 DEF MiningNext

\* The columns the elimination has passed are in reduced echelon form, for
\* every system find_smallest_integer_recurrence builds.
THEOREM EliminationIsReduced == MiningSpec => []ReducedEchelon
<1>1. SequenceInv /\ EchelonInv /\ OrderInv(sequence) => ReducedEchelon
  BY DEF EchelonInv
<1> QED
  BY MiningEchelonInit, MiningEchelonStep, <1>1, PTL DEF MiningSpec

-----------------------------------------------------------------------------
(* Systems of linear equations.                                            *)

\* The rows and the lists of coefficients are vectors, of L rationals or more.
Vector(L, u) == \A j \in 1 .. L : u[j] \in Rational

Dot(L, u, v) == Total([j \in 1 .. L |-> Times(u[j], v[j])])

\* The equation a row stands for, of the values of the unknowns.
Satisfies(L, row, q) == Dot(L, row, q) = row[L + 1]

\* w is u with x times v added.
Combination(L, w, u, x, v) == \A j \in 1 .. L : w[j] = Plus(u[j], Times(x, v[j]))
Multiple(L, w, x, v)       == \A j \in 1 .. L : w[j] = Times(x, v[j])

LEMMA DotNamed ==
  ASSUME NEW L \in Nat, NEW u, NEW v, Vector(L, u), Vector(L, v)
  PROVE  \E t \in Seq(Rational) : /\ Len(t) = L /\ Total(t) = Dot(L, u, v)
                                  /\ \A j \in 1 .. L : t[j] = Times(u[j], v[j])
<1> DEFINE t == [j \in 1 .. L |-> Times(u[j], v[j])]
<1>1. ASSUME NEW j \in 1 .. L PROVE Times(u[j], v[j]) \in Rational
  <2>1. PICK a \in Rational, d \in Rational : a = u[j] /\ d = v[j]
    BY DEF Vector
  <2> QED
    BY <2>1, Closed
<1>2. t \in [1 .. L -> Rational] /\ \A j \in 1 .. L : t[j] = Times(u[j], v[j])
  BY <1>1
<1>3. Total(t) = Dot(L, u, v)
  BY DEF Dot
<1> HIDE DEF t
<1>4. t \in Seq(Rational) /\ Len(t) = L
  BY <1>2, SequencesOf
<1> QED
  BY <1>2, <1>3, <1>4

Terms(t, L, u, v) ==
  /\ t \in Seq(Rational) /\ Len(t) = L /\ Total(t) = Dot(L, u, v)
  /\ \A j \in 1 .. L : t[j] = Times(u[j], v[j])

LEMMA DotTerms ==
  ASSUME NEW L \in Nat, NEW u, NEW v, Vector(L, u), Vector(L, v)
  PROVE  \E t : Terms(t, L, u, v)
  BY DotNamed DEF Terms

LEMMA DotType ==
  ASSUME NEW L \in Nat, NEW u, NEW v, Vector(L, u), Vector(L, v)
  PROVE  Dot(L, u, v) \in Rational
<1>1. PICK t \in Seq(Rational) : Total(t) = Dot(L, u, v)
  BY DotNamed
<1> QED
  BY <1>1, TotalType

LEMMA DotSymmetric ==
  ASSUME NEW L \in Nat, NEW u, NEW v, Vector(L, u), Vector(L, v)
  PROVE  Dot(L, u, v) = Dot(L, v, u)
<1>1. \A j \in 1 .. L : Times(u[j], v[j]) = Times(v[j], u[j])
  BY Commutative DEF Vector
<1> QED
  BY <1>1 DEF Dot

\* Times distributes over a combination.
LEMMA CombinationTimes ==
  ASSUME NEW a \in Rational, NEW x \in Rational, NEW d \in Rational, NEW y \in Rational
  PROVE  Times(Plus(a, Times(x, d)), y) = Plus(Times(a, y), Times(x, Times(d, y)))
<1>1. PICK e \in Rational : e = Times(x, d)
  BY Closed
<1>2. PICK f \in Rational : f = Plus(a, e)
  BY Closed
<1>3. Times(f, y) = Times(y, f) /\ Times(y, f) = Plus(Times(y, a), Times(y, e))
  BY <1>2, Commutative, Distributive
<1>4. Times(y, a) = Times(a, y) /\ Times(y, e) = Times(e, y)
  BY Commutative
<1>5. Times(e, y) = Times(x, Times(d, y))
  BY <1>1, AssociativeTimes
<1> QED
  BY <1>1, <1>2, <1>3, <1>4, <1>5

LEMMA CombinationIsVector ==
  ASSUME NEW L \in Nat, NEW w, NEW u, NEW v, NEW x \in Rational,
         Vector(L, u), Vector(L, v), Combination(L, w, u, x, v)
  PROVE  Vector(L, w)
<1>1. ASSUME NEW j \in 1 .. L PROVE w[j] \in Rational
  <2>1. PICK a \in Rational, d \in Rational : a = u[j] /\ d = v[j] /\ w[j] = Plus(a, Times(x, d))
    BY DEF Vector, Combination
  <2> QED
    BY <2>1, Closed
<1> QED
  BY <1>1 DEF Vector

LEMMA DotLinear ==
  ASSUME NEW L \in Nat, NEW w, NEW u, NEW v, NEW x \in Rational, NEW q,
         Vector(L, u), Vector(L, v), Vector(L, q), Combination(L, w, u, x, v)
  PROVE  Dot(L, w, q) = Plus(Dot(L, u, q), Times(x, Dot(L, v, q)))
<1>1. PICK s : Terms(s, L, u, q)
  BY DotTerms
<1>2. /\ s \in Seq(Rational) /\ Len(s) = L /\ Total(s) = Dot(L, u, q)
      /\ \A j \in 1 .. L : s[j] = Times(u[j], q[j])
  BY <1>1 DEF Terms
<1>3. PICK t : Terms(t, L, v, q)
  BY DotTerms
<1>4. /\ t \in Seq(Rational) /\ Len(t) = L /\ Total(t) = Dot(L, v, q)
      /\ \A j \in 1 .. L : t[j] = Times(v[j], q[j])
  BY <1>3 DEF Terms
<1>5. PICK r : Terms(r, L, w, q)
  BY CombinationIsVector, DotTerms
<1>6. /\ r \in Seq(Rational) /\ Len(r) = L /\ Total(r) = Dot(L, w, q)
      /\ \A j \in 1 .. L : r[j] = Times(w[j], q[j])
  BY <1>5 DEF Terms
<1>7. ASSUME NEW j \in 1 .. L
      PROVE  Times(w[j], q[j]) = Plus(s[j], Times(x, t[j]))
  <2>1. PICK a \in Rational, d \in Rational, y \in Rational : a = u[j] /\ d = v[j] /\ y = q[j]
    BY DEF Vector
  <2>2. w[j] = Plus(a, Times(x, d)) /\ s[j] = Times(a, y) /\ t[j] = Times(d, y)
    BY <1>2, <1>4, <2>1 DEF Combination
  <2> QED
    BY <2>1, <2>2, CombinationTimes
<1>8. Len(s) = Len(r) /\ Len(t) = Len(r) /\ \A j \in 1 .. Len(r) : r[j] = Plus(s[j], Times(x, t[j]))
  BY <1>2, <1>4, <1>6, <1>7
<1>9. Total(r) = Plus(Total(s), Times(x, Total(t)))
  BY <1>2, <1>4, <1>6, <1>8, TotalLinear
<1> QED
  BY <1>2, <1>4, <1>6, <1>9

\* A combination of satisfied equations is satisfied.
LEMMA CombinationSatisfied ==
  ASSUME NEW L \in Nat, NEW w, NEW u, NEW v, NEW x \in Rational, NEW q,
         Vector(L + 1, u), Vector(L + 1, v), Vector(L, q), Combination(L + 1, w, u, x, v),
         Satisfies(L, u, q), Satisfies(L, v, q)
  PROVE  Satisfies(L, w, q)
<1>1. Vector(L, u) /\ Vector(L, v) /\ Combination(L, w, u, x, v)
  BY DEF Vector, Combination
<1>2. w[L + 1] = Plus(u[L + 1], Times(x, v[L + 1]))
  BY DEF Combination
<1>3. Dot(L, w, q) = Plus(Dot(L, u, q), Times(x, Dot(L, v, q)))
  BY <1>1, DotLinear
<1> QED
  BY <1>2, <1>3 DEF Satisfies

LEMMA DotOfZeros ==
  ASSUME NEW L \in Nat, NEW u, NEW q, \A j \in 1 .. L : u[j] = Zero, Vector(L, q)
  PROVE  Dot(L, u, q) = Zero
<1>1. Vector(L, u)
  BY Constants DEF Vector
<1>2. PICK t \in Seq(Rational) : /\ Len(t) = L /\ Total(t) = Dot(L, u, q)
                                 /\ \A j \in 1 .. L : t[j] = Times(u[j], q[j])
  BY <1>1, DotNamed
<1>3. \A j \in 1 .. Len(t) : t[j] = Zero
  BY <1>2, Neutral DEF Vector
<1> QED
  BY <1>2, <1>3, TotalOfZeros

LEMMA DotScaled ==
  ASSUME NEW L \in Nat, NEW w, NEW v, NEW x \in Rational, NEW q,
         Vector(L, v), Vector(L, q), Multiple(L, w, x, v)
  PROVE  Dot(L, w, q) = Times(x, Dot(L, v, q))
<1>1. PICK z : z = [j \in 1 .. L |-> Zero]
  OBVIOUS
<1>2. Vector(L, z) /\ \A j \in 1 .. L : z[j] = Zero
  BY <1>1, Constants DEF Vector
<1>3. ASSUME NEW j \in 1 .. L PROVE w[j] = Plus(z[j], Times(x, v[j]))
  <2>1. PICK a \in Rational : a = v[j] /\ w[j] = Times(x, a)
    BY DEF Vector, Multiple
  <2>2. Times(x, a) \in Rational
    BY Closed
  <2> QED
    BY <1>2, <2>1, <2>2, Neutral
<1>4. Combination(L, w, z, x, v)
  BY <1>3 DEF Combination
<1>5. Dot(L, w, q) = Plus(Dot(L, z, q), Times(x, Dot(L, v, q)))
  BY <1>2, <1>4, DotLinear
<1>6. Dot(L, z, q) = Zero
  BY <1>2, DotOfZeros
<1>7. PICK d \in Rational : d = Dot(L, v, q)
  BY DotType
<1>8. Times(x, d) \in Rational
  BY Closed
<1> QED
  BY <1>5, <1>6, <1>7, <1>8, Neutral

LEMMA MultipleSatisfied ==
  ASSUME NEW L \in Nat, NEW w, NEW v, NEW x \in Rational, NEW q,
         Vector(L + 1, v), Vector(L, q), Multiple(L + 1, w, x, v), Satisfies(L, v, q)
  PROVE  Satisfies(L, w, q)
<1>1. Vector(L, v) /\ Multiple(L, w, x, v)
  BY DEF Vector, Multiple
<1>2. w[L + 1] = Times(x, v[L + 1])
  BY DEF Multiple
<1>3. Dot(L, w, q) = Times(x, Dot(L, v, q))
  BY <1>1, DotScaled
<1> QED
  BY <1>2, <1>3 DEF Satisfies

-----------------------------------------------------------------------------
(* What a step of the elimination does to the solutions: nothing.          *)
Solves(L, M, q) == \A k \in 1 .. Len(M) : Satisfies(L, M[k], q)

LEMMA MinusTimes ==
  ASSUME NEW a \in Rational, NEW d \in Rational
  PROVE  Minus(Times(a, d)) = Times(Minus(a), d)
<1>1. PICK e \in Rational : e = Minus(a) /\ Plus(e, a) = Zero
  BY Opposite
<1>2. Times(d, Plus(e, a)) = Plus(Times(d, e), Times(d, a))
  BY <1>1, Distributive
<1>3. Times(d, e) = Times(e, d) /\ Times(d, a) = Times(a, d)
  BY <1>1, Commutative
<1>4. Times(d, Zero) = Zero
  BY Neutral
<1>5. PICK g \in Rational : g = Times(e, d)
  BY <1>1, Closed
<1>6. PICK h \in Rational : h = Times(a, d)
  BY Closed
<1>7. Plus(g, h) = Zero
  BY <1>1, <1>2, <1>3, <1>4, <1>5, <1>6
<1>8. Minus(h) \in Rational /\ Plus(Minus(h), h) = Zero
  BY Opposite
<1>9. Minus(h) = g
  BY <1>7, <1>8, Cancellation
<1> QED
  BY <1>1, <1>5, <1>6, <1>9

LEMMA DivideIsMultiple ==
  ASSUME NEW r \in Rational, NEW x \in Rational, x # Zero
  PROVE  /\ Divide(One, x) \in Rational /\ Divide(r, x) \in Rational
         /\ Divide(r, x) = Times(Divide(One, x), r)
         /\ r = Times(x, Divide(r, x))
<1>1. PICK d \in Rational : d = Divide(r, x) /\ Times(d, x) = r
  BY Quotient
<1>2. PICK y \in Rational : y = Divide(One, x) /\ Times(y, x) = One
  BY Quotient, Constants
<1>3. Times(x, d) = r
  BY <1>1, Commutative
<1>4. Times(y, Times(x, d)) = Times(Times(y, x), d)
  BY <1>1, <1>2, AssociativeTimes
<1>5. Times(One, d) = d
  BY Neutral
<1> QED
  BY <1>1, <1>2, <1>3, <1>4, <1>5

LEMMA PivotKeepsSolutions ==
  ASSUME EchelonInv, Pivot, NEW q, Vector(order, q)
  PROVE  Solves(order, rows', q) <=> Solves(order, rows, q)
<1>1. PICK first \in Rank + 1 .. Len(rows), x \in Rational, t \in Row(order) :
        /\ x # Zero /\ x = rows[first][col]
        /\ \A j \in 1 .. order + 1 : t[j] = Divide(rows[first][j], x)
        /\ rows' \in Seq(Row(order)) /\ Len(rows') = Len(rows) /\ rows'[Rank + 1] = t
        /\ \A k \in 1 .. Len(rows), j \in 1 .. order + 1 :
             k # Rank + 1 =>
               rows'[k][j] = Plus(rows[Swap(k, first)][j],
                                  Minus(Times(rows[Swap(k, first)][col], t[j])))
  BY PivotRows
<1>2. /\ order \in Nat \ {0} /\ col \in 1 .. order + 1 /\ rows \in Seq(Row(order))
      /\ Rank \in Nat /\ Len(rows) \in Nat
  BY DEF EchelonInv, MatrixInv, Rank
<1>3. /\ order \in Nat /\ Vector(order + 1, t)
      /\ \A k \in 1 .. Len(rows) : Vector(order + 1, rows[k]) /\ Vector(order + 1, rows'[k])
  BY <1>1, <1>2 DEF Row, Vector
<1>4. first \in 1 .. Len(rows) /\ Rank + 1 \in 1 .. Len(rows)
  BY <1>1, <1>2
<1>5. PICK y \in Rational : Multiple(order + 1, t, y, rows[first]) /\ Multiple(order + 1, rows[first], x, t)
  <2>1. ASSUME NEW j \in 1 .. order + 1
        PROVE  /\ Divide(One, x) \in Rational
               /\ t[j] = Times(Divide(One, x), rows[first][j])
               /\ rows[first][j] = Times(x, t[j])
    <3>1. PICK r \in Rational : r = rows[first][j]
      BY <1>3, <1>4 DEF Vector
    <3> QED
      BY <3>1, <1>1, DivideIsMultiple
  <2>2. Divide(One, x) \in Rational
    BY <1>1, DivideIsMultiple, Constants
  <2> QED
    BY <2>1, <2>2 DEF Multiple
<1>6. Satisfies(order, rows[first], q) <=> Satisfies(order, t, q)
  BY <1>1, <1>3, <1>4, <1>5, MultipleSatisfied
<1>7. ASSUME NEW k \in 1 .. Len(rows), k # Rank + 1, NEW i \in 1 .. Len(rows), i = Swap(k, first)
      PROVE  \E z \in Rational : /\ Combination(order + 1, rows'[k], rows[i], Minus(z), t)
                                 /\ Combination(order + 1, rows[i], rows'[k], z, t)
                                 /\ Minus(z) \in Rational
  <2>1. PICK z \in Rational : z = rows[i][col] /\ Minus(z) \in Rational
    BY <1>2, <1>3, Opposite DEF Vector
  <2>2. ASSUME NEW j \in 1 .. order + 1
        PROVE  /\ rows'[k][j] = Plus(rows[i][j], Times(Minus(z), t[j]))
               /\ rows[i][j] = Plus(rows'[k][j], Times(z, t[j]))
    <3>1. PICK a \in Rational, d \in Rational : a = rows[i][j] /\ d = t[j]
      BY <1>3 DEF Vector
    <3>2. rows'[k][j] = Plus(a, Minus(Times(z, d)))
      BY <1>1, <1>7, <2>1, <3>1
    <3>3. Minus(Times(z, d)) = Times(Minus(z), d)
      BY MinusTimes
    <3>4. PICK e \in Rational : e = Times(z, d)
      BY Closed
    <3>5. Plus(Minus(e), e) = Zero /\ Minus(e) \in Rational
      BY Opposite
    <3>6. Plus(Plus(a, Minus(e)), e) = Plus(a, Plus(Minus(e), e))
      BY <3>5, AssociativePlus
    <3>7. Plus(a, Zero) = a
      BY Neutral
    <3> QED
      BY <3>1, <3>2, <3>3, <3>4, <3>5, <3>6, <3>7
  <2> QED
    BY <2>1, <2>2 DEF Combination
<1>8. ASSUME Solves(order, rows, q) PROVE Solves(order, rows', q)
  <2>1. Satisfies(order, t, q)
    BY <1>4, <1>6, <1>8 DEF Solves
  <2>2. ASSUME NEW k \in 1 .. Len(rows), k # Rank + 1 PROVE Satisfies(order, rows'[k], q)
    <3>1. PICK i \in 1 .. Len(rows) : i = Swap(k, first)
      BY <1>4, <2>2 DEF Swap
    <3>2. PICK z \in Rational : Combination(order + 1, rows'[k], rows[i], Minus(z), t) /\ Minus(z) \in Rational
      BY <1>7, <2>2, <3>1
    <3>3. Satisfies(order, rows[i], q)
      BY <1>8 DEF Solves
    <3> QED
      BY <1>3, <2>1, <3>2, <3>3, CombinationSatisfied
  <2> QED
    BY <1>1, <2>1, <2>2 DEF Solves
<1>9. ASSUME Solves(order, rows', q) PROVE Solves(order, rows, q)
  <2>1. Satisfies(order, t, q) /\ Satisfies(order, rows[first], q)
    BY <1>1, <1>4, <1>6, <1>9 DEF Solves
  <2>2. ASSUME NEW i \in 1 .. Len(rows), i # first PROVE Satisfies(order, rows[i], q)
    <3>1. PICK k \in 1 .. Len(rows) : k # Rank + 1 /\ i = Swap(k, first)
      BY <1>4, <2>2 DEF Swap
    <3>2. PICK z \in Rational : Combination(order + 1, rows[i], rows'[k], z, t)
      BY <1>7, <3>1
    <3>3. Satisfies(order, rows'[k], q)
      BY <1>1, <1>9 DEF Solves
    <3> QED
      BY <1>3, <2>1, <3>2, <3>3, CombinationSatisfied
  <2> QED
    BY <2>1, <2>2 DEF Solves
<1> QED
  BY <1>8, <1>9

-----------------------------------------------------------------------------
(* The system when every column has been passed.                           *)
Passed == EchelonInv /\ col = order + 1

LEMMA PassedTypes ==
  ASSUME Passed
  PROVE  /\ order \in Nat \ {0} /\ order \in Nat /\ Rank \in Nat /\ Rank <= order /\ Rank <= Len(rows)
         /\ Len(rows) \in Nat
         /\ \A k \in 1 .. Len(rows) : /\ Vector(order, rows[k]) /\ rows[k][order + 1] \in Rational
                                      /\ \A j \in 1 .. order : rows[k][j] \in Rational
         /\ \A k \in Rank + 1 .. Len(rows), j \in 1 .. order : k \in 1 .. Len(rows) /\ rows[k][j] = Zero
         /\ \A r \in 1 .. Rank : pivots[r] \in 1 .. order
<1>1. /\ order \in Nat \ {0} /\ rows \in Seq(Row(order)) /\ col = order + 1 /\ Rank \in Nat
      /\ Rank <= col - 1 /\ Rank <= Len(rows)
  BY DEF Passed, EchelonInv, MatrixInv, PivotsInv, ReducedEchelon, Rank
<1>2. \A k \in 1 .. Len(rows) : /\ Vector(order, rows[k]) /\ rows[k][order + 1] \in Rational
                                /\ \A j \in 1 .. order : rows[k][j] \in Rational
  BY <1>1 DEF Row, Vector
<1>3. col - 1 = order
  BY <1>1
<1>4. \A k \in Rank + 1 .. Len(rows), j \in 1 .. order : k \in 1 .. Len(rows) /\ rows[k][j] = Zero
  BY <1>1, <1>3 DEF Passed, EchelonInv, ReducedEchelon
<1>5. \A r \in 1 .. Rank : pivots[r] \in 1 .. order
  BY <1>3 DEF Passed, EchelonInv, PivotsInv
<1> QED
  BY <1>1, <1>2, <1>3, <1>4, <1>5

\* A system with a solution is not found inconsistent.
LEMMA SolvableIsConsistent ==
  ASSUME Passed, NEW q, Vector(order, q), Solves(order, rows, q)
  PROVE  ~ Inconsistent
<1> SUFFICES ASSUME NEW k \in Rank + 1 .. Len(rows), rows[k][order + 1] # Zero,
                    \A j \in 1 .. order : rows[k][j] = Zero
             PROVE  FALSE
  BY DEF Inconsistent
<1>1. k \in 1 .. Len(rows) /\ order \in Nat
  BY PassedTypes
<1>2. Dot(order, rows[k], q) = Zero
  BY <1>1, DotOfZeros
<1> QED
  BY <1>1, <1>2 DEF Solves, Satisfies

\* A row of the unit matrix names one unknown.
LEMMA DotOfUnit ==
  ASSUME NEW L \in Nat, NEW u, NEW q, Vector(L, q), NEW k \in 1 .. L,
         \A j \in 1 .. L : u[j] = IF j = k THEN One ELSE Zero
  PROVE  Dot(L, u, q) = q[k]
<1>1. Vector(L, u)
  BY Constants DEF Vector
<1>2. PICK t \in Seq(Rational) : /\ Len(t) = L /\ Total(t) = Dot(L, u, q)
                                 /\ \A j \in 1 .. L : t[j] = Times(u[j], q[j])
  BY <1>1, DotNamed
<1>3. ASSUME NEW j \in 1 .. L PROVE t[j] = IF j = k THEN q[k] ELSE Zero
  <2>1. PICK y \in Rational : y = q[j]
    BY DEF Vector
  <2> QED
    BY <1>2, <2>1, Neutral
<1>4. Total(t) = t[k]
  BY <1>2, <1>3, TotalOfSingle
<1> QED
  BY <1>2, <1>3, <1>4

\* With a pivot in every column, the first rows are those of the unit matrix.
LEMMA PivotRowNames ==
  ASSUME Passed, Rank = order, NEW k \in 1 .. order, NEW q, Vector(order, q)
  PROVE  k \in 1 .. Len(rows) /\ Dot(order, rows[k], q) = q[k]
<1>1. /\ order \in Nat /\ k \in 1 .. Len(rows)
  BY PassedTypes
<1>2. \A r \in 1 .. order : pivots[r] = r
  <2>1. Rank = col - 1
    BY <1>1 DEF Passed
  <2> QED
    BY <2>1 DEF Passed, EchelonInv, PivotsInv
<1>3. \A j \in 1 .. order : rows[k][j] = IF j = k THEN One ELSE Zero
  BY <1>1, <1>2 DEF Passed, EchelonInv, ReducedEchelon
<1> QED
  BY <1>1, <1>3, DotOfUnit

\* What the elimination reads off is the solution, and the only one.
LEMMA UniqueIsTheSolution ==
  ASSUME Passed, Unique, NEW q \in Seq(Rational), Len(q) = order
  PROVE  Solves(order, rows, q) <=> q = Solution
<1>1. Rank = order /\ ~ Inconsistent
  BY DEF Unique
<1>2. order \in Nat /\ Vector(order, q) /\ q \in [1 .. order -> Rational]
  BY PassedTypes DEF Vector
<1>3. Solution \in [1 .. order -> Rational] /\ \A r \in 1 .. order : Solution[r] = rows[r][order + 1]
  BY <1>1, PassedTypes DEF Solution
<1>4. ASSUME Solves(order, rows, q) PROVE q = Solution
  <2>1. ASSUME NEW r \in 1 .. order PROVE q[r] = Solution[r]
    <3>1. r \in 1 .. Len(rows) /\ Dot(order, rows[r], q) = q[r]
      BY <1>1, <1>2, PivotRowNames
    <3>2. Satisfies(order, rows[r], q)
      BY <1>4, <3>1 DEF Solves
    <3> QED
      BY <1>3, <3>1, <3>2 DEF Satisfies
  <2> QED
    BY <1>2, <1>3, <2>1
<1>5. ASSUME q = Solution, NEW k \in 1 .. Len(rows) PROVE Satisfies(order, rows[k], q)
  <2>1. CASE k \in 1 .. order
    <3>1. Dot(order, rows[k], q) = q[k]
      BY <1>1, <1>2, <2>1, PivotRowNames
    <3> QED
      BY <1>3, <1>5, <2>1, <3>1 DEF Satisfies
  <2>2. CASE k \in Rank + 1 .. Len(rows)
    <3>1. \A j \in 1 .. order : rows[k][j] = Zero
      BY <2>2, PassedTypes
    <3>2. rows[k][order + 1] = Zero
      BY <1>1, <2>2, <3>1 DEF Inconsistent
    <3>3. Dot(order, rows[k], q) = Zero
      BY <1>2, <3>1, DotOfZeros
    <3> QED
      BY <3>2, <3>3 DEF Satisfies
  <2> QED
    BY <1>1, <1>2, <2>1, <2>2
<1> QED
  BY <1>4, <1>5 DEF Solves

-----------------------------------------------------------------------------
(* A column without a pivot.                                               *)

\* The step that leaves every equation as it was: one more of the unknown f,
\* and each unknown that has a pivot makes up for it.
Direction(f) ==
  [j \in 1 .. order |->
     IF j = f THEN One
     ELSE IF \E r \in 1 .. Rank : pivots[r] = j
     THEN Minus(rows[CHOOSE r \in 1 .. Rank : pivots[r] = j][f])
     ELSE Zero]

LEMMA DirectionFacts ==
  ASSUME Passed, NEW f \in 1 .. order, \A r \in 1 .. Rank : pivots[r] # f
  PROVE  /\ Direction(f) \in [1 .. order -> Rational]
         /\ Direction(f)[f] = One
         /\ \A r \in 1 .. Rank : Direction(f)[pivots[r]] = Minus(rows[r][f])
         /\ \A j \in 1 .. order : j # f /\ (\A r \in 1 .. Rank : pivots[r] # j) => Direction(f)[j] = Zero
<1> DEFINE At(j) == CHOOSE r \in 1 .. Rank : pivots[r] = j
<1>1. ASSUME NEW r \in 1 .. Rank PROVE At(pivots[r]) = r
  <2>1. PICK p \in 1 .. Rank : p = At(pivots[r]) /\ pivots[p] = pivots[r]
    BY Zenon
  <2>2. \A u, v \in 1 .. Rank : u < v => pivots[u] < pivots[v]
    BY DEF Passed, EchelonInv, ReducedEchelon
  <2>3. Rank \in Nat /\ pivots[p] \in 1 .. order /\ pivots[r] \in 1 .. order
    BY PassedTypes
  <2>4. ~ (p < r) /\ ~ (r < p)
    BY <2>1, <2>2, <2>3
  <2> QED
    BY <2>1, <2>3, <2>4
<1>2. ASSUME NEW j \in 1 .. order
      PROVE  Direction(f)[j] = IF j = f THEN One
                               ELSE IF \E r \in 1 .. Rank : pivots[r] = j THEN Minus(rows[At(j)][f])
                               ELSE Zero
  BY Zenon DEF Direction
<1>3. \A r \in 1 .. Rank : pivots[r] \in 1 .. order /\ r \in 1 .. Len(rows) /\ rows[r][f] \in Rational
  BY PassedTypes
<1>4. ASSUME NEW r \in 1 .. Rank PROVE Direction(f)[pivots[r]] = Minus(rows[r][f])
  <2>1. PICK j \in 1 .. order : j = pivots[r] /\ j # f
    BY <1>3
  <2>2. At(j) = r
    BY <1>1, <2>1
  <2> HIDE DEF At
  <2> QED
    BY <1>2, <2>1, <2>2
<1> HIDE DEF At
<1>5. Direction(f)[f] = One
  BY <1>2
<1>6. \A j \in 1 .. order : j # f /\ (\A r \in 1 .. Rank : pivots[r] # j) => Direction(f)[j] = Zero
  BY <1>2
<1>7. ASSUME NEW j \in 1 .. order PROVE Direction(f)[j] \in Rational
  <2>1. CASE j = f
    BY <1>5, <2>1, Constants
  <2>2. CASE \E r \in 1 .. Rank : pivots[r] = j
    <3>1. PICK r \in 1 .. Rank : pivots[r] = j
      BY <2>2
    <3> QED
      BY <1>3, <1>4, <3>1, Opposite
  <2> QED
    BY <1>6, <2>1, <2>2, Constants
<1>8. Direction(f) = [j \in 1 .. order |-> Direction(f)[j]]
  BY DEF Direction
<1> QED
  BY <1>4, <1>5, <1>6, <1>7, <1>8

\* The step is orthogonal to every row.
LEMMA DirectionIsFree ==
  ASSUME Passed, NEW f \in 1 .. order, \A r \in 1 .. Rank : pivots[r] # f, NEW k \in 1 .. Len(rows)
  PROVE  Dot(order, rows[k], Direction(f)) = Zero
<1>1. PICK d : d = Direction(f)
  OBVIOUS
<1>2. /\ Vector(order, d) /\ d[f] = One
      /\ \A r \in 1 .. Rank : d[pivots[r]] = Minus(rows[r][f])
      /\ \A j \in 1 .. order : j # f /\ (\A r \in 1 .. Rank : pivots[r] # j) => d[j] = Zero
  BY <1>1, DirectionFacts DEF Vector
<1>3. /\ order \in Nat /\ Rank \in Nat /\ Vector(order, rows[k])
      /\ \A j \in 1 .. order : rows[k][j] \in Rational
  BY PassedTypes
<1>4. CASE k \in Rank + 1 .. Len(rows)
  <2>1. \A j \in 1 .. order : rows[k][j] = Zero
    BY <1>4, PassedTypes
  <2> QED
    BY <1>1, <1>2, <1>3, <2>1, DotOfZeros
<1>5. CASE k \in 1 .. Rank
  <2>1. PICK p \in 1 .. order : p = pivots[k] /\ p # f
    BY <1>5, PassedTypes
  <2>2. \A r \in 1 .. Rank : rows[k][pivots[r]] = IF k = r THEN One ELSE Zero
    BY DEF Passed, EchelonInv, ReducedEchelon
  <2>3. PICK a \in Rational : a = rows[k][f] /\ Minus(a) \in Rational /\ Plus(a, Minus(a)) = Zero
    BY <1>3, Opposite
  <2>4. PICK u : u = rows[k] /\ Vector(order, u)
    BY <1>3
  <2>5. PICK t \in Seq(Rational) : /\ Len(t) = order /\ Total(t) = Dot(order, u, d)
                                   /\ \A j \in 1 .. order : t[j] = Times(u[j], d[j])
    BY <1>2, <1>3, <2>4, DotNamed
  <2>6. t[f] = a
    BY <1>2, <2>3, <2>5, <2>4, Neutral
  <2>7. t[p] = Minus(a)
    <3>1. u[p] = One /\ d[p] = Minus(a)
      BY <1>2, <1>5, <2>1, <2>2, <2>3, <2>4
    <3> QED
      BY <2>3, <2>5, <3>1, Neutral
  <2>8. ASSUME NEW j \in 1 .. order, j # f, j # p PROVE t[j] = Zero
    <3>1. PICK x \in Rational, y \in Rational : x = u[j] /\ y = d[j]
      BY <1>2, <2>4 DEF Vector
    <3>2. t[j] = Times(x, y) /\ Times(Zero, y) = Zero /\ Times(x, Zero) = Zero
      BY <2>5, <3>1, Neutral
    <3>3. CASE \E r \in 1 .. Rank : pivots[r] = j
      <4>1. x = Zero
        BY <2>1, <2>2, <2>8, <2>4, <3>1, <3>3
      <4> QED
        BY <3>2, <4>1
    <3>4. CASE \A r \in 1 .. Rank : pivots[r] # j
      <4>1. y = Zero
        BY <1>2, <2>8, <3>1, <3>4
      <4> QED
        BY <3>2, <4>1
    <3> QED
      BY <3>3, <3>4
  <2>9. Total(t) = Plus(t[f], t[p])
    BY <2>1, <2>5, <2>8, TotalOfTwo
  <2> QED
    BY <1>1, <2>3, <2>5, <2>6, <2>7, <2>9, <2>4
<1> QED
  BY <1>3, <1>4, <1>5

\* With a column that has no pivot, a solution is never the only one.
LEMMA FreeColumnIsNotUnique ==
  ASSUME Passed, Rank # order, NEW q \in Seq(Rational), Len(q) = order, Solves(order, rows, q)
  PROVE  \E w \in Seq(Rational) : Len(w) = order /\ w # q /\ Solves(order, rows, w)
<1>1. order \in Nat /\ Vector(order, q) /\ Rank < order
  BY PassedTypes DEF Vector
<1>2. PICK f \in 1 .. order : \A r \in 1 .. Rank : pivots[r] # f
  <2>1. col - 1 = order
    BY <1>1 DEF Passed
  <2> QED
    BY <1>1, <2>1 DEF Passed, EchelonInv, PivotsInv
<1>3. PICK d : d = Direction(f) /\ d \in [1 .. order -> Rational] /\ d[f] = One
  BY <1>2, DirectionFacts
<1>4. Vector(order, d)
  BY <1>3 DEF Vector
<1> DEFINE w == [j \in 1 .. order |-> Plus(q[j], Times(One, d[j]))]
<1>5. ASSUME NEW j \in 1 .. order PROVE w[j] = Plus(q[j], Times(One, d[j])) /\ w[j] \in Rational
  <2>1. PICK x \in Rational, y \in Rational : x = q[j] /\ y = d[j]
    BY <1>1, <1>4 DEF Vector
  <2>2. Times(One, y) \in Rational
    BY Closed, Constants
  <2>3. Plus(x, Times(One, y)) \in Rational
    BY <2>2, Closed
  <2> QED
    BY <2>1, <2>3
<1>6. w \in [1 .. order -> Rational]
  BY <1>5
<1> HIDE DEF w
<1>7. w \in Seq(Rational) /\ Len(w) = order /\ Vector(order, w) /\ Combination(order, w, q, One, d)
  BY <1>1, <1>5, <1>6, SequencesOf DEF Vector, Combination
<1>8. w # q
  <2>1. PICK x \in Rational : x = q[f]
    BY <1>1 DEF Vector
  <2>2. w[f] = Plus(x, One)
    BY <1>3, <1>5, <2>1, Neutral, Constants
  <2>3. ASSUME Plus(x, One) = x PROVE FALSE
    <3>1. Minus(x) \in Rational /\ Plus(Minus(x), x) = Zero
      BY Opposite
    <3>2. Plus(Plus(Minus(x), x), One) = Plus(Minus(x), Plus(x, One))
      BY <3>1, AssociativePlus, Constants
    <3>3. Plus(Zero, One) = One
      BY Neutral, Constants
    <3> QED
      BY <2>3, <3>1, <3>2, <3>3, Constants
  <2> QED
    BY <2>1, <2>2, <2>3
<1>9. ASSUME NEW k \in 1 .. Len(rows) PROVE Satisfies(order, rows[k], w)
  <2>1. PICK u : u = rows[k] /\ Vector(order, u)
    BY PassedTypes
  <2>2. Dot(order, w, u) = Plus(Dot(order, q, u), Times(One, Dot(order, d, u)))
    BY <1>1, <1>4, <1>7, <2>1, DotLinear, Constants
  <2>3. Dot(order, d, u) = Zero
    BY <1>1, <1>2, <1>3, <1>4, <2>1, DirectionIsFree, DotSymmetric
  <2>4. PICK z \in Rational : z = Dot(order, u, q) /\ z = Dot(order, q, u)
    BY <1>1, <2>1, DotType, DotSymmetric
  <2>5. Dot(order, u, w) = Dot(order, w, u)
    BY <1>1, <1>7, <2>1, DotSymmetric
  <2>6. Plus(z, Times(One, Zero)) = z
    BY Neutral, Constants
  <2>7. Dot(order, u, w) = z
    BY <2>2, <2>3, <2>4, <2>5, <2>6
  <2>8. z = u[order + 1]
    BY <2>1, <2>4 DEF Solves, Satisfies
  <2> QED
    BY <2>1, <2>7, <2>8 DEF Satisfies
<1> QED
  BY <1>7, <1>8, <1>9 DEF Solves

-----------------------------------------------------------------------------
(* The search.                                                             *)

\* The solutions of the system for an order are the recurrences of that order.
LEMMA HankelSolutions ==
  ASSUME NEW s \in Seq(Int), NEW L \in Nat \ {0}, L <= Len(s), NEW q \in Seq(Rational), Len(q) = L
  PROVE  Solves(L, HankelSystem(s, L), q) <=> Reproduces(q, s, Len(s))
<1>1. /\ Len(HankelSystem(s, L)) = Len(s) - L /\ L \in Nat /\ Len(s) \in Nat
      /\ \A k \in 1 .. Len(s) - L :
           /\ HankelSystem(s, L)[k][L + 1] = Whole(s[L + k])
           /\ \A j \in 1 .. L : HankelSystem(s, L)[k][j] = Whole(s[L + k - j])
  BY HankelType DEF HankelSystem
<1>2. ASSUME NEW k \in 1 .. Len(s) - L, NEW i \in Int, i = L + k - 1
      PROVE  /\ HankelSystem(s, L)[k][L + 1] = Whole(s[i + 1])
             /\ Dot(L, HankelSystem(s, L)[k], q) = Total([j \in 1 .. Len(q) |-> Times(q[j], Whole(s[i - j + 1]))])
  <2>1. i + 1 = L + k
    BY <1>1, <1>2
  <2>2. ASSUME NEW j \in 1 .. L
        PROVE  Times(HankelSystem(s, L)[k][j], q[j]) = Times(q[j], Whole(s[i - j + 1]))
    <3>1. HankelSystem(s, L)[k][j] = Whole(s[i - j + 1]) /\ s[i - j + 1] \in Int
      <4>1. L \in Int /\ Len(s) \in Int /\ k \in Int /\ j \in Int /\ k <= Len(s) - L /\ 1 <= k /\ 1 <= j /\ j <= L
        BY <1>1
      <4>2. i - j + 1 = L + k - j /\ L + k - j \in 1 .. Len(s)
        BY <4>1, <1>2
      <4>3. s[L + k - j] \in Int
        BY <4>2
      <4>4. HankelSystem(s, L)[k][j] = Whole(s[L + k - j])
        BY <1>1
      <4> QED
        BY <4>2, <4>3, <4>4
    <3>2. Whole(s[i - j + 1]) \in Rational /\ q[j] \in Rational
      BY <3>1, WholeIsFraction
    <3> QED
      BY <3>1, <3>2, Commutative
  <2>3. [j \in 1 .. L |-> Times(HankelSystem(s, L)[k][j], q[j])] = [j \in 1 .. L |-> Times(q[j], Whole(s[i - j + 1]))]
    BY <2>2, Zenon
  <2>4. Dot(L, HankelSystem(s, L)[k], q) = Total([j \in 1 .. L |-> Times(q[j], Whole(s[i - j + 1]))])
    BY <2>3 DEF Dot
  <2> QED
    BY <1>1, <2>1, <2>4
<1> DEFINE Term(i) == Total([j \in 1 .. Len(q) |-> Times(q[j], Whole(s[i - j + 1]))])
<1> HIDE DEF Term
<1>3. \A k \in 1 .. Len(s) - L :
        Satisfies(L, HankelSystem(s, L)[k], q) <=> Whole(s[L + k - 1 + 1]) = Term(L + k - 1)
  BY <1>1, <1>2 DEF Satisfies, Term
<1>4. Reproduces(q, s, Len(s)) <=> \A i \in L .. Len(s) - 1 : Whole(s[i + 1]) = Term(i)
  BY Zenon DEF Reproduces, Term
<1>5. ASSUME Reproduces(q, s, Len(s)), NEW k \in 1 .. Len(s) - L
      PROVE  Satisfies(L, HankelSystem(s, L)[k], q)
  <2>1. L + k - 1 \in L .. Len(s) - 1
    BY <1>1
  <2> QED
    BY <1>3, <1>4, <1>5, <2>1
<1>6. ASSUME Solves(L, HankelSystem(s, L), q), NEW i \in L .. Len(s) - 1
      PROVE  Whole(s[i + 1]) = Term(i)
  <2>1. PICK k \in 1 .. Len(s) - L : k = i - L + 1 /\ L + k - 1 = i
    BY <1>1
  <2>2. Satisfies(L, HankelSystem(s, L)[k], q)
    BY <1>1, <1>6 DEF Solves
  <2> QED
    BY <1>3, <2>1, <2>2
<1> QED
  BY <1>1, <1>4, <1>5, <1>6 DEF Solves

\* A recurrence the search is after: integral, and the only one of its order.
Wanted(q, s) == OnlyOne(q, s, Len(s)) /\ \A i \in 1 .. Len(q) : Integral(q[i])

NoneBelow(s, o) == \A q \in Seq(Rational) : 1 <= Len(q) /\ Len(q) < o => ~ Wanted(q, s)

SameSolutions(s) ==
  \A q \in Seq(Rational) :
    Len(q) = order => (Solves(order, rows, q) <=> Reproduces(q, s, Len(s)))

SmallestFound(s) ==
  IF found = <<>> THEN NoneBelow(s, Cap(s) + 1)
  ELSE /\ found \in Seq(Rational) /\ 1 <= Len(found) /\ Len(found) <= Cap(s)
       /\ Wanted(found, s) /\ NoneBelow(s, Len(found))

SearchInv(s) ==
  /\ EchelonInv
  /\ OrderInv(s)
  /\ searching => found = <<>> /\ NoneBelow(s, order) /\ SameSolutions(s)
  /\ ~ searching => SmallestFound(s)

\* What the elimination decides about an order.
LEMMA DecisionIsRight ==
  ASSUME NEW s \in Seq(Int), SearchInv(s), searching, col > order
  PROVE  /\ order \in Nat \ {0}
         /\ IntegralSolution => /\ Solution \in Seq(Rational) /\ Len(Solution) = order
                                /\ Wanted(Solution, s)
         /\ ~ IntegralSolution => \A q \in Seq(Rational) : Len(q) = order => ~ Wanted(q, s)
<1>1. Passed
  BY DEF SearchInv, EchelonInv, MatrixInv, Passed
<1>2. /\ order \in Nat \ {0} /\ order \in Nat /\ SameSolutions(s)
  BY <1>1, PassedTypes DEF SearchInv
<1>3. ASSUME IntegralSolution
      PROVE  /\ Solution \in Seq(Rational) /\ Len(Solution) = order /\ Wanted(Solution, s)
  <2>1. Unique /\ Rank = order /\ \A r \in 1 .. order : Integral(Solution[r])
    BY <1>3 DEF IntegralSolution, Unique
  <2>2. Solution \in [1 .. order -> Rational]
    BY <1>1, <2>1, PassedTypes DEF Solution
  <2>3. Solution \in Seq(Rational) /\ Len(Solution) = order
    BY <1>2, <2>2, SequencesOf
  <2>4. \A q \in Seq(Rational) : Len(q) = order => (Reproduces(q, s, Len(s)) <=> q = Solution)
    BY <1>1, <1>2, <2>1, UniqueIsTheSolution DEF SameSolutions
  <2>5. OnlyOne(Solution, s, Len(s))
    BY <2>3, <2>4 DEF OnlyOne
  <2> QED
    BY <2>1, <2>3, <2>5 DEF Wanted
<1>4. ASSUME NEW q \in Seq(Rational), Len(q) = order, Wanted(q, s)
      PROVE  IntegralSolution
  <2>1. OnlyOne(q, s, Len(s)) /\ Reproduces(q, s, Len(s)) /\ \A i \in 1 .. order : Integral(q[i])
    BY <1>4 DEF Wanted, OnlyOne
  <2>2. Solves(order, rows, q) /\ Vector(order, q)
    BY <1>2, <1>4, <2>1 DEF SameSolutions, Vector
  <2>3. ~ Inconsistent
    BY <1>1, <2>2, SolvableIsConsistent
  <2>4. Rank = order
    <3> SUFFICES ASSUME Rank # order PROVE FALSE
      OBVIOUS
    <3>1. PICK w \in Seq(Rational) : Len(w) = order /\ w # q /\ Solves(order, rows, w)
      BY <1>1, <1>4, <2>2, FreeColumnIsNotUnique
    <3>2. Reproduces(w, s, Len(s))
      BY <1>2, <3>1 DEF SameSolutions
    <3> QED
      BY <1>4, <2>1, <3>1, <3>2 DEF OnlyOne
  <2>5. q = Solution
    BY <1>1, <1>4, <2>2, <2>3, <2>4, UniqueIsTheSolution DEF Unique
  <2> QED
    BY <2>1, <2>3, <2>4, <2>5 DEF IntegralSolution, Unique
<1> QED
  BY <1>2, <1>3, <1>4

LEMMA NoneBelowOne ==
  ASSUME NEW s
  PROVE  NoneBelow(s, 1)
<1> SUFFICES ASSUME NEW q \in Seq(Rational), 1 <= Len(q), Len(q) < 1 PROVE FALSE
  BY DEF NoneBelow
<1> QED
  OBVIOUS

LEMMA NoneBelowNext ==
  ASSUME NEW s, NEW o \in Nat, NoneBelow(s, o), \A q \in Seq(Rational) : Len(q) = o => ~ Wanted(q, s)
  PROVE  NoneBelow(s, o + 1)
<1> SUFFICES ASSUME NEW q \in Seq(Rational), 1 <= Len(q), Len(q) < o + 1 PROVE ~ Wanted(q, s)
  BY DEF NoneBelow
<1>1. Len(q) < o \/ Len(q) = o
  OBVIOUS
<1> QED
  BY <1>1 DEF NoneBelow

LEMMA FreshSystem ==
  ASSUME NEW s \in Seq(Int), order \in Nat \ {0}, order <= Cap(s), rows = HankelSystem(s, order)
  PROVE  SameSolutions(s)
<1>1. order <= Len(s)
  BY CapFacts
<1> QED
  BY <1>1, HankelSolutions DEF SameSolutions

LEMMA SearchInvInit ==
  ASSUME NEW s \in Seq(Int), SearchInit(s)
  PROVE  SearchInv(s)
<1>1. EchelonInv /\ OrderInv(s)
  BY EchelonInit
<1>2. /\ searching = (Cap(s) > 0) /\ order = 1 /\ found = <<>>
      /\ rows = IF Cap(s) > 0 THEN HankelSystem(s, 1) ELSE <<>>
  BY DEF SearchInit
<1>3. NoneBelow(s, 1) /\ Cap(s) \in Nat
  BY NoneBelowOne, CapFacts
<1>4. searching => Cap(s) > 0
  BY <1>2, Zenon
<1>5. ~ searching => ~ (Cap(s) > 0)
  BY <1>2, Zenon
<1>6. searching => NoneBelow(s, order) /\ SameSolutions(s)
  <2> SUFFICES ASSUME searching PROVE NoneBelow(s, order) /\ SameSolutions(s)
    OBVIOUS
  <2>1. rows = HankelSystem(s, order) /\ order \in Nat \ {0} /\ order <= Cap(s)
    BY <1>2, <1>3, <1>4
  <2> QED
    BY <1>2, <1>3, <2>1, FreshSystem
<1>7. ~ searching => SmallestFound(s)
  <2> SUFFICES ASSUME ~ searching PROVE SmallestFound(s)
    OBVIOUS
  <2>1. Cap(s) + 1 = 1
    BY <1>3, <1>5
  <2> QED
    BY <1>2, <1>3, <2>1 DEF SmallestFound
<1> QED
  BY <1>1, <1>2, <1>6, <1>7 DEF SearchInv

\* The elimination leaves the solutions as they were.
LEMMA PivotKeepsSame ==
  ASSUME NEW s \in Seq(Int), EchelonInv, SameSolutions(s), Pivot, order' = order
  PROVE  \A q \in Seq(Rational) : Len(q) = order => (Solves(order, rows', q) <=> Reproduces(q, s, Len(s)))
<1> SUFFICES ASSUME NEW q \in Seq(Rational), Len(q) = order
             PROVE  Solves(order, rows', q) <=> Reproduces(q, s, Len(s))
  OBVIOUS
<1>1. Vector(order, q)
  BY DEF Vector
<1>2. Solves(order, rows', q) <=> Solves(order, rows, q)
  BY <1>1, PivotKeepsSolutions
<1> QED
  BY <1>2 DEF SameSolutions

\* The invariant of the search, for the state a step leads to.
LEMMA SearchInvStep ==
  ASSUME NEW s \in Seq(Int), SearchInv(s), SearchNext(s)
  PROVE  /\ EchelonInv' /\ (searching' => order' <= Cap(s))
         /\ searching' =>
              /\ found' = <<>> /\ NoneBelow(s, order')
              /\ \A q \in Seq(Rational) :
                   Len(q) = order' => (Solves(order', rows', q) <=> Reproduces(q, s, Len(s)))
         /\ ~ searching' =>
              IF found' = <<>> THEN NoneBelow(s, Cap(s) + 1)
              ELSE /\ found' \in Seq(Rational) /\ 1 <= Len(found') /\ Len(found') <= Cap(s)
                   /\ Wanted(found', s) /\ NoneBelow(s, Len(found'))
<1>1. EchelonInv' /\ (searching' => order' <= Cap(s))
  BY EchelonStep DEF SearchInv
<1>2. CASE Pivot
  <2>1. searching /\ searching' = searching /\ order' = order /\ found' = found
    BY <1>2 DEF Pivot
  <2>2. /\ EchelonInv /\ found = <<>> /\ NoneBelow(s, order) /\ SameSolutions(s)
    BY <2>1 DEF SearchInv
  <2> QED
    BY <1>1, <1>2, <2>1, <2>2, PivotKeepsSame
<1>3. CASE SkipColumn
  <2>1. searching /\ searching' = searching /\ order' = order /\ found' = found /\ rows' = rows
    BY <1>3 DEF SkipColumn
  <2>2. /\ found = <<>> /\ NoneBelow(s, order) /\ SameSolutions(s)
    BY <2>1 DEF SearchInv
  <2> QED
    BY <1>1, <2>1, <2>2 DEF SameSolutions
<1>4. CASE Accept
  <2>1. searching /\ col > order /\ IntegralSolution /\ found' = Solution /\ ~ searching'
    BY <1>4 DEF Accept
  <2>2. /\ order \in Nat \ {0} /\ Solution \in Seq(Rational) /\ Len(Solution) = order
        /\ Wanted(Solution, s)
    BY <2>1, DecisionIsRight
  <2>3. NoneBelow(s, order) /\ order <= Cap(s)
    BY <2>1 DEF SearchInv, OrderInv
  <2>4. Solution # <<>>
    BY <2>2
  <2> QED
    BY <1>1, <2>1, <2>2, <2>3, <2>4
<1>5. CASE TryNextOrder(s)
  <2>1. /\ searching /\ searching' = searching /\ col > order /\ ~ IntegralSolution /\ order < Cap(s)
        /\ order' = order + 1 /\ rows' = HankelSystem(s, order + 1) /\ found' = found
    BY <1>5 DEF TryNextOrder
  <2>2. /\ order \in Nat \ {0} /\ \A q \in Seq(Rational) : Len(q) = order => ~ Wanted(q, s)
    BY <2>1, DecisionIsRight
  <2>3. NoneBelow(s, order) /\ found = <<>>
    BY <2>1 DEF SearchInv
  <2>4. NoneBelow(s, order + 1)
    BY <2>2, <2>3, NoneBelowNext
  <2>5. order + 1 \in Nat \ {0} /\ order + 1 <= Len(s)
    BY <2>1, <2>2, CapFacts
  <2>6. \A q \in Seq(Rational) :
          Len(q) = order + 1 =>
            (Solves(order + 1, HankelSystem(s, order + 1), q) <=> Reproduces(q, s, Len(s)))
    BY <2>5, HankelSolutions
  <2> QED
    BY <1>1, <2>1, <2>3, <2>4, <2>6
<1>6. CASE Exhausted(s)
  <2>1. /\ searching /\ ~ searching' /\ col > order /\ ~ IntegralSolution /\ order = Cap(s) /\ found' = found
    BY <1>6 DEF Exhausted
  <2>2. /\ order \in Nat \ {0} /\ \A q \in Seq(Rational) : Len(q) = order => ~ Wanted(q, s)
    BY <2>1, DecisionIsRight
  <2>3. NoneBelow(s, order) /\ found = <<>>
    BY <2>1 DEF SearchInv
  <2>4. NoneBelow(s, order + 1)
    BY <2>2, <2>3, NoneBelowNext
  <2> QED
    BY <1>1, <2>1, <2>3, <2>4
<1> QED
  BY <1>2, <1>3, <1>4, <1>5, <1>6 DEF SearchNext

-----------------------------------------------------------------------------
(* The miner.                                                              *)
MinerInv == SequenceInv /\ SearchInv(sequence)

LEMMA MinerInvInit == MiningInit => MinerInv
  BY SequencesAssumption, SearchInvInit DEF MiningInit, BMInit, MinerInv, SequenceInv

LEMMA MinerInvStep == MinerInv /\ [MiningNext]_miningVars => MinerInv'
<1> SUFFICES ASSUME MinerInv, [MiningNext]_miningVars PROVE MinerInv'
  OBVIOUS
<1>1. sequence \in Seq(Int) /\ SearchInv(sequence)
  BY DEF MinerInv, SequenceInv
<1>2. CASE SearchStep
  <2>1. sequence' = sequence /\ SearchNext(sequence)
    BY <1>2 DEF SearchStep, bmVars
  <2>2. /\ EchelonInv' /\ (searching' => order' <= Cap(sequence))
        /\ searching' =>
             /\ found' = <<>> /\ NoneBelow(sequence, order')
             /\ \A q \in Seq(Rational) :
                  Len(q) = order' => (Solves(order', rows', q) <=> Reproduces(q, sequence, Len(sequence)))
        /\ ~ searching' =>
             IF found' = <<>> THEN NoneBelow(sequence, Cap(sequence) + 1)
             ELSE /\ found' \in Seq(Rational) /\ 1 <= Len(found') /\ Len(found') <= Cap(sequence)
                  /\ Wanted(found', sequence) /\ NoneBelow(sequence, Len(found'))
    BY <1>1, <2>1, SearchInvStep
  <2>3. OrderInv(sequence)' /\ (searching' => SameSolutions(sequence)') /\ (~ searching' => SmallestFound(sequence)')
    BY <2>1, <2>2 DEF OrderInv, SameSolutions, SmallestFound
  <2>4. searching' => found' = <<>> /\ NoneBelow(sequence, order)'
    BY <2>1, <2>2
  <2> QED
    BY <1>1, <2>1, <2>2, <2>3, <2>4 DEF MinerInv, SequenceInv, SearchInv
<1>3. CASE UNCHANGED searchVars /\ sequence' = sequence
  <2>1. EchelonInv'
    BY <1>3, <1>1 DEF searchVars, SearchInv, EchelonInv, MatrixInv, PivotsInv, ReducedEchelon, Rank
  <2>2. /\ OrderInv(sequence)'
        /\ searching' => found' = <<>> /\ NoneBelow(sequence, order)' /\ SameSolutions(sequence)'
        /\ ~ searching' => SmallestFound(sequence)'
    BY <1>3, <1>1 DEF searchVars, SearchInv, OrderInv, SameSolutions, SmallestFound
  <2> QED
    BY <1>3, <1>1, <2>1, <2>2 DEF MinerInv, SequenceInv, SearchInv
<1>4. CASE TooShort \/ LoopStep \/ Mined \/ UNCHANGED miningVars
  <2>1. UNCHANGED searchVars /\ sequence' = sequence
    BY <1>4 DEF TooShort, LoopStep, Mined, miningVars, bmVars, BMNext, ZeroDiscrepancy, Grow, Correct
  <2> QED
    BY <1>3, <2>1
<1> QED
  BY <1>2, <1>4 DEF MiningNext

\* The search ends with the recurrence of the smallest order that has an
\* integral one and no other, and with none where no order up to the cap has.
FoundIsSmallest == ~ searching => SmallestFound(sequence)

THEOREM SearchFindsTheSmallest == MiningSpec => []FoundIsSmallest
<1>1. MinerInv => FoundIsSmallest
  BY DEF MinerInv, SearchInv, FoundIsSmallest
<1> QED
  BY MinerInvInit, MinerInvStep, <1>1, PTL DEF MiningSpec

LEMMA RecurrenceFacts ==
  ASSUME LoopInv, Shortest
  PROVE  /\ sequence \in Seq(Int) /\ n \in Nat /\ n <= Len(sequence)
         /\ linear_complexity \in Nat
         /\ Recurrence \in Seq(Rational) /\ Len(Recurrence) = linear_complexity
         /\ Reproduces(Recurrence, sequence, n)
         /\ \A q \in Seq(Rational) : Reproduces(q, sequence, n) => Len(q) >= Len(Recurrence)
<1>1. /\ sequence \in Seq(Int) /\ n \in Nat /\ n <= Len(sequence)
      /\ linear_complexity \in Nat /\ c \in Monic /\ Len(c) - 1 = linear_complexity
  BY DEF LoopInv, TypeInv, IndexInv
<1>2. Recurrence = CoefficientsOf(c)
  BY <1>1 DEF Recurrence, CoefficientsOf
<1>3. /\ Recurrence \in Seq(Rational) /\ Len(Recurrence) = linear_complexity
      /\ PolynomialOf(Recurrence) = c
  BY <1>1, <1>2, CoefficientsOfPolynomial
<1>4. Reproduces(Recurrence, sequence, n)
  BY <1>1, <1>3, LoopGeneratesPrefix, PolynomialOfGenerates
<1>5. ASSUME NEW q \in Seq(Rational), Reproduces(q, sequence, n) PROVE Len(q) >= linear_complexity
  <2>1. PICK p \in Monic : Len(p) = Len(q) + 1 /\ Generates(sequence, p, n)
    BY <1>1, <1>5, PolynomialOfGenerates
  <2>2. Len(p) >= linear_complexity + 1
    BY <2>1 DEF Shortest
  <2> QED
    BY <1>1, <2>1, <2>2
<1> QED
  BY <1>1, <1>3, <1>4, <1>5

LEMMA AgreementFollows == MinerInv /\ LoopInv /\ Shortest => SearchesAgree
<1> SUFFICES ASSUME MinerInv, LoopInv, Shortest, BMDone, ~ searching,
                    Len(Recurrence) \in 1 .. MaxOrder, Len(sequence) >= 2 * Len(Recurrence)
             PROVE  found = IF \A i \in DOMAIN Recurrence : Integral(Recurrence[i])
                            THEN Recurrence ELSE <<>>
  BY DEF SearchesAgree
<1>1. PICK q \in Seq(Rational) : q = Recurrence
  BY RecurrenceFacts
<1>2. /\ sequence \in Seq(Int) /\ Len(sequence) \in Nat /\ n = Len(sequence)
      /\ Len(q) \in 1 .. MaxOrder /\ 2 * Len(q) <= Len(sequence)
      /\ Reproduces(q, sequence, Len(sequence))
      /\ \A r \in Seq(Rational) : Reproduces(r, sequence, Len(sequence)) => Len(r) >= Len(q)
  BY <1>1, RecurrenceFacts DEF BMDone
<1>3. /\ OnlyOne(q, sequence, Len(sequence))
      /\ \A r \in Seq(Rational) : Len(r) > Len(q) => ~ OnlyOne(r, sequence, Len(sequence))
  BY <1>2, MinimalIsOnlyOne
<1>4. Len(q) <= Cap(sequence) /\ Cap(sequence) \in Nat /\ 1 <= Len(q)
  BY <1>2, MaxOrderAssumption DEF Cap
<1>5. SmallestFound(sequence)
  BY DEF MinerInv, SearchInv
<1>6. ASSUME NEW r \in Seq(Rational), Wanted(r, sequence)
      PROVE  r = q
  <2>1. OnlyOne(r, sequence, Len(sequence)) /\ Reproduces(r, sequence, Len(sequence))
    BY <1>6 DEF Wanted, OnlyOne
  <2>2. Len(r) >= Len(q) /\ ~ (Len(r) > Len(q))
    BY <1>2, <1>3, <2>1
  <2>3. Len(r) = Len(q)
    BY <2>2
  <2> QED
    BY <1>3, <2>1, <2>3 DEF OnlyOne
<1>7. DOMAIN q = 1 .. Len(q)
  OBVIOUS
<1>8. CASE \A i \in DOMAIN q : Integral(q[i])
  <2>1. Wanted(q, sequence)
    BY <1>3, <1>7, <1>8 DEF Wanted
  <2>2. found # <<>>
    BY <1>4, <1>5, <2>1 DEF SmallestFound, NoneBelow
  <2>3. found \in Seq(Rational) /\ Wanted(found, sequence)
    BY <1>5, <2>2 DEF SmallestFound
  <2> QED
    BY <1>1, <1>6, <1>8, <2>3
<1>9. CASE ~ \A i \in DOMAIN q : Integral(q[i])
  <2>1. ~ Wanted(q, sequence)
    BY <1>7, <1>9 DEF Wanted
  <2>2. found = <<>>
    <3> SUFFICES ASSUME found # <<>> PROVE FALSE
      OBVIOUS
    <3>1. found \in Seq(Rational) /\ Wanted(found, sequence)
      BY <1>5 DEF SmallestFound
    <3> QED
      BY <1>6, <2>1, <3>1
  <2> QED
    BY <1>1, <1>9, <2>2
<1> QED
  BY <1>8, <1>9

\* The two searches for a recurrence agree, for every trace.
THEOREM TheSearchesAgree == MiningSpec => []SearchesAgree
<1>1. MiningSpec => []MinerInv
  BY MinerInvInit, MinerInvStep, PTL DEF MiningSpec
<1>2. BMSpec => [](LoopInv /\ Shortest)
  BY LoopInvInit, LoopInvStep, ShortestInit, ShortestStep, PTL DEF BMSpec
<1> QED
  BY <1>1, <1>2, MiningRunsTheLoop, AgreementFollows, PTL

-----------------------------------------------------------------------------
(* The candidate.                                                          *)

\* The first terms of a recurrence are its seeds.
LEMMA SeedValues ==
  ASSUME NEW coefs, NEW seeds, NEW m, m < Len(coefs)
  PROVE  RecurrenceValue(coefs, seeds, m) = seeds[m + 1]
BY Zenon DEF RecurrenceValue

\* The training part is a prefix of the trace.
LEMMA TrainIsPrefix ==
  ASSUME NEW t \in Seq(Int), NEW h \in Int, Len(t) >= 6
  PROVE  /\ Train(t, h) \in Seq(Int) /\ Len(Train(t, h)) \in 0 .. Len(t)
         /\ \A i \in 1 .. Len(Train(t, h)) : Train(t, h)[i] = t[i]
<1>1. Holdout(t, h) \in Nat /\ Holdout(t, h) <= Len(t)
  BY DEF Holdout
<1>2. PICK m \in 0 .. Len(t) : m = Len(t) - Holdout(t, h)
  BY <1>1
<1>3. Train(t, h) = SubSeq(t, 1, m)
  BY <1>2 DEF Train
<1> QED
  BY <1>3

\* Every term a candidate was tested on has the value the candidate computes:
\* the seeds are the first terms, and the others were compared.
Reproduced(cand, t) ==
  \A m \in 0 .. Len(t) - 1 : RecurrenceValue(cand.coefficients, cand.seeds, m) = t[m + 1]

LEMMA CandidateReproduces ==
  ASSUME NEW t \in Seq(Int), NEW h \in Int, Len(t) >= 6, NEW indices,
         NEW x \in Seq(Rational), NEW y \in Seq(Rational), NEW cand,
         cand = BMCandidate(t, h, indices, x, y), cand.kind = "bm_recurrence", cand.holdoutPassed
  PROVE  Reproduced(cand, t)
<1> DEFINE integral == \A i \in DOMAIN x : Integral(x[i])
           coefs    == Numerators(IF integral THEN x ELSE y)
           size     == Len(coefs)
           seeds    == SubSeq(Train(t, h), 1, size)
           InPlace(S)  == \A i \in S : RecurrenceValue(coefs, seeds, i) = t[i + 1]
           refused  == \/ x = <<>>
                       \/ Len(Train(t, h)) < 2 * Len(x)
                       \/ coefs = <<>>
                       \/ Len(Train(t, h)) < 2 * size
                       \/ \E i \in DOMAIN seeds : seeds[i] < 0
                       \/ ~ InPlace(size .. Len(Train(t, h)) - 1)
<1>1. cand = IF refused THEN None
             ELSE [kind |-> "bm_recurrence", coefficients |-> coefs, seeds |-> seeds,
                   source |-> IF integral THEN "berlekamp_massey" ELSE "integer_recurrence_search",
                   holdoutPassed     |-> InPlace(Len(Train(t, h)) .. Len(t) - 1),
                   adversarialPassed |-> InPlace(Checked(t, indices))]
  BY Zenon DEF BMCandidate
<1>2. coefs \in Seq({z.num : z \in Rational}) /\ size \in Nat
  <2>1. PICK z \in Seq(Rational) : coefs = Numerators(z)
    OBVIOUS
  <2>2. Numerators(z) = [i \in 1 .. Len(z) |-> z[i].num]
    BY DEF Numerators
  <2> QED
    BY <2>1, <2>2
<1> HIDE DEF integral, coefs, seeds, refused, InPlace
<1>3. ~ refused /\ cand.coefficients = coefs /\ cand.seeds = seeds
      /\ InPlace(Len(Train(t, h)) .. Len(t) - 1)
  <2>1. ~ refused
    BY <1>1 DEF None
  <2> QED
    BY <1>1, <2>1
<1>4. /\ ~ (Len(Train(t, h)) < 2 * size)
      /\ InPlace(size .. Len(Train(t, h)) - 1)
  BY <1>3 DEF refused
<1>5. PICK l \in 0 .. Len(t) : l = Len(Train(t, h))
  BY TrainIsPrefix
<1>6. size <= l
  BY <1>2, <1>4, <1>5
<1>7. ASSUME NEW m \in 0 .. Len(t) - 1
      PROVE  RecurrenceValue(coefs, seeds, m) = t[m + 1]
  <2>1. CASE m < size
    <3>1. RecurrenceValue(coefs, seeds, m) = seeds[m + 1]
      BY <2>1, SeedValues
    <3>2. seeds[m + 1] = Train(t, h)[m + 1]
      BY <1>2, <1>5, <1>6, <2>1, TrainIsPrefix DEF seeds
    <3>3. m + 1 \in 1 .. Len(Train(t, h))
      BY <1>2, <1>5, <1>6, <2>1
    <3>4. Train(t, h)[m + 1] = t[m + 1]
      BY <3>3, TrainIsPrefix
    <3> QED
      BY <3>1, <3>2, <3>4
  <2>2. CASE m \in size .. l - 1
    BY <1>4, <1>5, <2>2 DEF InPlace
  <2>3. CASE m \in l .. Len(t) - 1
    BY <1>3, <1>5, <2>3 DEF InPlace
  <2> QED
    BY <1>2, <1>5, <2>1, <2>2, <2>3
<1> QED
  BY <1>3, <1>7 DEF Reproduced

CandidateInv ==
  /\ trace \in Seq(Int) /\ holdoutTerms \in Int
  /\ candidate.kind = "bm_recurrence" /\ candidate.holdoutPassed => Reproduced(candidate, trace)

LEMMA CandidateInvInit == MiningInit => CandidateInv
  BY MiningAssumption DEF MiningInit, CandidateInv, Pending

LEMMA CandidateInvStep ==
  CandidateInv /\ MinerInv /\ LoopInv /\ Shortest /\ [MiningNext]_miningVars => CandidateInv'
<1> SUFFICES ASSUME CandidateInv, MinerInv, LoopInv, Shortest, [MiningNext]_miningVars
             PROVE  CandidateInv'
  OBVIOUS
<1>1. CASE TooShort
  BY <1>1 DEF TooShort, CandidateInv, call, None
<1>2. CASE SearchStep \/ LoopStep \/ UNCHANGED miningVars
  <2>1. UNCHANGED <<trace, holdoutTerms, candidate>>
    BY <1>2 DEF SearchStep, LoopStep, miningVars, call
  <2> QED
    BY <2>1 DEF CandidateInv, Reproduced
<1>3. CASE Mined
  <2>1. /\ Len(trace) >= 6 /\ ~ searching /\ trace' = trace /\ holdoutTerms' = holdoutTerms
        /\ candidate' = BMCandidate(trace, holdoutTerms, adversarial, Recurrence, found)
    BY <1>3 DEF Mined, call
  <2>2. Recurrence \in Seq(Rational)
    BY RecurrenceFacts
  <2>3. found \in Seq(Rational)
    <3>1. SmallestFound(sequence)
      BY <2>1 DEF MinerInv, SearchInv
    <3>2. <<>> \in Seq(Rational)
      OBVIOUS
    <3> QED
      BY <3>1, <3>2 DEF SmallestFound
  <2>4. trace \in Seq(Int) /\ holdoutTerms \in Int
    BY DEF CandidateInv
  <2>5. candidate'.kind = "bm_recurrence" /\ candidate'.holdoutPassed => Reproduced(candidate', trace)
    BY <2>1, <2>2, <2>3, <2>4, CandidateReproduces
  <2> QED
    BY <2>1, <2>4, <2>5 DEF CandidateInv
<1> QED
  BY <1>1, <1>2, <1>3 DEF MiningNext

\* The definition emitted for a candidate that passed takes the values of the
\* trace, whatever the trace: the recurrence never leaves the naturals there.
THEOREM TheDefinitionReproduces == MiningSpec => []LeanReproducesTrace
<1>1. CandidateInv => LeanReproducesTrace
  <2> SUFFICES ASSUME CandidateInv, candidate.kind = "bm_recurrence", candidate.holdoutPassed,
                      Nonnegative(trace), NEW i \in DOMAIN trace
               PROVE  LeanValue(candidate, i - 1) = trace[i]
    BY DEF LeanReproducesTrace
  <2>1. trace \in Seq(Int) /\ Reproduced(candidate, trace)
    BY DEF CandidateInv
  <2>2. i \in 1 .. Len(trace) /\ i - 1 \in 0 .. Len(trace) - 1 /\ i - 1 + 1 = i
    BY <2>1
  <2>3. RecurrenceValue(candidate.coefficients, candidate.seeds, i - 1) = trace[i]
    BY <2>1, <2>2 DEF Reproduced
  <2>4. trace[i] \in Int /\ ~ (trace[i] < 0)
    BY <2>1 DEF Nonnegative
  <2> QED
    BY <2>3, <2>4 DEF LeanValue
<1>2. MiningSpec => []MinerInv
  BY MinerInvInit, MinerInvStep, PTL DEF MiningSpec
<1>3. BMSpec => [](LoopInv /\ Shortest)
  BY LoopInvInit, LoopInvStep, ShortestInit, ShortestStep, PTL DEF BMSpec
<1> QED
  BY <1>1, <1>2, <1>3, MiningRunsTheLoop, CandidateInvInit, CandidateInvStep, PTL DEF MiningSpec

-----------------------------------------------------------------------------
(* Trace consensus: buckets, groups and the prefix they share.             *)

Stepwise(f, X, start, top, step) ==
  /\ f \in [0 .. top -> X] /\ f[0] = start
  /\ \A k \in 1 .. top : f[k] = step[k][f[k - 1]]

\* A value computed from 0 upwards, one step at a time, exists.
LEMMA StepwiseExists ==
  ASSUME NEW X, NEW start \in X, NEW top \in Nat, NEW step \in [1 .. top -> [X -> X]]
  PROVE  \E f : Stepwise(f, X, start, top, step)
<1> DEFINE UpTo(k, f) == /\ f \in [0 .. k -> X]
                         /\ f[0] = start
                         /\ \A j \in 1 .. k : f[j] = step[j][f[j - 1]]
           S == {k \in Nat : k <= top => \E f : UpTo(k, f)}
<1>1. 0 \in S
  <2>1. UpTo(0, [i \in 0 .. 0 |-> start])
    OBVIOUS
  <2> QED
    BY <2>1
<1>2. ASSUME NEW k \in Nat, k \in S PROVE k + 1 \in S
  <2> SUFFICES ASSUME k + 1 <= top PROVE \E f : UpTo(k + 1, f)
    OBVIOUS
  <2>1. PICK f : UpTo(k, f)
    BY <1>2
  <2> DEFINE g == [i \in 0 .. k + 1 |-> IF i = k + 1 THEN step[k + 1][f[k]] ELSE f[i]]
  <2>2. f[k] \in X /\ step[k + 1] \in [X -> X]
    BY <2>1
  <2>3. step[k + 1][f[k]] \in X
    BY <2>2
  <2>4. g \in [0 .. k + 1 -> X]
    BY <2>1, <2>3
  <2>5. g[0] = start
    BY <2>1
  <2>6. ASSUME NEW i \in 1 .. k + 1 PROVE g[i] = step[i][g[i - 1]]
    <3>1. CASE i = k + 1
      BY <3>1, <2>1
    <3>2. CASE i \in 1 .. k
      BY <3>2, <2>1
    <3> QED
      BY <3>1, <3>2
  <2> QED
    BY <2>4, <2>5, <2>6
<1>3. top \in S
  <2> HIDE DEF S
  <2> QED
    BY <1>1, <1>2, Inductive
<1> QED
  BY <1>3 DEF Stepwise

-----------------------------------------------------------------------------
(* Buckets of samples. *)
Distinct(s) == \A j, k \in 1 .. Len(s) : s[j] = s[k] => j = k

IsBucket(f, list, M) ==
  f = [k \in 0 .. Len(list) |->
         IF k = 0 THEN <<>>
         ELSE IF list[k] \in M THEN Append(f[k - 1], list[k]) ELSE f[k - 1]]

LEMMA BucketExists ==
  ASSUME NEW S, NEW list \in Seq(S), NEW M
  PROVE  \E f : IsBucket(f, list, M)
<1> PICK top \in Nat : top = Len(list)
  OBVIOUS
<1> DEFINE X == Seq(S)
           step == [k \in 1 .. top |->
                      [x \in X |-> IF list[k] \in M THEN Append(x, list[k]) ELSE x]]
<1>1. step \in [1 .. top -> [X -> X]]
  <2>1. ASSUME NEW k \in 1 .. top, NEW x \in X PROVE Append(x, list[k]) \in X
    OBVIOUS
  <2> QED
    BY <2>1
<1>2. <<>> \in X
  OBVIOUS
<1> HIDE DEF X, step
<1> PICK start \in X : start = <<>>
  BY <1>2
<1>a. PICK f : Stepwise(f, X, start, top, step)
  BY <1>1, StepwiseExists
<1>3. /\ f \in [0 .. top -> X] /\ f[0] = start
      /\ \A k \in 1 .. top : f[k] = step[k][f[k - 1]]
  BY <1>a DEF Stepwise
<1>4. ASSUME NEW k \in 1 .. top
      PROVE  f[k] = IF list[k] \in M THEN Append(f[k - 1], list[k]) ELSE f[k - 1]
  <2>1. f[k - 1] \in X
    BY <1>3
  <2>2. f[k] = step[k][f[k - 1]]
    BY <1>3
  <2> QED
    BY <2>1, <2>2 DEF step
<1>5. DOMAIN f = 0 .. top /\ f[0] = <<>>
  BY <1>2, <1>3
<1>6. f = [k \in 0 .. top |-> f[k]]
  BY <1>3
<1>7. [k \in 0 .. top |-> f[k]]
       = [k \in 0 .. top |->
           IF k = 0 THEN <<>>
           ELSE IF list[k] \in M THEN Append(f[k - 1], list[k]) ELSE f[k - 1]]
  <2>1. \A k \in 0 .. top : k = 0 \/ k \in 1 .. top
    OBVIOUS
  <2> QED
    BY <1>4, <1>5, <2>1
<1> QED
  BY <1>6, <1>7 DEF IsBucket

LEMMA AppendDistinct ==
  ASSUME NEW S, NEW s \in Seq(S), NEW x \in S, Distinct(s), x \notin Range(s)
  PROVE  /\ Append(s, x) \in Seq(S) /\ Distinct(Append(s, x))
         /\ Range(Append(s, x)) = Range(s) \cup {x}
<1> PICK m \in Nat : m = Len(s)
  OBVIOUS
<1> DEFINE t == Append(s, x)
<1>1. t \in Seq(S) /\ Len(t) = m + 1 /\ t[m + 1] = x /\ \A k \in 1 .. m : t[k] = s[k]
  OBVIOUS
<1>2. DOMAIN t = 1 .. m + 1 /\ DOMAIN s = 1 .. m
  BY <1>1
<1>3. \A k \in 1 .. m : s[k] # x
  BY <1>2 DEF Range
<1> HIDE DEF t
<1>4. Distinct(t)
  <2> SUFFICES ASSUME NEW j \in 1 .. m + 1, NEW k \in 1 .. m + 1, t[j] = t[k] PROVE j = k
    BY <1>1 DEF Distinct
  <2>1. CASE j \in 1 .. m /\ k \in 1 .. m
    BY <2>1, <1>1 DEF Distinct
  <2>2. CASE j = m + 1 \/ k = m + 1
    BY <2>2, <1>1, <1>3
  <2> QED
    BY <2>1, <2>2
<1>5. Range(t) = Range(s) \cup {x}
  <2>1. Range(t) = {t[k] : k \in 1 .. m + 1} /\ Range(s) = {s[k] : k \in 1 .. m}
    BY <1>2 DEF Range
  <2>2. 1 .. m + 1 = (1 .. m) \cup {m + 1}
    OBVIOUS
  <2> QED
    BY <1>1, <2>1, <2>2
<1> QED
  BY <1>1, <1>4, <1>5 DEF t

LEMMA BucketFacts ==
  ASSUME NEW S, NEW list \in Seq(S), Distinct(list), NEW M, NEW f, IsBucket(f, list, M)
  PROVE  LET d == f[Len(list)]
         IN  /\ d \in Seq(S) /\ Distinct(d) /\ Range(d) = Range(list) \cap M
             /\ Len(d) <= Len(list)
<1> PICK top \in Nat : top = Len(list)
  OBVIOUS
<1> DEFINE Good(k) == /\ f[k] \in Seq(S) /\ Distinct(f[k]) /\ Len(f[k]) <= k
                      /\ Range(f[k]) = {list[j] : j \in 1 .. k} \cap M
           K == {k \in Nat : k <= top => Good(k)}
<1>1. 0 \in K
  <2>1. f[0] = <<>>
    BY DEF IsBucket
  <2>2. Range(<<>>) = {} /\ {list[j] : j \in 1 .. 0} = {} /\ Len(<<>>) = 0
    BY DEF Range
  <2>3. Distinct(<<>>)
    BY DEF Distinct
  <2>4. Good(0)
    BY <2>1, <2>2, <2>3
  <2> QED
    BY <2>4
<1>2. ASSUME NEW k \in Nat, k \in K PROVE k + 1 \in K
  <2> SUFFICES ASSUME k + 1 <= top PROVE Good(k + 1)
    OBVIOUS
  <2>1. Good(k)
    BY <1>2
  <2>2. f[k + 1] = IF list[k + 1] \in M THEN Append(f[k], list[k + 1]) ELSE f[k]
    <3>1. k + 1 \in 0 .. Len(list) /\ k + 1 # 0 /\ (k + 1) - 1 = k
      OBVIOUS
    <3> QED
      BY <3>1 DEF IsBucket
  <2>3. list[k + 1] \in S /\ list[k + 1] \notin {list[j] : j \in 1 .. k}
    BY DEF Distinct
  <2>4. {list[j] : j \in 1 .. k + 1} = {list[j] : j \in 1 .. k} \cup {list[k + 1]}
    <3>1. 1 .. k + 1 = (1 .. k) \cup {k + 1}
      OBVIOUS
    <3> QED
      BY <3>1
  <2> DEFINE x == list[k + 1]
             L == {list[j] : j \in 1 .. k}
  <2>5. CASE x \in M
    <3>1. x \notin Range(f[k])
      BY <2>1, <2>3
    <3> PICK d \in Seq(S) : d = f[k]
      BY <2>1
    <3>2. /\ Append(d, x) \in Seq(S) /\ Distinct(Append(d, x))
          /\ Range(Append(d, x)) = Range(d) \cup {x}
      <4> HIDE DEF x
      <4> QED
        BY <2>1, <2>3, <3>1, AppendDistinct DEF x
    <3>3. f[k + 1] = Append(d, x)
      BY <2>2, <2>5
    <3>4. Len(Append(d, x)) = Len(d) + 1
      OBVIOUS
    <3>5. Range(d) = L \cap M /\ Len(d) <= k
      BY <2>1
    <3>6. (L \cup {x}) \cap M = (L \cap M) \cup {x}
      BY <2>5
    <3>7. Len(d) + 1 <= k + 1
      BY <3>5
    <3> QED
      BY <2>4, <3>2, <3>3, <3>4, <3>5, <3>6, <3>7
  <2>6. CASE x \notin M
    <3>1. (L \cup {x}) \cap M = L \cap M
      BY <2>6
    <3>2. f[k + 1] = f[k]
      BY <2>2, <2>6
    <3>3. Len(f[k]) <= k + 1
      BY <2>1
    <3> QED
      BY <2>1, <2>4, <3>1, <3>2, <3>3
  <2> QED
    BY <2>5, <2>6
<1>3. top \in K
  <2> HIDE DEF K
  <2> QED
    BY <1>1, <1>2, Inductive
<1>4. Good(top)
  BY <1>3
<1>5. {list[j] : j \in 1 .. top} = Range(list)
  BY DEF Range
<1> QED
  BY <1>4, <1>5

\* A list without repetitions counts its elements.
LEMMA DistinctCounts ==
  ASSUME NEW S, NEW s \in Seq(S), Distinct(s)
  PROVE  Cardinality(Range(s)) = Len(s)
<1>1. s \in Bijection(1 .. Len(s), Range(s))
  BY DEF Bijection, Injection, Surjection, IsInjective, Distinct, Range
<1> QED
  BY <1>1, FS_CountingElements DEF ExistsBijection

ConsensusInv ==
  /\ offer \in Offers /\ prefixTerms \in PrefixTerms /\ minSize \in MinSizes
  /\ arrived \in Seq(DOMAIN offer) /\ Distinct(arrived)
  /\ consensus.selected \in BOOLEAN
  /\ consensus.trace \in Seq(Int)
  /\ ConsensusDetermined

LEMMA OfferType ==
  ASSUME ConsensusInv
  PROVE  /\ offer \in [DOMAIN offer -> Seq(Int)] /\ DOMAIN offer \subseteq Nat
         /\ prefixTerms \in Int /\ minSize \in Int
BY DiscoveryAssumption DEF ConsensusInv

\* The bucket of a source's key is its group.
LEMMA ClusterIsGroup ==
  ASSUME ConsensusInv, Range(arrived) = DOMAIN offer, NEW s \in DOMAIN offer
  PROVE  LET d == Cluster(ClusterKey(offer[s]))
         IN  /\ d \in Seq(DOMAIN offer) /\ Distinct(d) /\ Range(d) = Group(s)
             /\ Len(d) <= Len(arrived) /\ Len(d) = Cardinality(Group(s))
<1> DEFINE key == ClusterKey(offer[s])
           Equation(f) == f = [k \in 0 .. Len(arrived) |->
             IF k = 0 THEN <<>>
             ELSE IF ClusterKey(offer[arrived[k]]) = key THEN Append(f[k - 1], arrived[k])
             ELSE f[k - 1]]
           bucket == CHOOSE f : Equation(f)
<1>1. Cluster(key) = bucket[Len(arrived)]
  BY DEF Cluster
<1>2. ASSUME NEW f PROVE Equation(f) <=> IsBucket(f, arrived, Group(s))
  <2>1. ASSUME NEW k \in 0 .. Len(arrived), k # 0
        PROVE  arrived[k] \in Group(s) <=> ClusterKey(offer[arrived[k]]) = key
    <3>1. arrived[k] \in DOMAIN offer
      BY <2>1 DEF ConsensusInv
    <3> QED
      BY <3>1 DEF Group
  <2> DEFINE value(k) == IF ClusterKey(offer[arrived[k]]) = key THEN Append(f[k - 1], arrived[k]) ELSE f[k - 1]
             other(k) == IF arrived[k] \in Group(s) THEN Append(f[k - 1], arrived[k]) ELSE f[k - 1]
  <2>2. \A k \in 0 .. Len(arrived) : k # 0 => value(k) = other(k)
    <3> HIDE DEF key
    <3> QED
      BY <2>1
  <2> HIDE DEF value, other
  <2>3. [k \in 0 .. Len(arrived) |-> IF k = 0 THEN <<>> ELSE value(k)]
         = [k \in 0 .. Len(arrived) |-> IF k = 0 THEN <<>> ELSE other(k)]
    BY <2>2
  <2> QED
    BY <2>3, Zenon DEF IsBucket, value, other
<1>3. arrived \in Seq(DOMAIN offer) /\ Distinct(arrived)
  BY DEF ConsensusInv
<1>4. PICK f : Equation(f)
  <2>1. PICK f : IsBucket(f, arrived, Group(s))
    BY <1>3, BucketExists
  <2> HIDE DEF Equation
  <2> QED
    BY <2>1, <1>2
<1>5. Equation(bucket)
  <2> HIDE DEF Equation
  <2> QED
    BY <1>4, Zenon
<1> HIDE DEF bucket, Equation
<1>6. IsBucket(bucket, arrived, Group(s))
  BY <1>2, <1>5
<1> DEFINE d == Cluster(key)
<1>7. /\ d \in Seq(DOMAIN offer) /\ Distinct(d) /\ Range(d) = Range(arrived) \cap Group(s)
      /\ Len(d) <= Len(arrived)
  BY <1>1, <1>3, <1>6, BucketFacts
<1>8. Range(arrived) \cap Group(s) = Group(s)
  BY DEF Group
<1>9. Len(d) = Cardinality(Group(s))
  <2> HIDE DEF d
  <2> QED
    BY <1>7, <1>8, DistinctCounts
<1> QED
  BY <1>7, <1>8, <1>9

\* Two buckets with the same first source are one.
LEMMA BestExists ==
  ASSUME ConsensusInv, Range(arrived) = DOMAIN offer, arrived # <<>>
  PROVE  LET h == Best[1]
         IN  /\ h \in Largest /\ Best = Cluster(ClusterKey(offer[h]))
<1> DEFINE C(s) == Cluster(ClusterKey(offer[s]))
           clusters == {Cluster(key) : key \in Keys}
<1> PICK top \in Nat : top = Len(arrived)
  BY DEF ConsensusInv
<1>1. clusters = {C(s) : s \in DOMAIN offer}
  BY DEF Keys
<1>2. ASSUME NEW s \in DOMAIN offer
      PROVE  /\ C(s) \in Seq(DOMAIN offer) /\ Distinct(C(s)) /\ Range(C(s)) = Group(s)
             /\ Len(C(s)) = Cardinality(Group(s)) /\ Len(C(s)) \in 1 .. top
             /\ C(s)[1] \in Group(s)
  <2>1. /\ C(s) \in Seq(DOMAIN offer) /\ Distinct(C(s)) /\ Range(C(s)) = Group(s)
        /\ Len(C(s)) <= Len(arrived) /\ Len(C(s)) = Cardinality(Group(s))
    BY ClusterIsGroup
  <2>2. s \in Group(s)
    BY DEF Group
  <2> PICK d \in Seq(DOMAIN offer) : d = C(s)
    BY <2>1
  <2>3. Len(d) \in Nat /\ Len(d) # 0
    <3>1. Range(d) # {}
      BY <2>1, <2>2
    <3> QED
      BY <3>1 DEF Range
  <2>4. Len(d) <= top
    BY <2>1
  <2>5. d[1] \in Range(d)
    BY <2>3 DEF Range
  <2> QED
    BY <2>1, <2>3, <2>4, <2>5
<1>3. ASSUME NEW s \in DOMAIN offer, NEW r \in Group(s) PROVE C(r) = C(s)
  BY DEF Group
<1>4. DOMAIN offer # {} /\ DOMAIN offer \subseteq Nat
  <2>1. 1 \in DOMAIN arrived /\ arrived[1] \in DOMAIN offer
    BY DEF ConsensusInv
  <2> QED
    BY <2>1, OfferType
<1> HIDE DEF C, clusters
<1>5. PICK q \in DOMAIN offer : \A s \in DOMAIN offer : Len(C(s)) <= Len(C(q))
  <2> DEFINE T == {top - Len(C(s)) : s \in DOMAIN offer}
  <2>1. T \in SUBSET Nat /\ T # {}
    <3>1. ASSUME NEW s \in DOMAIN offer PROVE top - Len(C(s)) \in Nat
      <4>1. Len(C(s)) \in 1 .. top
        BY <1>2
      <4> QED
        BY <4>1
    <3> QED
      BY <3>1, <1>4
  <2>2. PICK m \in T : \A k \in T : m <= k
    BY <2>1, LeastNatural
  <2>3. PICK q \in DOMAIN offer : m = top - Len(C(q))
    BY <2>2
  <2>4. ASSUME NEW s \in DOMAIN offer PROVE Len(C(s)) <= Len(C(q))
    <3>1. m <= top - Len(C(s))
      BY <2>2
    <3>2. Len(C(s)) \in Nat /\ Len(C(q)) \in Nat
      BY <1>2
    <3> QED
      BY <2>3, <3>1, <3>2
  <2> QED
    BY <2>4
<1>6. PICK p \in DOMAIN offer : /\ Len(C(p)) = Len(C(q))
                                /\ \A s \in DOMAIN offer : Len(C(s)) = Len(C(q)) => C(p)[1] <= C(s)[1]
  <2> DEFINE T == {C(s)[1] : s \in {r \in DOMAIN offer : Len(C(r)) = Len(C(q))}}
  <2>1. \A s \in DOMAIN offer : C(s)[1] \in Nat
    BY <1>2, <1>4 DEF Group
  <2>2. T \in SUBSET Nat /\ T # {}
    BY <2>1
  <2>3. PICK m \in T : \A k \in T : m <= k
    BY <2>2, LeastNatural
  <2>4. PICK p \in {r \in DOMAIN offer : Len(C(r)) = Len(C(q))} : m = C(p)[1]
    BY <2>3
  <2> QED
    BY <2>3, <2>4
<1> DEFINE Leads(d) == \A e \in clusters \ {d} : RankedBefore(d, e)
<1>7. C(p) \in clusters /\ Leads(C(p))
  <2> SUFFICES ASSUME NEW s \in DOMAIN offer, C(s) # C(p) PROVE RankedBefore(C(p), C(s))
    BY <1>1
  <2>1. Len(C(s)) <= Len(C(p))
    BY <1>5, <1>6
  <2>2. Len(C(s)) \in Nat /\ Len(C(p)) \in Nat
    BY <1>2
  <2>3. CASE Len(C(s)) = Len(C(p))
    <3>1. C(p)[1] <= C(s)[1]
      BY <1>6, <2>3
    <3>2. C(p)[1] # C(s)[1]
      BY <1>2, <1>3
    <3>3. C(p)[1] \in Nat /\ C(s)[1] \in Nat
      BY <1>2, <1>4 DEF Group
    <3>4. C(p)[1] < C(s)[1]
      BY <3>1, <3>2, <3>3
    <3> QED
      BY <2>3, <3>4 DEF RankedBefore
  <2>4. CASE Len(C(s)) # Len(C(p))
    BY <2>1, <2>2, <2>4 DEF RankedBefore
  <2> QED
    BY <2>3, <2>4
<1>8. Best \in clusters /\ Leads(Best)
  <2>1. Best = CHOOSE d \in clusters : Leads(d)
    BY DEF Best, clusters
  <2> HIDE DEF Leads
  <2> QED
    BY <1>7, <2>1, Zenon
<1>9. PICK a \in DOMAIN offer : Best = C(a)
  BY <1>1, <1>8
<1> DEFINE h == Best[1]
<1>10. h \in Group(a) /\ h \in DOMAIN offer /\ Best = C(h)
  BY <1>2, <1>3, <1>9 DEF Group
<1>11. \A s \in DOMAIN offer : Len(C(s)) <= Len(C(h))
  <2> SUFFICES ASSUME NEW s \in DOMAIN offer PROVE Len(C(s)) <= Len(C(h))
    OBVIOUS
  <2>1. Len(C(s)) \in Nat /\ Len(C(h)) \in Nat
    BY <1>2, <1>10
  <2>2. CASE C(s) = C(h)
    BY <2>1, <2>2
  <2>3. CASE C(s) # C(h)
    <3>1. RankedBefore(C(h), C(s))
      BY <2>3, <1>1, <1>8, <1>10
    <3> QED
      BY <2>1, <3>1 DEF RankedBefore
  <2> QED
    BY <2>2, <2>3
<1>12. h \in Largest
  BY <1>2, <1>10, <1>11 DEF Largest
<1> QED
  BY <1>10, <1>12 DEF C

IsUpTo(f, len, A) ==
  f = [k \in 0 .. len |-> IF k = 0 THEN 0 ELSE IF f[k - 1] = k - 1 /\ k \in A THEN k ELSE f[k - 1]]

LEMMA UpToExists ==
  ASSUME NEW len \in Nat, NEW A
  PROVE  \E f : IsUpTo(f, len, A)
<1> DEFINE step == [k \in 1 .. len |-> [x \in Nat |-> IF x = k - 1 /\ k \in A THEN k ELSE x]]
<1>1. step \in [1 .. len -> [Nat -> Nat]] /\ 0 \in Nat
  OBVIOUS
<1> HIDE DEF step
<1>2. PICK f : Stepwise(f, Nat, 0, len, step)
  BY <1>1, StepwiseExists
<1>3. /\ f \in [0 .. len -> Nat] /\ f[0] = 0
      /\ \A k \in 1 .. len : f[k] = step[k][f[k - 1]]
  BY <1>2 DEF Stepwise
<1>4. ASSUME NEW k \in 1 .. len
      PROVE  f[k] = IF f[k - 1] = k - 1 /\ k \in A THEN k ELSE f[k - 1]
  <2>1. f[k - 1] \in Nat /\ f[k] = step[k][f[k - 1]]
    BY <1>3
  <2> QED
    BY <2>1 DEF step
<1>5. f = [k \in 0 .. len |-> f[k]]
  BY <1>3
<1>6. [k \in 0 .. len |-> f[k]]
       = [k \in 0 .. len |-> IF k = 0 THEN 0 ELSE IF f[k - 1] = k - 1 /\ k \in A THEN k ELSE f[k - 1]]
  <2>1. \A k \in 0 .. len : k = 0 \/ k \in 1 .. len
    OBVIOUS
  <2> QED
    BY <1>3, <1>4, <2>1
<1> QED
  BY <1>5, <1>6 DEF IsUpTo

LEMMA UpToFacts ==
  ASSUME NEW len \in Nat, NEW A, NEW f, IsUpTo(f, len, A)
  PROVE  /\ f[len] \in 0 .. len /\ \A j \in 1 .. f[len] : j \in A
         /\ f[len] = len \/ f[len] + 1 \notin A
<1> DEFINE Good(k) == /\ f[k] \in 0 .. k /\ \A j \in 1 .. f[k] : j \in A
                      /\ f[k] = k \/ f[k] + 1 \notin A
           K == {k \in Nat : k <= len => Good(k)}
<1>1. 0 \in K
  <2>1. f[0] = 0
    BY DEF IsUpTo
  <2> QED
    BY <2>1
<1>2. ASSUME NEW k \in Nat, k \in K PROVE k + 1 \in K
  <2> SUFFICES ASSUME k + 1 <= len PROVE Good(k + 1)
    OBVIOUS
  <2>1. Good(k)
    BY <1>2
  <2>2. f[k + 1] = IF f[k] = k /\ k + 1 \in A THEN k + 1 ELSE f[k]
    <3>1. k + 1 \in 0 .. len /\ k + 1 # 0 /\ (k + 1) - 1 = k
      OBVIOUS
    <3> QED
      BY <3>1 DEF IsUpTo
  <2>3. CASE f[k] = k /\ k + 1 \in A
    <3>1. f[k + 1] = k + 1
      BY <2>2, <2>3
    <3>2. \A j \in 1 .. k + 1 : j \in 1 .. k \/ j = k + 1
      OBVIOUS
    <3> QED
      BY <2>1, <2>3, <3>1, <3>2
  <2>4. CASE ~(f[k] = k /\ k + 1 \in A)
    <3>1. f[k + 1] = f[k]
      BY <2>2, <2>4
    <3> QED
      BY <2>1, <2>4, <3>1
  <2> QED
    BY <2>3, <2>4
<1>3. len \in K
  <2> HIDE DEF K
  <2> QED
    BY <1>1, <1>2, Inductive
<1> QED
  BY <1>3

LEMMA GreatestIs ==
  ASSUME NEW T, T \subseteq Nat, NEW m \in T, \A k \in T : m >= k
  PROVE  Max(T) = m
<1>1. \A x \in T : (\A y \in T : x >= y) <=> x = m
  <2> SUFFICES ASSUME NEW x \in T PROVE (\A y \in T : x >= y) <=> x = m
    OBVIOUS
  <2>1. x \in Nat /\ m \in Nat
    OBVIOUS
  <2> QED
    BY <2>1
<1> QED
  BY <1>1 DEF Max

LEMMA SubSeqFacts ==
  ASSUME NEW t \in Seq(Int), NEW k \in 0 .. Len(t)
  PROVE  /\ SubSeq(t, 1, k) \in Seq(Int) /\ Len(SubSeq(t, 1, k)) = k
         /\ \A j \in 1 .. k : SubSeq(t, 1, k)[j] = t[j]
<1> PICK p : p = SubSeq(t, 1, k)
  OBVIOUS
<1>1. Len(p) = k /\ \A j \in 1 .. k : p[j] = t[j]
  OBVIOUS
<1>2. p \in Seq(Int)
  OBVIOUS
<1> QED
  BY <1>1, <1>2

\* A leading part of one sequence is a prefix of another.
LEMMA PrefixMeans ==
  ASSUME NEW t \in Seq(Int), NEW u \in Seq(Int), NEW k \in 0 .. Len(t)
  PROVE  IsPrefix(SubSeq(t, 1, k), u) <=> k <= Len(u) /\ \A j \in 1 .. k : t[j] = u[j]
<1> PICK p : p = SubSeq(t, 1, k)
  OBVIOUS
<1>1. p \in Seq(Int) /\ Len(p) = k /\ \A j \in 1 .. k : p[j] = t[j]
  BY SubSeqFacts
<1>2. SubSeq(p, 1, k) = p
  BY <1>1
<1>3. CASE k <= Len(u)
  <2> PICK q : q = SubSeq(u, 1, k)
    OBVIOUS
  <2>1. q \in Seq(Int) /\ Len(q) = k /\ \A j \in 1 .. k : q[j] = u[j]
    BY <1>3, SubSeqFacts
  <2>2. p = q <=> \A j \in 1 .. k : t[j] = u[j]
    BY <1>1, <2>1
  <2>3. IsPrefix(p, u) <=> p = q
    BY <1>1, <1>2, <1>3 DEF IsPrefix
  <2> QED
    BY <2>2, <2>3, <1>3
<1>4. CASE ~(k <= Len(u))
  BY <1>1, <1>4 DEF IsPrefix
<1> QED
  BY <1>3, <1>4

LEMMA CommonPrefixIsShared ==
  ASSUME ConsensusInv, NEW d \in Seq(DOMAIN offer), Len(d) >= 1,
         Range(d) = Group(d[1])
  PROVE  CommonPrefix(d) = Shared(d[1]) /\ CommonPrefix(d) \in Seq(Int)
<1> DEFINE h == d[1]
           t == offer[h]
           traces == [j \in DOMAIN d |-> offer[d[j]]]
           agree(k) == \A j \in DOMAIN traces : Len(traces[j]) >= k /\ traces[j][k] = traces[1][k]
           Equation(f) == f = [k \in 0 .. Len(traces[1]) |->
             IF k = 0 THEN 0 ELSE IF f[k - 1] = k - 1 /\ agree(k) THEN k ELSE f[k - 1]]
           upTo == CHOOSE f : Equation(f)
<1>1. CommonPrefix(d) = SubSeq(traces[1], 1, upTo[Len(traces[1])])
  BY Zenon DEF CommonPrefix
<1>2. traces[1] = t /\ h \in DOMAIN offer /\ t \in Seq(Int)
  BY OfferType
<1> PICK len \in Nat : len = Len(t)
  BY <1>2
<1> DEFINE A == {k \in 1 .. len : agree(k)}
<1>3. ASSUME NEW k \in 1 .. len
      PROVE  agree(k) <=> \A r \in Group(h) : k <= Len(offer[r]) /\ t[k] = offer[r][k]
  <2>1. DOMAIN traces = DOMAIN d /\ \A j \in DOMAIN d : traces[j] = offer[d[j]]
    OBVIOUS
  <2>2. Group(h) = {d[j] : j \in DOMAIN d}
    BY DEF Range
  <2>3. \A r \in Group(h) : Len(offer[r]) \in Nat
    BY OfferType DEF Group
  <2> QED
    BY <1>2, <2>1, <2>2, <2>3
<1>4. ASSUME NEW f PROVE Equation(f) <=> IsUpTo(f, len, A)
  <2> DEFINE value(k) == IF f[k - 1] = k - 1 /\ agree(k) THEN k ELSE f[k - 1]
             other(k) == IF f[k - 1] = k - 1 /\ k \in A THEN k ELSE f[k - 1]
  <2>1. \A k \in 0 .. len : k # 0 => value(k) = other(k)
    <3> HIDE DEF agree
    <3> QED
      OBVIOUS
  <2> HIDE DEF value, other
  <2>2. [k \in 0 .. len |-> IF k = 0 THEN 0 ELSE value(k)]
         = [k \in 0 .. len |-> IF k = 0 THEN 0 ELSE other(k)]
    BY <2>1
  <2>3. Len(traces[1]) = len
    BY <1>2
  <2> HIDE DEF traces, agree, A
  <2>4. Equation(f) <=> f = [k \in 0 .. len |-> IF k = 0 THEN 0 ELSE value(k)]
    BY <2>3, Zenon DEF value
  <2>5. IsUpTo(f, len, A) <=> f = [k \in 0 .. len |-> IF k = 0 THEN 0 ELSE other(k)]
    BY Zenon DEF IsUpTo, other
  <2> QED
    BY <2>2, <2>4, <2>5
<1> HIDE DEF Equation
<1>5. IsUpTo(upTo, len, A)
  <2>1. PICK f : IsUpTo(f, len, A)
    <3> HIDE DEF A
    <3> QED
      BY UpToExists
  <2>2. Equation(upTo)
    BY <1>4, <2>1, Zenon
  <2> QED
    BY <1>4, <2>2
<1> HIDE DEF upTo, A, agree
<1> PICK m : m = upTo[len]
  OBVIOUS
<1>6. m \in 0 .. len /\ (\A j \in 1 .. m : j \in A) /\ (m = len \/ m + 1 \notin A)
  BY <1>5, UpToFacts
<1> DEFINE Given(k) == \A r \in Group(h) : IsPrefix(SubSeq(t, 1, k), offer[r])
           T == {k \in 0 .. Len(t) : Given(k)}
<1>7. ASSUME NEW k \in 0 .. len PROVE Given(k) <=> \A j \in 1 .. k : j \in A
  <2>1. ASSUME NEW r \in Group(h)
        PROVE  /\ IsPrefix(SubSeq(t, 1, k), offer[r])
                     <=> k <= Len(offer[r]) /\ \A j \in 1 .. k : t[j] = offer[r][j]
               /\ Len(offer[r]) \in Nat
    <3>1. offer[r] \in Seq(Int)
      BY OfferType DEF Group
    <3> PICK x \in Seq(Int), y \in Seq(Int) : x = t /\ y = offer[r]
      BY <1>2, <3>1
    <3>2. k \in 0 .. Len(x)
      OBVIOUS
    <3>3. /\ IsPrefix(SubSeq(x, 1, k), y) <=> k <= Len(y) /\ \A j \in 1 .. k : x[j] = y[j]
          /\ Len(y) \in Nat
      BY <3>2, PrefixMeans
    <3> HIDE DEF t
    <3> QED
      BY <3>3
  <2>2. \A j \in 1 .. k : j \in A <=> \A r \in Group(h) : j <= Len(offer[r]) /\ t[j] = offer[r][j]
    BY <1>3 DEF A
  <2>3. ASSUME \A j \in 1 .. k : j \in A, NEW r \in Group(h)
        PROVE  k <= Len(offer[r]) /\ \A j \in 1 .. k : t[j] = offer[r][j]
    <3>1. \A j \in 1 .. k : j <= Len(offer[r]) /\ t[j] = offer[r][j]
      BY <2>2, <2>3
    <3>2. CASE k = 0
      BY <2>1, <3>2
    <3>3. CASE k # 0
      BY <3>1, <3>3
    <3> QED
      BY <3>2, <3>3
  <2>4. ASSUME \A r \in Group(h) : k <= Len(offer[r]) /\ \A j \in 1 .. k : t[j] = offer[r][j],
               NEW j \in 1 .. k
        PROVE  j \in A
    <3>1. ASSUME NEW r \in Group(h) PROVE j <= Len(offer[r]) /\ t[j] = offer[r][j]
      BY <2>1, <2>4
    <3> QED
      BY <2>2, <3>1
  <2> HIDE DEF t
  <2> QED
    BY <2>1, <2>3, <2>4
<1>8. T \subseteq Nat /\ m \in T /\ \A k \in T : m >= k
  <2>1. T \subseteq 0 .. len /\ \A k \in T : \A j \in 1 .. k : j \in A
    BY <1>7
  <2>2. m \in T
    BY <1>6, <1>7
  <2>3. ASSUME NEW k \in T PROVE m >= k
    <3>1. k \in 0 .. len /\ \A j \in 1 .. k : j \in A
      BY <2>1
    <3> QED
      BY <1>6, <3>1
  <2> QED
    BY <2>1, <2>2, <2>3
<1>9. Max(T) = m
  <2> HIDE DEF T
  <2> QED
    BY <1>8, GreatestIs
<1>10. Shared(h) = SubSeq(t, 1, m)
  BY <1>9 DEF Shared
<1>11. CommonPrefix(d) = SubSeq(t, 1, m)
  BY <1>1, <1>2
<1> QED
  BY <1>2, <1>6, <1>10, <1>11

-----------------------------------------------------------------------------
LEMMA Undisturbed ==
  ASSUME offer' = offer, prefixTerms' = prefixTerms
  PROVE  Largest' = Largest /\ \A s : Group(s)' = Group(s) /\ Shared(s)' = Shared(s)
<1>1. \A s : Group(s)' = Group(s)
  BY DEF Group, ClusterKey
<1>2. Largest' = Largest
  BY <1>1 DEF Largest
<1>3. \A s : Shared(s)' = Shared(s)
  BY <1>1 DEF Shared
<1> QED
  BY <1>1, <1>2, <1>3

LEMMA ConsensusInvInit == DiscoveryInit => ConsensusInv
<1> SUFFICES ASSUME DiscoveryInit PROVE ConsensusInv
  OBVIOUS
<1>1. <<>> \in Seq(DOMAIN offer) /\ <<>> \in Seq(Int)
  OBVIOUS
<1>2. Distinct(<<>>)
  BY DEF Distinct
<1> QED
  BY <1>1, <1>2 DEF DiscoveryInit, ConsensusInv, ConsensusDetermined, Unselected

LEMMA ConsensusInvStep == ConsensusInv /\ [DiscoveryNext]_discoveryVars => ConsensusInv'
<1> SUFFICES ASSUME ConsensusInv, [DiscoveryNext]_discoveryVars PROVE ConsensusInv'
  OBVIOUS
<1> USE DEF ConsensusInv
<1>1. ASSUME NEW s \in DOMAIN offer, Arrive(s) PROVE ConsensusInv'
  <2>1. /\ arrived' \in Seq(DOMAIN offer) /\ Distinct(arrived')
    BY <1>1, AppendDistinct DEF Arrive
  <2>2. ~consensus'.selected /\ UNCHANGED <<offer, prefixTerms, minSize, consensus>>
    BY <1>1 DEF Arrive
  <2> QED
    BY <2>1, <2>2 DEF ConsensusDetermined
<1>2. ASSUME SelectConsensus PROVE ConsensusInv'
  <2>1. /\ ~consensus.selected /\ Range(arrived) = DOMAIN offer
        /\ UNCHANGED <<offer, prefixTerms, minSize, arrived>>
    BY <1>2 DEF SelectConsensus
  <2> DEFINE taken == IF arrived = <<>> THEN <<>> ELSE CommonPrefix(Best)
  <2>2. consensus' = [selected |-> TRUE, trace |-> taken,
                       accepted |-> taken # <<>> /\ Len(Best) >= minSize]
    BY <1>2 DEF SelectConsensus
  <2>3. consensus'.selected /\ consensus'.trace = taken
        /\ (consensus'.accepted <=> taken # <<>> /\ Len(Best) >= minSize)
    <3> HIDE DEF taken
    <3> QED
      BY <2>2
  <2>4. CASE arrived = <<>>
    <3>1. DOMAIN offer = {}
      <4>1. Range(<<>>) = {}
        BY DEF Range
      <4> QED
        BY <2>1, <2>4, <4>1
    <3>2. offer = <<>>
      BY <3>1, OfferType
    <3>3. taken = <<>> /\ ~consensus'.accepted
      BY <2>3, <2>4
    <3> QED
      BY <2>1, <2>3, <3>2, <3>3 DEF ConsensusDetermined
  <2>5. CASE arrived # <<>>
    <3> PICK h : h = Best[1]
      OBVIOUS
    <3>1. h \in Largest /\ Best = Cluster(ClusterKey(offer[h]))
      BY <2>1, <2>5, BestExists
    <3>2. h \in DOMAIN offer
      BY <3>1 DEF Largest
    <3>3. /\ Best \in Seq(DOMAIN offer) /\ Range(Best) = Group(h)
          /\ Len(Best) = Cardinality(Group(h))
      BY <2>1, <3>1, <3>2, ClusterIsGroup
    <3>4. Len(Best) >= 1
      <4>1. h \in Group(h)
        BY <3>2 DEF Group
      <4>2. Best # <<>>
        BY <3>3, <4>1 DEF Range
      <4> QED
        BY <3>3, <4>2
    <3>5. CommonPrefix(Best) = Shared(h) /\ CommonPrefix(Best) \in Seq(Int)
      <4> PICK d : d = Best
        OBVIOUS
      <4> QED
        BY <3>3, <3>4, CommonPrefixIsShared
    <3>6. /\ consensus'.trace = Shared(h)
          /\ consensus'.accepted <=> Cardinality(Group(h)) >= minSize /\ Shared(h) # <<>>
      BY <2>3, <2>5, <3>3, <3>5
    <3>7. h \in Largest' /\ Group(h)' = Group(h) /\ Shared(h)' = Shared(h)
      BY <2>1, <3>1, Undisturbed
    <3>8. ConsensusDetermined'
      <4>1. minSize' = minSize
        BY <2>1
      <4> QED
        BY <3>6, <3>7, <4>1, Zenon DEF ConsensusDetermined
    <3>9. consensus'.trace \in Seq(Int)
      BY <2>3, <2>5, <3>5
    <3> QED
      BY <2>1, <2>3, <3>8, <3>9
  <2> QED
    BY <2>4, <2>5
<1>3. ASSUME UNCHANGED <<offer, prefixTerms, minSize, arrived, consensus>> PROVE ConsensusInv'
  <2>1. /\ offer' = offer /\ prefixTerms' = prefixTerms /\ minSize' = minSize
        /\ arrived' = arrived /\ consensus' = consensus
    BY <1>3
  <2>2. ConsensusDetermined'
    <3>1. CASE offer = <<>> /\ ~consensus.accepted
      BY <2>1, <3>1 DEF ConsensusDetermined
    <3>2. ASSUME NEW s \in Largest, consensus.trace = Shared(s),
                 consensus.accepted <=> Cardinality(Group(s)) >= minSize /\ Shared(s) # <<>>
          PROVE  ConsensusDetermined'
      <4>1. s \in Largest' /\ Group(s)' = Group(s) /\ Shared(s)' = Shared(s)
        BY <2>1, <3>2, Undisturbed
      <4> QED
        BY <2>1, <3>2, <4>1, Zenon DEF ConsensusDetermined
    <3>3. CASE ~consensus.selected
      BY <2>1, <3>3 DEF ConsensusDetermined
    <3> QED
      BY <3>1, <3>2, <3>3, Zenon DEF ConsensusDetermined
  <2> QED
    BY <2>1, <2>2
<1> QED
  BY <1>1, <1>2, <1>3 DEF DiscoveryNext, Fit, discoveryVars

\* In whatever order the samples arrive, what is selected is what a largest
\* group of agreeing sources all report.
THEOREM TheConsensusIsDetermined == DiscoverySpec => []ConsensusDetermined
<1>1. ConsensusInv => ConsensusDetermined
  BY DEF ConsensusInv
<1> QED
  BY ConsensusInvInit, ConsensusInvStep, <1>1, PTL DEF DiscoverySpec

-----------------------------------------------------------------------------
(* The first of a set of parameters. *)
LeadingPart(T, S, k) ==
  /\ T \subseteq S /\ T # {}
  /\ \A p \in T, q \in T : \A j \in 1 .. k : p[j] = q[j]
  /\ \A p \in T, q \in S \ T : Lexicographic(p, q)

LEMMA FirstExists ==
  ASSUME NEW size \in Nat, NEW S, S # {}, S \subseteq [1 .. size -> Nat]
  PROVE  First(S) \in S /\ \A q \in S \ {First(S)} : Lexicographic(First(S), q)
<1> DEFINE K == {k \in Nat : k <= size => \E T : LeadingPart(T, S, k)}
<1>1. 0 \in K
  <2>1. LeadingPart(S, S, 0)
    BY DEF LeadingPart
  <2> QED
    BY <2>1
<1>2. ASSUME NEW k \in Nat, k \in K PROVE k + 1 \in K
  <2> SUFFICES ASSUME k + 1 <= size PROVE \E T : LeadingPart(T, S, k + 1)
    OBVIOUS
  <2>1. PICK T : LeadingPart(T, S, k)
    BY <1>2
  <2> DEFINE V == {p[k + 1] : p \in T}
  <2>2. V \in SUBSET Nat /\ V # {}
    <3>1. ASSUME NEW p \in T PROVE p[k + 1] \in Nat
      <4>1. p \in [1 .. size -> Nat] /\ k + 1 \in 1 .. size
        BY <2>1 DEF LeadingPart
      <4> QED
        BY <4>1
    <3> QED
      BY <2>1, <3>1 DEF LeadingPart
  <2>3. PICK x \in V : \A y \in V : x <= y
    <3> HIDE DEF V
    <3> QED
      BY <2>2, LeastNatural
  <2> DEFINE U == {p \in T : p[k + 1] = x}
  <2>4. U \subseteq S /\ U # {}
    BY <2>1, <2>3 DEF LeadingPart
  <2>5. \A p, q \in U : \A j \in 1 .. k + 1 : p[j] = q[j]
    <3>1. \A j \in 1 .. k + 1 : j \in 1 .. k \/ j = k + 1
      OBVIOUS
    <3> QED
      BY <2>1, <3>1 DEF LeadingPart
  <2>6. ASSUME NEW p \in U, NEW q \in S \ U PROVE Lexicographic(p, q)
    <3>1. CASE q \notin T
      BY <2>1, <3>1 DEF LeadingPart
    <3>2. CASE q \in T
      <4>1. q[k + 1] # x /\ x <= q[k + 1] /\ q[k + 1] \in Nat /\ x \in Nat
        BY <2>2, <2>3, <2>6, <3>2
      <4>2. p[k + 1] < q[k + 1]
        BY <4>1
      <4>3. \A j \in 1 .. (k + 1) - 1 : p[j] = q[j]
        <5>1. (k + 1) - 1 = k /\ p \in T
          OBVIOUS
        <5> QED
          BY <2>1, <3>2, <5>1 DEF LeadingPart
      <4>4. k + 1 \in DOMAIN p
        BY <2>4 DEF LeadingPart
      <4> QED
        BY <4>2, <4>3, <4>4 DEF Lexicographic
    <3> QED
      BY <3>1, <3>2
  <2>7. LeadingPart(U, S, k + 1)
    <3> HIDE DEF U
    <3> QED
      BY <2>4, <2>5, <2>6 DEF LeadingPart
  <2> QED
    BY <2>7
<1>3. size \in K
  <2> HIDE DEF K
  <2> QED
    BY <1>1, <1>2, Inductive
<1>4. PICK T : LeadingPart(T, S, size)
  BY <1>3
<1>5. PICK p \in T : TRUE
  BY <1>4 DEF LeadingPart
<1>6. \A q \in T : q = p
  <2>1. ASSUME NEW q \in T PROVE q = p
    <3>1. p \in [1 .. size -> Nat] /\ q \in [1 .. size -> Nat]
      BY <1>4 DEF LeadingPart
    <3>2. \A j \in 1 .. size : p[j] = q[j]
      BY <1>4 DEF LeadingPart
    <3> QED
      BY <3>1, <3>2
  <2> QED
    BY <2>1
<1> DEFINE Leader(x) == \A q \in S \ {x} : Lexicographic(x, q)
<1>7. p \in S /\ Leader(p)
  BY <1>4, <1>6 DEF LeadingPart
<1>8. First(S) = CHOOSE x \in S : Leader(x)
  BY Zenon DEF First
<1> HIDE DEF Leader
<1>9. First(S) \in S /\ Leader(First(S))
  BY <1>7, <1>8, Zenon
<1> QED
  BY <1>9 DEF Leader

-----------------------------------------------------------------------------
(* The power of a number in another. *)
ValueAt(f, p, x) == IF x % p # 0 THEN 0 ELSE 1 + f[x \div p]
ValuationTable(f, p, size) ==
  /\ f \in [1 .. size -> Nat]
  /\ \A x \in 1 .. size : f[x] = ValueAt(f, p, x)

LEMMA SmallerQuotient ==
  ASSUME NEW p \in Nat, p > 1, NEW x \in Nat \ {0}, x % p = 0
  PROVE  x \div p \in 1 .. x - 1
<1> PICK q \in Int : q = x \div p
  OBVIOUS
<1>1. x = p * q + (x % p)
  OBVIOUS
<1>2. x = p * q
  BY <1>1
<1>3. q > 0
  <2>1. CASE q <= 0
    <3>1. p * q <= 0
      BY <2>1
    <3> QED
      BY <1>2, <3>1
  <2> QED
    BY <2>1
<1>4. p * q >= 2 * q
  BY <1>3
<1>5. q < x
  BY <1>2, <1>3, <1>4
<1> QED
  BY <1>3, <1>5

LEMMA TableExists ==
  ASSUME NEW p \in Nat, p > 1, NEW size \in Nat
  PROVE  \E f : ValuationTable(f, p, size)
<1> DEFINE K == {k \in Nat : \E f : ValuationTable(f, p, k)}
<1>1. 0 \in K
  <2>1. ValuationTable([x \in 1 .. 0 |-> 0], p, 0)
    BY DEF ValuationTable
  <2> QED
    BY <2>1
<1>2. ASSUME NEW k \in Nat, k \in K PROVE k + 1 \in K
  <2>1. PICK f : ValuationTable(f, p, k)
    BY <1>2
  <2>2. f \in [1 .. k -> Nat] /\ \A x \in 1 .. k : f[x] = ValueAt(f, p, x)
    BY <2>1 DEF ValuationTable
  <2> PICK top : top = ValueAt(f, p, k + 1)
    OBVIOUS
  <2>3. top \in Nat
    <3>1. CASE (k + 1) % p # 0
      BY <3>1 DEF ValueAt
    <3>2. CASE (k + 1) % p = 0
      <4>1. (k + 1) \div p \in 1 .. (k + 1) - 1
        BY <3>2, SmallerQuotient
      <4>2. f[(k + 1) \div p] \in Nat
        BY <2>2, <4>1
      <4> QED
        BY <3>2, <4>2 DEF ValueAt
    <3> QED
      BY <3>1, <3>2
  <2> DEFINE g == [x \in 1 .. k + 1 |-> IF x = k + 1 THEN top ELSE f[x]]
  <2>4. g \in [1 .. k + 1 -> Nat]
    BY <2>2, <2>3
  <2>5. ASSUME NEW x \in 1 .. k + 1 PROVE ValueAt(g, p, x) = ValueAt(f, p, x)
    <3>1. CASE x % p # 0
      BY <3>1 DEF ValueAt
    <3>2. CASE x % p = 0
      <4>1. x \div p \in 1 .. x - 1
        <5>1. x \in Nat \ {0}
          OBVIOUS
        <5> QED
          BY <3>2, <5>1, SmallerQuotient
      <4>2. g[x \div p] = f[x \div p]
        BY <4>1
      <4> HIDE DEF g
      <4> QED
        BY <4>2 DEF ValueAt
    <3> QED
      BY <3>1, <3>2
  <2>6. ASSUME NEW x \in 1 .. k + 1 PROVE g[x] = ValueAt(f, p, x)
    <3>1. CASE x = k + 1
      BY <3>1
    <3>2. CASE x # k + 1
      <4>1. x \in 1 .. k
        BY <3>2
      <4> QED
        BY <2>2, <3>2, <4>1
    <3> QED
      BY <3>1, <3>2
  <2>7. ValuationTable(g, p, k + 1)
    <3> HIDE DEF g
    <3> QED
      BY <2>4, <2>5, <2>6 DEF ValuationTable
  <2> QED
    BY <2>7
<1>3. size \in K
  <2> HIDE DEF K
  <2> QED
    BY <1>1, <1>2, Inductive
<1> QED
  BY <1>3

LEMMA TablesAgree ==
  ASSUME NEW p \in Nat, p > 1, NEW k \in Nat, NEW e \in Nat, NEW f, NEW g,
         ValuationTable(f, p, k), ValuationTable(g, p, e), NEW x \in 1 .. k, x <= e
  PROVE  f[x] = g[x]
<1> DEFINE T == {y \in Nat : y \in 1 .. k /\ y <= e /\ f[y] # g[y]}
<1> SUFFICES ASSUME T # {} PROVE FALSE
  OBVIOUS
<1>1. PICK y \in T : \A m \in T : y <= m
  BY LeastNatural
<1>2. /\ y \in Nat \ {0} /\ y <= k /\ y <= e /\ f[y] # g[y]
      /\ f[y] = ValueAt(f, p, y) /\ g[y] = ValueAt(g, p, y)
  BY <1>1 DEF ValuationTable
<1>3. y % p = 0 /\ f[y \div p] # g[y \div p]
  BY <1>2 DEF ValueAt
<1>4. y \div p \in 1 .. y - 1
  BY <1>2, <1>3, SmallerQuotient
<1> PICK q : q = y \div p
  OBVIOUS
<1>5. q \in T
  BY <1>2, <1>3, <1>4
<1> QED
  BY <1>1, <1>2, <1>4, <1>5

IsValuation(v, p) == v = [x \in Nat \ {0} |-> ValueAt(v, p, x)]

LEMMA ValuationExists ==
  ASSUME NEW p \in Nat, p > 1
  PROVE  \E v : IsValuation(v, p)
<1> DEFINE t(x) == CHOOSE f : ValuationTable(f, p, x)
           v == [x \in Nat \ {0} |-> t(x)[x]]
<1>1. ASSUME NEW x \in Nat PROVE ValuationTable(t(x), p, x)
  BY TableExists
<1>2. ASSUME NEW x \in Nat \ {0} PROVE t(x)[x] = ValueAt(v, p, x)
  <2>1. t(x)[x] = ValueAt(t(x), p, x)
    <3> PICK f : f = t(x)
      OBVIOUS
    <3>1. ValuationTable(f, p, x) /\ x \in 1 .. x
      BY <1>1
    <3>2. f[x] = ValueAt(f, p, x)
      BY <3>1 DEF ValuationTable
    <3> HIDE DEF t
    <3> QED
      BY <3>2
  <2>2. CASE x % p # 0
    BY <2>1, <2>2 DEF ValueAt
  <2>3. CASE x % p = 0
    <3> PICK q \in 1 .. x - 1 : q = x \div p
      BY <2>3, SmallerQuotient
    <3>1. t(x)[q] = t(q)[q]
      <4>1. ValuationTable(t(x), p, x) /\ ValuationTable(t(q), p, q) /\ q \in 1 .. x
        BY <1>1
      <4> HIDE DEF t
      <4> QED
        BY <4>1, TablesAgree
    <3>2. v[q] = t(q)[q]
      <4> HIDE DEF t
      <4> QED
        OBVIOUS
    <3> HIDE DEF t, v
    <3> QED
      BY <2>1, <2>3, <3>1, <3>2 DEF ValueAt
  <2> QED
    BY <2>2, <2>3
<1>3. IsValuation(v, p)
  <2> DEFINE a(x) == t(x)[x]
             h(x) == ValueAt(v, p, x)
  <2>1. \A x \in Nat \ {0} : a(x) = h(x)
    BY <1>2
  <2> HIDE DEF a, h
  <2>2. [x \in Nat \ {0} |-> a(x)] = [x \in Nat \ {0} |-> h(x)]
    BY <2>1
  <2>3. v = [x \in Nat \ {0} |-> a(x)]
    BY DEF a
  <2> HIDE DEF v, t
  <2> QED
    BY <2>2, <2>3 DEF h, IsValuation
<1> QED
  BY <1>3

LEMMA ValuationFacts ==
  ASSUME NEW p \in Nat, p > 1, NEW v, IsValuation(v, p), NEW x \in Nat \ {0}
  PROVE  /\ v[x] \in 0 .. x - 1
         /\ v[x] = IF x % p # 0 THEN 0 ELSE 1 + v[x \div p]
<1>1. \A y \in Nat \ {0} : v[y] = ValueAt(v, p, y)
  BY DEF IsValuation
<1> DEFINE T == {y \in Nat : y # 0 /\ v[y] \notin 0 .. y - 1}
<1>2. T = {}
  <2> SUFFICES ASSUME T # {} PROVE FALSE
    OBVIOUS
  <2>1. PICK y \in T : \A m \in T : y <= m
    BY LeastNatural
  <2>2. y \in Nat \ {0} /\ v[y] \notin 0 .. y - 1 /\ v[y] = ValueAt(v, p, y)
    BY <1>1, <2>1
  <2>3. CASE y % p # 0
    BY <2>2, <2>3 DEF ValueAt
  <2>4. CASE y % p = 0
    <3> PICK q \in 1 .. y - 1 : q = y \div p
      BY <2>2, <2>4, SmallerQuotient
    <3>1. v[y] = 1 + v[q]
      BY <2>2, <2>4 DEF ValueAt
    <3>2. q \notin T
      BY <2>1
    <3>3. v[q] \in 0 .. q - 1
      BY <3>2
    <3> QED
      BY <2>2, <3>1, <3>3
  <2> QED
    BY <2>3, <2>4
<1>3. v[x] \in 0 .. x - 1
  BY <1>2
<1> QED
  BY <1>1, <1>3 DEF ValueAt

-----------------------------------------------------------------------------
(* The loop of vPow counts what the valuation is.                          *)

GoValue(go, p, fuel, x, acc) ==
  IF fuel = 0 \/ x = 0 \/ x % p # 0 THEN acc ELSE go[fuel - 1][x \div p][acc + 1]
IsGo(go, p) ==
  go = [fuel \in Nat |-> [x \in Nat |-> [acc \in Nat |-> GoValue(go, p, fuel, x, acc)]]]

\* What the loop returns: no more steps than its fuel allows.
Counted(v, fuel, x, acc) ==
  IF x = 0 THEN acc ELSE IF v[x] <= fuel THEN acc + v[x] ELSE acc + fuel

LEMMA CountedStep ==
  ASSUME NEW p \in Nat, p > 1, NEW v, IsValuation(v, p),
         NEW fuel \in Nat, NEW x \in Nat, NEW acc \in Nat
  PROVE  Counted(v, fuel, x, acc) =
           IF fuel = 0 \/ x = 0 \/ x % p # 0 THEN acc
           ELSE Counted(v, fuel - 1, x \div p, acc + 1)
<1>1. CASE x = 0
  BY <1>1 DEF Counted
<1>2. CASE x # 0 /\ x % p # 0
  <2>1. v[x] = 0
    BY <1>2, ValuationFacts
  <2> QED
    BY <1>2, <2>1 DEF Counted
<1>3. CASE x # 0 /\ fuel = 0
  <2>1. v[x] \in Nat
    BY <1>3, ValuationFacts
  <2> QED
    BY <1>3, <2>1 DEF Counted
<1>4. CASE x # 0 /\ fuel # 0 /\ x % p = 0
  <2> PICK q \in 1 .. x - 1 : q = x \div p
    BY <1>4, SmallerQuotient
  <2>1. v[x] = 1 + v[q]
    BY <1>4, ValuationFacts
  <2>2. v[q] \in Nat /\ q # 0
    BY ValuationFacts
  <2>3. Counted(v, fuel, x, acc) = IF 1 + v[q] <= fuel THEN acc + (1 + v[q]) ELSE acc + fuel
    BY <1>4, <2>1 DEF Counted
  <2>4. Counted(v, fuel - 1, q, acc + 1)
          = IF v[q] <= fuel - 1 THEN (acc + 1) + v[q] ELSE (acc + 1) + (fuel - 1)
    BY <2>2 DEF Counted
  <2> PICK k \in Nat : k = v[q]
    BY <2>2
  <2>5. (IF 1 + k <= fuel THEN acc + (1 + k) ELSE acc + fuel)
          = IF k <= fuel - 1 THEN (acc + 1) + k ELSE (acc + 1) + (fuel - 1)
    OBVIOUS
  <2> QED
    BY <1>4, <2>3, <2>4, <2>5
<1> QED
  BY <1>1, <1>2, <1>3, <1>4

LEMMA CountedIsNat ==
  ASSUME NEW p \in Nat, p > 1, NEW v, IsValuation(v, p),
         NEW fuel \in Nat, NEW x \in Nat, NEW acc \in Nat
  PROVE  Counted(v, fuel, x, acc) \in Nat
<1>1. x # 0 => v[x] \in Nat
  BY ValuationFacts
<1> QED
  BY <1>1 DEF Counted

LEMMA QuotientIsNat ==
  ASSUME NEW p \in Nat, p > 1, NEW x \in Nat, x # 0, x % p = 0
  PROVE  x \div p \in Nat
<1>1. x \div p \in 1 .. x - 1
  BY SmallerQuotient
<1> QED
  BY <1>1

LEMMA GoExists ==
  ASSUME NEW p \in Nat, p > 1
  PROVE  \E go : IsGo(go, p)
<1> PICK v : IsValuation(v, p)
  BY ValuationExists
<1> DEFINE go == [fuel \in Nat |-> [x \in Nat |-> [acc \in Nat |-> Counted(v, fuel, x, acc)]]]
<1>1. ASSUME NEW fuel \in Nat, NEW x \in Nat, NEW acc \in Nat
      PROVE  Counted(v, fuel, x, acc) = GoValue(go, p, fuel, x, acc)
  <2>1. CASE fuel = 0 \/ x = 0 \/ x % p # 0
    BY <2>1, CountedStep DEF GoValue
  <2>2. CASE ~(fuel = 0 \/ x = 0 \/ x % p # 0)
    <3> PICK q \in Nat : q = x \div p
      BY <2>2, QuotientIsNat
    <3>1. fuel - 1 \in Nat /\ acc + 1 \in Nat
      BY <2>2
    <3>2. go[fuel - 1][q][acc + 1] = Counted(v, fuel - 1, q, acc + 1)
      BY <3>1
    <3>3. Counted(v, fuel, x, acc) = Counted(v, fuel - 1, q, acc + 1)
      BY <2>2, CountedStep
    <3> HIDE DEF go
    <3> QED
      BY <2>2, <3>2, <3>3 DEF GoValue
  <2> QED
    BY <2>1, <2>2
<1> DEFINE left(fuel, x) == [acc \in Nat |-> Counted(v, fuel, x, acc)]
           right(fuel, x) == [acc \in Nat |-> GoValue(go, p, fuel, x, acc)]
<1>2. ASSUME NEW fuel \in Nat, NEW x \in Nat PROVE left(fuel, x) = right(fuel, x)
  <2> HIDE DEF go
  <2> QED
    BY <1>1
<1>3. [fuel \in Nat |-> [x \in Nat |-> left(fuel, x)]]
        = [fuel \in Nat |-> [x \in Nat |-> right(fuel, x)]]
  <2> HIDE DEF left, right
  <2> QED
    BY <1>2
<1>4. go = [fuel \in Nat |-> [x \in Nat |-> left(fuel, x)]]
  BY Zenon
<1>5. IsGo(go, p)
  <2> HIDE DEF go, left
  <2> QED
    BY <1>3, <1>4, Zenon DEF IsGo, right
<1> QED
  BY <1>5

LEMMA GoCounts ==
  ASSUME NEW p \in Nat, p > 1, NEW v, IsValuation(v, p), NEW go, IsGo(go, p), NEW top \in Nat
  PROVE  \A x \in Nat, acc \in Nat : go[top][x][acc] = Counted(v, top, x, acc)
<1>1. ASSUME NEW fuel \in Nat, NEW x \in Nat, NEW acc \in Nat
      PROVE  go[fuel][x][acc] = GoValue(go, p, fuel, x, acc)
  <2> DEFINE row(f) == [y \in Nat |-> [a \in Nat |-> GoValue(go, p, f, y, a)]]
  <2>1. go = [f \in Nat |-> row(f)]
    BY Zenon DEF IsGo
  <2> HIDE DEF row
  <2>2. go[fuel] = row(fuel)
    BY <2>1
  <2>3. row(fuel)[x] = [a \in Nat |-> GoValue(go, p, fuel, x, a)]
    BY DEF row
  <2> QED
    BY <2>2, <2>3
<1> DEFINE K == {k \in Nat : \A x \in Nat, acc \in Nat : go[k][x][acc] = Counted(v, k, x, acc)}
<1>2. 0 \in K
  <2>1. ASSUME NEW x \in Nat, NEW acc \in Nat PROVE go[0][x][acc] = Counted(v, 0, x, acc)
    <3>1. go[0][x][acc] = acc
      BY <1>1 DEF GoValue
    <3>2. Counted(v, 0, x, acc) = acc
      BY CountedStep
    <3> QED
      BY <3>1, <3>2
  <2> QED
    BY <2>1
<1>3. ASSUME NEW k \in Nat, k \in K PROVE k + 1 \in K
  <2>1. ASSUME NEW x \in Nat, NEW acc \in Nat PROVE go[k + 1][x][acc] = Counted(v, k + 1, x, acc)
    <3>1. go[k + 1][x][acc] = GoValue(go, p, k + 1, x, acc)
      BY <1>1
    <3>2. CASE x = 0 \/ x % p # 0
      <4>1. Counted(v, k + 1, x, acc) = acc
        BY <3>2, CountedStep
      <4> QED
        BY <3>1, <3>2, <4>1 DEF GoValue
    <3>3. CASE ~(x = 0 \/ x % p # 0)
      <4> PICK q \in Nat : q = x \div p
        BY <3>3, QuotientIsNat
      <4>1. GoValue(go, p, k + 1, x, acc) = go[k][q][acc + 1]
        BY <3>3 DEF GoValue
      <4>2. go[k][q][acc + 1] = Counted(v, k, q, acc + 1)
        BY <1>3
      <4>3. Counted(v, k + 1, x, acc) = Counted(v, (k + 1) - 1, q, acc + 1)
        BY <3>3, CountedStep
      <4>4. (k + 1) - 1 = k
        OBVIOUS
      <4> QED
        BY <3>1, <4>1, <4>2, <4>3, <4>4
    <3> QED
      BY <3>2, <3>3
  <2> QED
    BY <2>1
<1>4. top \in K
  <2> HIDE DEF K
  <2> QED
    BY <1>2, <1>3, Inductive
<1> QED
  BY <1>4

\* The fuel of the emitted loop suffices.
LEMMA VPowIsValuation ==
  ASSUME NEW p \in Nat, p > 1, NEW m \in Nat
  PROVE  VPow(p, m) = Valuation(m, p) /\ Valuation(m, p) \in Nat
<1> DEFINE v == CHOOSE f : IsValuation(f, p)
           go == CHOOSE f : IsGo(f, p)
<1>1. IsValuation(v, p) /\ IsGo(go, p)
  BY ValuationExists, GoExists, Zenon
<1>2. VPow(p, m) = IF p <= 1 THEN 0 ELSE go[m + 1][m][0]
  BY Zenon DEF VPow, IsGo, GoValue, Fuel
<1>3. Valuation(m, p) = IF m <= 0 \/ p <= 1 THEN 0 ELSE v[m]
  BY Zenon DEF Valuation, IsValuation, ValueAt
<1> HIDE DEF v, go
<1>4. go[m + 1][m][0] = Counted(v, m + 1, m, 0)
  BY <1>1, GoCounts
<1>5. CASE m = 0
  BY <1>2, <1>3, <1>4, <1>5 DEF Counted
<1>6. CASE m # 0
  <2>1. v[m] \in 0 .. m - 1
    BY <1>1, <1>6, ValuationFacts
  <2> QED
    BY <1>2, <1>3, <1>4, <1>6, <2>1 DEF Counted
<1> QED
  BY <1>5, <1>6

-----------------------------------------------------------------------------
(* The structural families. *)
LEMMA LeastIs ==
  ASSUME NEW T, T \subseteq Int, NEW m \in T, \A k \in T : m <= k
  PROVE  Min(T) = m
<1>1. \A x \in T : (\A y \in T : x <= y) <=> x = m
  <2> SUFFICES ASSUME NEW x \in T PROVE (\A y \in T : x <= y) <=> x = m
    OBVIOUS
  <2>1. x \in Int /\ m \in Int
    OBVIOUS
  <2> QED
    BY <2>1
<1> QED
  BY <1>1 DEF Min

LEMMA GreatestIntIs ==
  ASSUME NEW T, T \subseteq Int, NEW m \in T, \A k \in T : m >= k
  PROVE  Max(T) = m
<1>1. \A x \in T : (\A y \in T : x >= y) <=> x = m
  <2> SUFFICES ASSUME NEW x \in T PROVE (\A y \in T : x >= y) <=> x = m
    OBVIOUS
  <2>1. x \in Int /\ m \in Int
    OBVIOUS
  <2> QED
    BY <2>1
<1> QED
  BY <1>1 DEF Max

LEMMA ClampIs ==
  ASSUME NEW x \in Int, NEW low \in Int, NEW high \in Int
  PROVE  /\ Clamp(x, low, high) \in Int
         /\ Clamp(x, low, high) = LET y == IF x < low THEN low ELSE x
                                  IN  IF y < high THEN y ELSE high
<1> DEFINE y == IF x < low THEN low ELSE x
           w == IF y < high THEN y ELSE high
<1>1. Max({low, x}) = y
  <2>1. {low, x} \subseteq Int /\ y \in {low, x} /\ \A k \in {low, x} : y >= k
    OBVIOUS
  <2> HIDE DEF y
  <2> QED
    BY <2>1, GreatestIntIs
<1>2. y \in Int
  OBVIOUS
<1> HIDE DEF y
<1>3. Min({high, y}) = w
  <2>1. {high, y} \subseteq Int /\ w \in {high, y} /\ \A k \in {high, y} : w <= k
    BY <1>2
  <2> HIDE DEF w
  <2> QED
    BY <2>1, LeastIs
<1>4. w \in Int
  BY <1>2
<1> QED
  BY <1>1, <1>3, <1>4 DEF Clamp, y

LEMMA TopIsInt ==
  ASSUME NEW t \in Seq(Int), Len(t) >= 1
  PROVE  Top(t) \in Int
<1> PICK len \in Nat : len = Len(t)
  OBVIOUS
<1> DEFINE K == {k \in Nat : k + 1 <= len => \E j \in 1 .. k + 1 : \A h \in 1 .. k + 1 : t[h] <= t[j]}
<1>1. 0 \in K
  <2>1. t[1] \in Int
    OBVIOUS
  <2>2. \A h \in 1 .. 0 + 1 : t[h] <= t[1]
    BY <2>1
  <2> QED
    BY <2>2
<1>2. ASSUME NEW k \in Nat, k \in K PROVE k + 1 \in K
  <2> SUFFICES ASSUME (k + 1) + 1 <= len
               PROVE  \E j \in 1 .. (k + 1) + 1 : \A h \in 1 .. (k + 1) + 1 : t[h] <= t[j]
    OBVIOUS
  <2>1. PICK j \in 1 .. k + 1 : \A h \in 1 .. k + 1 : t[h] <= t[j]
    BY <1>2
  <2> DEFINE g == IF t[k + 2] <= t[j] THEN j ELSE k + 2
  <2>2. \A h \in 1 .. (k + 1) + 1 : h \in 1 .. k + 1 \/ h = k + 2
    OBVIOUS
  <2>3. \A h \in 1 .. (k + 1) + 1 : t[h] \in Int
    OBVIOUS
  <2>4. \A h \in 1 .. (k + 1) + 1 : t[h] <= t[g]
    BY <2>1, <2>2, <2>3
  <2>5. g \in 1 .. (k + 1) + 1
    OBVIOUS
  <2> QED
    BY <2>4, <2>5
<1>3. len - 1 \in K
  <2>1. len - 1 \in Nat
    OBVIOUS
  <2> HIDE DEF K
  <2> QED
    BY <1>1, <1>2, <2>1, Inductive
<1>4. PICK j \in 1 .. len : \A h \in 1 .. len : t[h] <= t[j]
  BY <1>3
<1>5. Range(t) \subseteq Int /\ t[j] \in Range(t) /\ \A x \in Range(t) : t[j] >= x
  BY <1>4 DEF Range
<1>6. Max(Range(t)) = t[j]
  BY <1>5, GreatestIntIs
<1> QED
  BY <1>5, <1>6 DEF Top

FamilySize(kind) ==
  CASE kind = "floor_affine"    -> 2
    [] kind = "gcd_shift_mod"   -> 2
    [] kind = "gcd_affine"      -> 4
    [] kind = "valuation_shift" -> 3

LEMMA FourNumbers ==
  ASSUME NEW p1 \in Nat, NEW p2 \in Nat, NEW p3 \in Nat, NEW p4 \in Nat
  PROVE  <<p1, p2, p3, p4>> \in [1 .. 4 -> Nat]
<1> PICK q : q = <<p1, p2, p3, p4>>
  OBVIOUS
<1>1. q \in Seq(Nat) /\ Len(q) = 4
  OBVIOUS
<1>2. q \in [1 .. 4 -> Nat]
  BY <1>1
<1> QED
  BY <1>2

\* The parameters of a family are tuples of natural numbers.
LEMMA ParametersAre ==
  ASSUME NEW t \in Seq(Int), Len(t) >= 6, Natural(t), NEW j \in 1 .. 4
  PROVE  Parameters(t, Families[j]) \subseteq [1 .. FamilySize(Families[j]) -> Nat]
<1> PICK one \in Nat : one = t[1]
  BY DEF Natural
<1> PICK top \in Int : top = Top(t)
  BY TopIsInt
<1>1. CASE j = 1
  <2>1. Families[j] = "floor_affine"
    BY <1>1 DEF Families
  <2>2. Parameters(t, "floor_affine") = {<<d, one>> : d \in 2 .. 10}
    BY DEF Parameters
  <2>3. FamilySize("floor_affine") = 2
    BY DEF FamilySize
  <2>4. ASSUME NEW d \in 2 .. 10 PROVE <<d, one>> \in [1 .. 2 -> Nat]
    OBVIOUS
  <2>5. ASSUME NEW p \in Parameters(t, "floor_affine") PROVE p \in [1 .. 2 -> Nat]
    <3>1. PICK d \in 2 .. 10 : p = <<d, one>>
      BY <2>2
    <3> QED
      BY <2>4, <3>1
  <2> QED
    BY <2>1, <2>3, <2>5
<1>2. CASE j = 2
  <2>1. Families[j] = "gcd_shift_mod"
    BY <1>2 DEF Families
  <2>a. top + 1 \in Int /\ 2 \in Int /\ 30 \in Int
    OBVIOUS
  <2> PICK e \in Int : e = Clamp(top + 1, 2, 30)
    BY <2>a, ClampIs
  <2>2. Parameters(t, "gcd_shift_mod") = UNION {{<<m, s>> : s \in 0 .. m} : m \in 2 .. e}
    BY DEF Parameters
  <2>3. FamilySize("gcd_shift_mod") = 2
    BY DEF FamilySize
  <2>4. ASSUME NEW m \in 2 .. e, NEW s \in 0 .. m PROVE <<m, s>> \in [1 .. 2 -> Nat]
    OBVIOUS
  <2>5. ASSUME NEW p \in Parameters(t, "gcd_shift_mod") PROVE p \in [1 .. 2 -> Nat]
    <3>1. PICK m \in 2 .. e : p \in {<<m, s>> : s \in 0 .. m}
      BY <2>2
    <3>2. PICK s \in 0 .. m : p = <<m, s>>
      BY <3>1
    <3> QED
      BY <2>4, <3>2
  <2> QED
    BY <2>1, <2>3, <2>5
<1>3. CASE j = 3
  <2>1. Families[j] = "gcd_affine"
    BY <1>3 DEF Families
  <2>a. top + 8 \in Int /\ 2 \in Int /\ 40 \in Int
    OBVIOUS
  <2> PICK h \in Int : h = Clamp(top + 8, 2, 40)
    BY <2>a, ClampIs
  <2>2. Parameters(t, "gcd_affine") =
          UNION {UNION {{<<e, m, s, one - gcd(s, m)>> : s \in {x \in 0 .. m : gcd(x, m) <= one}} :
                          m \in 2 .. h} : e \in 1 .. 4}
    BY DEF Parameters
  <2>3. FamilySize("gcd_affine") = 4
    BY DEF FamilySize
  <2>4. ASSUME NEW m \in 2 .. h, NEW s \in 0 .. m, gcd(s, m) <= one
        PROVE  one - gcd(s, m) \in Nat
    <3>1. s \in Nat /\ m \in Positive
      BY DEF Positive
    <3>2. gcd(s, m) \in Common(s, m)
      BY <3>1, EuclidIsGreatest
    <3>3. gcd(s, m) \in Nat
      BY <3>2 DEF Common, Positive
    <3> QED
      BY <2>4, <3>3, SMTT(20)
  <2>5. ASSUME NEW p \in Parameters(t, "gcd_affine") PROVE p \in [1 .. 4 -> Nat]
    <3> DEFINE row(e, m) == {<<e, m, s, one - gcd(s, m)>> : s \in {x \in 0 .. m : gcd(x, m) <= one}}
    <3>b. PICK e \in 1 .. 4 : p \in UNION {row(e, m) : m \in 2 .. h}
      BY <2>2, SMTT(20)
    <3>a. PICK m \in 2 .. h : p \in row(e, m)
      <4> HIDE DEF row
      <4> QED
        BY <3>b
    <3>1. PICK s \in 0 .. m : gcd(s, m) <= one /\ p = <<e, m, s, one - gcd(s, m)>>
      BY <3>a
    <3>2. PICK o \in Nat : o = one - gcd(s, m)
      BY <2>4, <3>1
    <3>3. p = <<e, m, s, o>> /\ e \in Nat /\ m \in Nat /\ s \in Nat
      BY <3>1, <3>2
    <3> QED
      BY <3>3, FourNumbers
  <2> QED
    BY <2>1, <2>3, <2>5
<1>4. CASE j = 4
  <2>1. Families[j] = "valuation_shift"
    BY <1>4 DEF Families
  <2>2. Parameters(t, "valuation_shift") =
          UNION {{<<p, s, one - Valuation(s, p)>> :
                    s \in {x \in 0 .. 7 : Valuation(x, p) <= one}} : p \in {2, 3, 5}}
    BY DEF Parameters
  <2>3. FamilySize("valuation_shift") = 3
    BY DEF FamilySize
  <2>4. ASSUME NEW q \in Parameters(t, "valuation_shift") PROVE q \in [1 .. 3 -> Nat]
    <3>1. PICK p, s : /\ p \in {2, 3, 5} /\ s \in {x \in 0 .. 7 : Valuation(x, p) <= one}
                      /\ q = <<p, s, one - Valuation(s, p)>>
      BY <2>2
    <3>2. Valuation(s, p) \in Nat
      <4>1. p \in Nat /\ p > 1 /\ s \in Nat
        BY <3>1
      <4> QED
        BY <4>1, VPowIsValuation
    <3>3. one - Valuation(s, p) \in Nat
      BY <3>1, <3>2
    <3> QED
      BY <3>1, <3>3, SMTT(20)
  <2> QED
    BY <2>1, <2>3, <2>4
<1> QED
  BY <1>1, <1>2, <1>3, <1>4

LEMMA ValuationParameters ==
  ASSUME NEW t, NEW q \in Parameters(t, "valuation_shift")
  PROVE  q[1] \in {2, 3, 5} /\ q[2] \in 0 .. 7
<1>1. Parameters(t, "valuation_shift") =
        UNION {{<<p, s, t[1] - Valuation(s, p)>> :
                  s \in {x \in 0 .. 7 : Valuation(x, p) <= t[1]}} : p \in {2, 3, 5}}
  BY DEF Parameters
<1>2. PICK p, s : /\ p \in {2, 3, 5} /\ s \in {x \in 0 .. 7 : Valuation(x, p) <= t[1]}
                  /\ q = <<p, s, t[1] - Valuation(s, p)>>
  BY <1>1
<1> QED
  BY <1>2

\* The candidate is of the first family some parameters of which fit, with
\* the first parameters that do.
LEMMA StructuralCandidateFits ==
  ASSUME NEW t \in Seq(Int), Found(StructuralCandidate(t))
  PROVE  \E j \in 1 .. 4 : \E p :
           /\ StructuralCandidate(t) = [kind |-> Families[j], params |-> p]
           /\ p \in Fits(t, Families[j], Parameters(t, Families[j]))
<1> DEFINE fits(j) == Fits(t, Families[j], Parameters(t, Families[j]))
           indices == [j \in DOMAIN Families |-> j]
           index == SelectInSeq(indices, LAMBDA j : fits(j) # {})
           I == {i \in 1 .. Len(indices) : fits(indices[i]) # {}}
<1>1. StructuralCandidate(t) =
        IF Len(t) < 6 \/ ~Natural(t) \/ index = 0 THEN NoCandidate
        ELSE [kind |-> Families[index], params |-> First(fits(index))]
  BY Zenon DEF StructuralCandidate
<1>2. ~Found(NoCandidate)
  BY DEF Found, NoCandidate
<1>3. /\ ~(Len(t) < 6) /\ Natural(t) /\ index # 0
      /\ StructuralCandidate(t) = [kind |-> Families[index], params |-> First(fits(index))]
  BY <1>1, <1>2, Zenon
<1>4. index = IF I # {} THEN Min(I) ELSE 0
  BY Zenon DEF SelectInSeq
<1>5. Len(indices) = 4 /\ \A i \in 1 .. 4 : indices[i] = i
  BY DEF Families
<1> HIDE DEF indices, fits
<1>6. I = {i \in 1 .. 4 : fits(i) # {}}
  BY <1>5
<1> HIDE DEF index
<1>7. I # {} /\ index = Min(I)
  BY <1>3, <1>4, Zenon
<1>8. index \in I
  <2>1. I \in SUBSET Nat /\ I \subseteq Int
    BY <1>6
  <2> HIDE DEF I
  <2>2. PICK m \in I : \A k \in I : m <= k
    BY <1>7, <2>1, LeastNatural
  <2>3. Min(I) = m
    BY <2>1, <2>2, LeastIs
  <2> QED
    BY <1>7, <2>3
<1>9. index \in 1 .. 4 /\ fits(index) # {}
  BY <1>6, <1>8
<1>10. fits(index) \subseteq [1 .. FamilySize(Families[index]) -> Nat]
  <2>1. Parameters(t, Families[index]) \subseteq [1 .. FamilySize(Families[index]) -> Nat]
    BY <1>3, <1>9, ParametersAre
  <2>2. fits(index) \subseteq Parameters(t, Families[index])
    BY DEF fits, Fits
  <2> QED
    BY <2>1, <2>2
<1>11. FamilySize(Families[index]) \in Nat
  <2>1. index = 1 \/ index = 2 \/ index = 3 \/ index = 4
    BY <1>9
  <2> QED
    BY <2>1 DEF FamilySize, Families
<1>12. First(fits(index)) \in fits(index)
  BY <1>9, <1>10, <1>11, FirstExists
<1> QED
  BY <1>3, <1>9, <1>12 DEF fits

\* What is emitted for it computes what it was judged by.
LEMMA StructuralReproduces ==
  ASSUME NEW t \in Seq(Int), Found(StructuralCandidate(t))
  PROVE  LET cand == StructuralCandidate(t)
         IN  /\ \A m \in Nat : LeanFit(cand, m) = StructuralValue(cand, m)
             /\ \A k \in DOMAIN t : LeanFit(cand, k - 1) = t[k]
<1> PICK j \in 1 .. 4 : \E p :
      /\ StructuralCandidate(t) = [kind |-> Families[j], params |-> p]
      /\ p \in Fits(t, Families[j], Parameters(t, Families[j]))
  BY StructuralCandidateFits
<1> PICK p :
      /\ StructuralCandidate(t) = [kind |-> Families[j], params |-> p]
      /\ p \in Fits(t, Families[j], Parameters(t, Families[j]))
  OBVIOUS
<1> PICK cand : cand = [kind |-> Families[j], params |-> p]
  OBVIOUS
<1>1. cand.kind = Families[j] /\ cand.params = p
  OBVIOUS
<1>2. ASSUME NEW m \in Nat PROVE LeanFit(cand, m) = StructuralValue(cand, m)
  <2>1. CASE j = 4
    <3>1. cand.kind = "valuation_shift"
      BY <1>1, <2>1 DEF Families
    <3>2. p[1] \in {2, 3, 5} /\ p[2] \in 0 .. 7
      <4>1. p \in Parameters(t, "valuation_shift")
        BY <1>1, <3>1 DEF Fits
      <4> QED
        BY <4>1, ValuationParameters
    <3>3. VPow(p[1], m + p[2]) = Valuation(m + p[2], p[1])
      <4>1. p[1] \in Nat /\ p[1] > 1 /\ m + p[2] \in Nat
        BY <3>2
      <4> QED
        BY <4>1, VPowIsValuation
    <3>4. LeanFit(cand, m) = VPow(p[1], m + p[2]) + p[3]
      BY <1>1, <3>1 DEF LeanFit
    <3>5. StructuralValue(cand, m) = Valuation(m + p[2], p[1]) + p[3]
      BY <1>1, <3>1 DEF StructuralValue
    <3> QED
      BY <3>3, <3>4, <3>5
  <2>2. CASE j # 4
    <3>1. cand.kind # "holonomic_lite" /\ cand.kind # "valuation_shift"
      <4>1. j = 1 \/ j = 2 \/ j = 3
        BY <2>2
      <4> QED
        BY <1>1, <4>1 DEF Families
    <3> QED
      BY <3>1 DEF LeanFit
  <2> QED
    BY <2>1, <2>2
<1>3. ASSUME NEW k \in DOMAIN t PROVE LeanFit(cand, k - 1) = t[k]
  <2>1. StructuralValue(cand, k - 1) = t[k]
    BY DEF Fits
  <2>2. k - 1 \in Nat
    OBVIOUS
  <2> QED
    BY <1>2, <2>1, <2>2
<1> QED
  BY <1>2, <1>3

-----------------------------------------------------------------------------
(* The holonomic fit. *)
HolonomicStep(u, v, w, z, k, x) ==
  LET den == w * (k - 1) + z
      num == (u * (k - 1) + v) * x
  IN  IF x < 0 \/ den = 0 THEN -1
      ELSE IF num % den # 0 THEN -1 ELSE num \div den

BuildStep(u, v, w, z, k, x) ==
  LET den == w * (k - 1) + z
  IN  IF den = 0 THEN 0 ELSE ((u * (k - 1) + v) * x) \div den

\* Not None.
Known(x) == x >= 0

LEMMA Linear ==
  ASSUME NEW a \in Nat, NEW i \in Nat, NEW k \in Nat
  PROVE  a * k + i \in Nat
<1>1. a * k \in Nat
  OBVIOUS
<1> QED
  BY <1>1

LEMMA StepsAreInt ==
  ASSUME NEW u \in Nat, NEW v \in Nat, NEW w \in Nat, NEW z \in Nat,
         NEW k \in Nat \ {0}, NEW x \in Int
  PROVE  HolonomicStep(u, v, w, z, k, x) \in Int /\ BuildStep(u, v, w, z, k, x) \in Int
<1>1. k - 1 \in Nat
  OBVIOUS
<1> PICK den \in Nat : den = w * (k - 1) + z
  BY <1>1, Linear
<1> PICK num \in Int : num = (u * (k - 1) + v) * x
  <2>1. u * (k - 1) + v \in Nat
    BY <1>1, Linear
  <2> QED
    BY <2>1
<1>2. HolonomicStep(u, v, w, z, k, x) =
        IF x < 0 \/ den = 0 THEN -1
        ELSE IF num % den # 0 THEN -1 ELSE num \div den
  BY DEF HolonomicStep
<1>3. BuildStep(u, v, w, z, k, x) = IF den = 0 THEN 0 ELSE num \div den
  BY DEF BuildStep
<1>4. den # 0 => num \div den \in Int
  OBVIOUS
<1>5. -1 \in Int /\ 0 \in Int
  OBVIOUS
<1> QED
  BY <1>2, <1>3, <1>4, <1>5

LEMMA KnownStep ==
  ASSUME NEW u, NEW v, NEW w, NEW z, NEW k, NEW x \in Int,
         Known(HolonomicStep(u, v, w, z, k, x))
  PROVE  Known(x) /\ HolonomicStep(u, v, w, z, k, x) = BuildStep(u, v, w, z, k, x)
<1> PICK den : den = w * (k - 1) + z
  OBVIOUS
<1> PICK num : num = (u * (k - 1) + v) * x
  OBVIOUS
<1>1. HolonomicStep(u, v, w, z, k, x) =
        IF x < 0 \/ den = 0 THEN -1
        ELSE IF num % den # 0 THEN -1 ELSE num \div den
  BY DEF HolonomicStep
<1>2. BuildStep(u, v, w, z, k, x) = IF den = 0 THEN 0 ELSE num \div den
  BY DEF BuildStep
<1>3. ~Known(-1)
  BY DEF Known
<1>4. ~(x < 0) /\ den # 0 /\ HolonomicStep(u, v, w, z, k, x) = num \div den
  BY <1>1, <1>3, Zenon
<1>5. Known(x)
  BY <1>4 DEF Known
<1> QED
  BY <1>2, <1>4, <1>5

IsHolonomic(f, seed, u, v, w, z, m) ==
  f = [k \in 0 .. m |-> IF k = 0 THEN seed ELSE HolonomicStep(u, v, w, z, k, f[k - 1])]
IsBuild(f, seed, u, v, w, z, m) ==
  f = [k \in 0 .. m |-> IF k = 0 THEN seed ELSE BuildStep(u, v, w, z, k, f[k - 1])]

LEMMA HolonomicExists ==
  ASSUME NEW seed \in Int, NEW u \in Nat, NEW v \in Nat, NEW w \in Nat, NEW z \in Nat,
         NEW m \in Nat
  PROVE  /\ \E f : IsHolonomic(f, seed, u, v, w, z, m)
         /\ \E f : IsBuild(f, seed, u, v, w, z, m)
<1>1. \E f : IsHolonomic(f, seed, u, v, w, z, m)
  <2> DEFINE step == [k \in 1 .. m |-> [x \in Int |-> HolonomicStep(u, v, w, z, k, x)]]
  <2>1. step \in [1 .. m -> [Int -> Int]]
    <3>1. ASSUME NEW k \in 1 .. m, NEW x \in Int PROVE HolonomicStep(u, v, w, z, k, x) \in Int
      <4>1. k \in Nat \ {0}
        OBVIOUS
      <4> QED
        BY <4>1, StepsAreInt
    <3> QED
      BY <3>1
  <2> HIDE DEF step
  <2>2. PICK f : Stepwise(f, Int, seed, m, step)
    BY <2>1, StepwiseExists
  <2>3. /\ f \in [0 .. m -> Int] /\ f[0] = seed
        /\ \A k \in 1 .. m : f[k] = step[k][f[k - 1]]
    BY <2>2 DEF Stepwise
  <2>4. ASSUME NEW k \in 1 .. m PROVE f[k] = HolonomicStep(u, v, w, z, k, f[k - 1])
    <3>1. f[k - 1] \in Int /\ f[k] = step[k][f[k - 1]]
      BY <2>3
    <3> QED
      BY <3>1 DEF step
  <2>5. f = [k \in 0 .. m |-> f[k]]
    BY <2>3
  <2>6. [k \in 0 .. m |-> f[k]] = [k \in 0 .. m |-> IF k = 0 THEN seed ELSE HolonomicStep(u, v, w, z, k, f[k - 1])]
    <3>1. \A k \in 0 .. m : k = 0 \/ k \in 1 .. m
      OBVIOUS
    <3> QED
      BY <2>3, <2>4, <3>1
  <2> QED
    BY <2>5, <2>6 DEF IsHolonomic
<1>2. \E f : IsBuild(f, seed, u, v, w, z, m)
  <2> DEFINE step == [k \in 1 .. m |-> [x \in Int |-> BuildStep(u, v, w, z, k, x)]]
  <2>1. step \in [1 .. m -> [Int -> Int]]
    <3>1. ASSUME NEW k \in 1 .. m, NEW x \in Int PROVE BuildStep(u, v, w, z, k, x) \in Int
      <4>1. k \in Nat \ {0}
        OBVIOUS
      <4> QED
        BY <4>1, StepsAreInt
    <3> QED
      BY <3>1
  <2> HIDE DEF step
  <2>2. PICK f : Stepwise(f, Int, seed, m, step)
    BY <2>1, StepwiseExists
  <2>3. /\ f \in [0 .. m -> Int] /\ f[0] = seed
        /\ \A k \in 1 .. m : f[k] = step[k][f[k - 1]]
    BY <2>2 DEF Stepwise
  <2>4. ASSUME NEW k \in 1 .. m PROVE f[k] = BuildStep(u, v, w, z, k, f[k - 1])
    <3>1. f[k - 1] \in Int /\ f[k] = step[k][f[k - 1]]
      BY <2>3
    <3> QED
      BY <3>1 DEF step
  <2>5. f = [k \in 0 .. m |-> f[k]]
    BY <2>3
  <2>6. [k \in 0 .. m |-> f[k]] = [k \in 0 .. m |-> IF k = 0 THEN seed ELSE BuildStep(u, v, w, z, k, f[k - 1])]
    <3>1. \A k \in 0 .. m : k = 0 \/ k \in 1 .. m
      OBVIOUS
    <3> QED
      BY <2>3, <2>4, <3>1
  <2> QED
    BY <2>5, <2>6 DEF IsBuild
<1> QED
  BY <1>1, <1>2

LEMMA HolonomicAgree ==
  ASSUME NEW seed, NEW u, NEW v, NEW w, NEW z, NEW m \in Nat, NEW j \in Nat, NEW f, NEW g,
         IsHolonomic(f, seed, u, v, w, z, m), IsHolonomic(g, seed, u, v, w, z, j),
         NEW top \in Nat, top <= m, top <= j
  PROVE  f[top] = g[top]
<1> DEFINE K == {k \in Nat : k <= m /\ k <= j => f[k] = g[k]}
<1>1. 0 \in K
  BY DEF IsHolonomic
<1>2. ASSUME NEW k \in Nat, k \in K PROVE k + 1 \in K
  <2> SUFFICES ASSUME k + 1 <= m, k + 1 <= j PROVE f[k + 1] = g[k + 1]
    OBVIOUS
  <2>1. f[k] = g[k]
    BY <1>2
  <2>2. k + 1 \in 0 .. m /\ k + 1 \in 0 .. j /\ k + 1 # 0 /\ (k + 1) - 1 = k
    OBVIOUS
  <2>3. /\ f[k + 1] = HolonomicStep(u, v, w, z, k + 1, f[k])
        /\ g[k + 1] = HolonomicStep(u, v, w, z, k + 1, g[k])
    BY <2>2 DEF IsHolonomic
  <2> QED
    BY <2>1, <2>3
<1>3. top \in K
  <2> HIDE DEF K
  <2> QED
    BY <1>1, <1>2, Inductive
<1> QED
  BY <1>3

\* Each value follows from the one before it.
LEMMA HolonomicNext ==
  ASSUME NEW seed \in Int, NEW u \in Nat, NEW v \in Nat, NEW w \in Nat, NEW z \in Nat,
         NEW j \in Nat, NEW m \in Nat, m = j + 1
  PROVE  /\ HolonomicValue(seed, u, v, w, z, 0) = seed
         /\ HolonomicValue(seed, u, v, w, z, m)
              = HolonomicStep(u, v, w, z, m, HolonomicValue(seed, u, v, w, z, j))
<1> DEFINE h(k) == CHOOSE f : IsHolonomic(f, seed, u, v, w, z, k)
<1>1. ASSUME NEW k \in Nat
      PROVE  IsHolonomic(h(k), seed, u, v, w, z, k) /\ HolonomicValue(seed, u, v, w, z, k) = h(k)[k]
  <2>1. \E f : IsHolonomic(f, seed, u, v, w, z, k)
    BY HolonomicExists
  <2>2. IsHolonomic(h(k), seed, u, v, w, z, k)
    BY <2>1, Zenon
  <2>3. HolonomicValue(seed, u, v, w, z, k) = h(k)[k]
    BY Zenon DEF HolonomicValue, IsHolonomic, HolonomicStep
  <2> QED
    BY <2>2, <2>3
<1> HIDE DEF h
<1>2. h(0)[0] = seed
  BY <1>1 DEF IsHolonomic
<1>3. h(m)[m] = HolonomicStep(u, v, w, z, m, h(m)[j])
  <2>1. m \in 0 .. m /\ m # 0 /\ m - 1 = j
    OBVIOUS
  <2> QED
    BY <1>1, <2>1 DEF IsHolonomic
<1>4. h(m)[j] = h(j)[j]
  <2>1. IsHolonomic(h(m), seed, u, v, w, z, m) /\ IsHolonomic(h(j), seed, u, v, w, z, j)
        /\ j <= m /\ j <= j
    BY <1>1
  <2> QED
    BY <2>1, HolonomicAgree
<1> QED
  BY <1>1, <1>2, <1>3, <1>4

LEMMA HolonomicIsInt ==
  ASSUME NEW seed \in Int, NEW u \in Nat, NEW v \in Nat, NEW w \in Nat, NEW z \in Nat,
         NEW m \in Nat
  PROVE  HolonomicValue(seed, u, v, w, z, m) \in Int
<1> DEFINE value(k) == HolonomicValue(seed, u, v, w, z, k)
           K == {k \in Nat : value(k) \in Int}
<1>1. 0 \in K
  <2>1. 0 \in Nat /\ 1 \in Nat /\ 1 = 0 + 1
    OBVIOUS
  <2>2. value(0) = seed
    BY <2>1, HolonomicNext
  <2> QED
    BY <2>2
<1>2. ASSUME NEW k \in Nat, k \in K PROVE k + 1 \in K
  <2>1. k + 1 \in Nat \ {0} /\ (k + 1) - 1 = k
    OBVIOUS
  <2> PICK x \in Int : x = value(k)
    BY <1>2
  <2> PICK j \in Nat \ {0} : j = k + 1
    BY <2>1
  <2>2. value(j) = HolonomicStep(u, v, w, z, j, x)
    BY HolonomicNext
  <2>3. HolonomicStep(u, v, w, z, j, x) \in Int
    BY StepsAreInt
  <2> QED
    BY <2>2, <2>3
<1>3. m \in K
  <2> HIDE DEF K
  <2> QED
    BY <1>1, <1>2, Inductive
<1> QED
  BY <1>3

\* The emitted table holds the value wherever there is one.
LEMMA BuildFollows ==
  ASSUME NEW seed \in Int, NEW u \in Nat, NEW v \in Nat, NEW w \in Nat, NEW z \in Nat,
         NEW m \in Nat, NEW f, IsBuild(f, seed, u, v, w, z, m),
         Known(HolonomicValue(seed, u, v, w, z, m))
  PROVE  f[m] = HolonomicValue(seed, u, v, w, z, m)
<1> DEFINE value(k) == HolonomicValue(seed, u, v, w, z, k)
           K == {k \in Nat : k <= m /\ Known(value(k)) => f[k] = value(k)}
<1>1. 0 \in K
  <2>1. value(0) = seed
    <3>1. 0 \in Nat /\ 1 \in Nat /\ 1 = 0 + 1
      OBVIOUS
    <3> QED
      BY <3>1, HolonomicNext
  <2>2. f[0] = seed
    BY DEF IsBuild
  <2> QED
    BY <2>1, <2>2
<1>2. ASSUME NEW k \in Nat, k \in K PROVE k + 1 \in K
  <2> SUFFICES ASSUME k + 1 <= m, Known(value(k + 1)) PROVE f[k + 1] = value(k + 1)
    OBVIOUS
  <2>1. k + 1 \in Nat \ {0} /\ (k + 1) - 1 = k /\ k + 1 \in 0 .. m
    OBVIOUS
  <2> PICK x \in Int : x = value(k)
    BY HolonomicIsInt
  <2> PICK j \in Nat \ {0} : j = k + 1
    BY <2>1
  <2>2. value(j) = HolonomicStep(u, v, w, z, j, x)
    BY HolonomicNext, SMTT(20)
  <2>3. Known(x) /\ HolonomicStep(u, v, w, z, j, x) = BuildStep(u, v, w, z, j, x)
    <3>1. Known(HolonomicStep(u, v, w, z, j, x))
      BY <2>2
    <3> HIDE DEF value
    <3> QED
      BY <3>1, KnownStep
  <2>4. f[k + 1] = BuildStep(u, v, w, z, j, f[k])
    BY <2>1 DEF IsBuild
  <2>5. f[k] = x
    <3> HIDE DEF value
    <3> QED
      BY <1>2, <2>3
  <2> QED
    BY <2>2, <2>3, <2>4, <2>5
<1>3. m \in K
  <2> HIDE DEF K
  <2> QED
    BY <1>1, <1>2, Inductive
<1> QED
  BY <1>3

LEMMA LeanFitFollows ==
  ASSUME NEW cand, cand.kind = "holonomic_lite", cand.seed \in Int,
         cand.u \in Nat, cand.v \in Nat, cand.w \in Nat, cand.z \in Nat,
         NEW m \in Nat, Known(HolonomicValue(cand.seed, cand.u, cand.v, cand.w, cand.z, m))
  PROVE  LeanFit(cand, m) = HolonomicValue(cand.seed, cand.u, cand.v, cand.w, cand.z, m)
<1> PICK seed \in Int, u \in Nat, v \in Nat, w \in Nat, z \in Nat :
      seed = cand.seed /\ u = cand.u /\ v = cand.v /\ w = cand.w /\ z = cand.z
  OBVIOUS
<1> DEFINE f == CHOOSE g : IsBuild(g, seed, u, v, w, z, m)
<1>1. IsBuild(f, seed, u, v, w, z, m)
  <2>1. \E g : IsBuild(g, seed, u, v, w, z, m)
    BY HolonomicExists
  <2> QED
    BY <2>1, Zenon
<1>2. LeanFit(cand, m) = f[m]
  <2> DEFINE g == CHOOSE e : IsBuild(e, cand.seed, cand.u, cand.v, cand.w, cand.z, m)
             shifted == VPow(cand.params[1], m + cand.params[2]) + cand.params[3]
             other == StructuralValue(cand, m)
  <2>1. LeanFit(cand, m) = CASE cand.kind = "holonomic_lite" -> g[m]
                             [] cand.kind = "valuation_shift" -> shifted
                             [] OTHER -> other
    BY Zenon DEF LeanFit, IsBuild, BuildStep
  <2>2. g = f
    OBVIOUS
  <2> HIDE DEF f, g, shifted, other
  <2> QED
    BY <2>1, <2>2
<1> HIDE DEF f
<1>3. f[m] = HolonomicValue(seed, u, v, w, z, m)
  <2>1. Known(HolonomicValue(seed, u, v, w, z, m))
    OBVIOUS
  <2>2. seed \in Int /\ u \in Nat /\ v \in Nat /\ w \in Nat /\ z \in Nat
    OBVIOUS
  <2> QED
    BY ONLY <1>1, <2>1, <2>2, m \in Nat, BuildFollows
<1> QED
  BY <1>2, <1>3

OnLine(p, s) == s[1] \in Int /\ p[1] * s[1] + p[2] = s[2]

LEMMA NoZeroDivisor ==
  ASSUME NEW d \in Int, NEW e \in Int, d * e = 0, e # 0
  PROVE  d = 0
OBVIOUS

\* Two points determine a line.
LEMMA TwoPoints ==
  ASSUME NEW p \in Int \X Int, NEW q \in Int \X Int, NEW r, NEW s,
         OnLine(p, r), OnLine(q, r), OnLine(p, s), OnLine(q, s), r[1] # s[1]
  PROVE  p = q
<1> PICK u \in Int, v \in Int : p = <<u, v>>
  OBVIOUS
<1> PICK x \in Int, y \in Int : q = <<x, y>>
  OBVIOUS
<1> PICK a \in Int, f \in Int : a = r[1] /\ f = s[1]
  BY DEF OnLine
<1>1. a # f /\ u * a + v = x * a + y /\ u * f + v = x * f + y
  BY DEF OnLine
<1> PICK d \in Int : d = u - x
  OBVIOUS
<1> PICK e \in Int : e = a - f
  OBVIOUS
<1>2. d * a = u * a - x * a /\ d * f = u * f - x * f
  OBVIOUS
<1>3. d * a = d * f
  <2>1. u * a \in Int /\ x * a \in Int /\ u * f \in Int /\ x * f \in Int
    OBVIOUS
  <2> QED
    BY <1>1, <1>2, <2>1
<1>4. d * e = d * a - d * f
  OBVIOUS
<1>5. d * e = 0
  BY <1>3, <1>4
<1>6. d = 0
  <2>1. e # 0
    BY <1>1
  <2> QED
    BY <1>5, <2>1, NoZeroDivisor
<1>7. u = x
  BY <1>6
<1>8. v = y
  <2>1. u * a \in Int
    OBVIOUS
  <2> QED
    BY <1>1, <1>7, <2>1
<1> QED
  BY <1>7, <1>8

Trained(t)     == SubSeq(t, 1, Len(t) - Clamp(HoldoutTerms, 0, Len(t) - 3))
TrainLength(t) == Len(t) - Clamp(HoldoutTerms, 0, Len(t) - 3)

LEMMA TrainedFacts ==
  ASSUME NEW t \in Seq(Int), Len(t) >= 8
  PROVE  /\ TrainLength(t) \in 3 .. Len(t)
         /\ Trained(t) \in Seq(Int) /\ Len(Trained(t)) = TrainLength(t)
         /\ \A k \in 1 .. TrainLength(t) : Trained(t)[k] = t[k]
<1> PICK len \in Nat : len = Len(t)
  OBVIOUS
<1>1. HoldoutTerms \in Int /\ 0 \in Int /\ len - 3 \in Int
  BY DiscoveryAssumption
<1> PICK held \in Int : held = Clamp(HoldoutTerms, 0, len - 3)
  BY <1>1, ClampIs
<1>2. held \in 0 .. len - 3
  <2>1. held = LET y == IF HoldoutTerms < 0 THEN 0 ELSE HoldoutTerms
               IN  IF y < len - 3 THEN y ELSE len - 3
    BY <1>1, ClampIs
  <2> QED
    BY <1>1, <2>1
<1> PICK top \in 3 .. len : top = len - held
  BY <1>2
<1>3. TrainLength(t) = top /\ Trained(t) = SubSeq(t, 1, top)
  BY DEF TrainLength, Trained
<1>4. top \in 0 .. Len(t)
  OBVIOUS
<1>5. /\ SubSeq(t, 1, top) \in Seq(Int) /\ Len(SubSeq(t, 1, top)) = top
      /\ \A k \in 1 .. top : SubSeq(t, 1, top)[k] = t[k]
  BY <1>4, SubSeqFacts
<1> QED
  BY <1>3, <1>5

Good(t) ==
  {q \in Coefficients :
     /\ q.w + q.z > 0
     /\ Sampled(Trained(t), q.w, q.z)
     /\ Samples(Trained(t), q.w, q.z) # {}
     /\ LinearFits(Samples(Trained(t), q.w, q.z), q.u, q.v)
     /\ \A k \in DOMAIN Trained(t) :
          HolonomicValue(t[1], q.u, q.v, q.w, q.z, k - 1) = Trained(t)[k]}

LEMMA CoefficientsAre ==
  ASSUME NEW q \in Coefficients
  PROVE  /\ q.u \in Nat /\ q.v \in Nat /\ q.w \in Nat /\ q.z \in Nat
         /\ q.u \in 0 .. ParameterBound /\ q.v \in 0 .. ParameterBound
         /\ q.w \in 0 .. ParameterBound /\ q.z \in 0 .. ParameterBound
         /\ q = [u |-> q.u, v |-> q.v, w |-> q.w, z |-> q.z]
<1>1. ParameterBound \in Nat
  BY DiscoveryAssumption
<1> QED
  BY <1>1 DEF Coefficients

\* The samples of a pair leave no choice of the other two coefficients.
LEMMA GoodIsUnique ==
  ASSUME NEW t \in Seq(Int), Len(t) >= 8, NEW g \in Good(t), NEW h \in Good(t), g.w = h.w, g.z = h.z
  PROVE  g = h
<1>0. g \in Coefficients /\ h \in Coefficients
  BY DEF Good
<1> PICK w \in Nat, z \in Nat, u \in Nat, v \in Nat, x \in Nat, y \in Nat :
      w = g.w /\ z = g.z /\ u = g.u /\ v = g.v /\ x = h.u /\ y = h.v
  BY <1>0, CoefficientsAre
<1> PICK T : T = Samples(Trained(t), w, z)
  OBVIOUS
<1>a. T # {} /\ LinearFits(T, u, v) /\ LinearFits(T, x, y)
  BY DEF Good
<1> PICK train : train = Trained(t)
  OBVIOUS
<1> DEFINE ratio(j) == (train[j + 1] * (w * (j - 1) + z)) \div train[j]
           I == {j \in 1 .. Len(train) - 1 : train[j] # 0}
<1>1. T = {<<k - 1, ratio(k)>> : k \in I}
  BY DEF Samples
<1>2. I \subseteq Nat
  BY TrainedFacts
<1>3. PICK s \in T : TRUE
  BY <1>a
<1> HIDE DEF ratio, I
<1>4. ASSUME NEW r \in T PROVE /\ r[1] \in Int /\ u * r[1] + v = r[2] /\ x * r[1] + y = r[2]
                               /\ r[1] = s[1] => r = s
  <2>1. PICK j \in I : s = <<j - 1, ratio(j)>>
    BY <1>1, <1>3
  <2>2. PICK k \in I : r = <<k - 1, ratio(k)>>
    BY <1>1
  <2>3. j \in Nat /\ k \in Nat
    BY <1>2
  <2>4. u * r[1] + v = r[2] /\ x * r[1] + y = r[2]
    BY <1>a DEF LinearFits
  <2>5. r[1] = k - 1 /\ s[1] = j - 1
    BY <2>1, <2>2
  <2>6. r[1] = s[1] => k = j
    BY <2>3, <2>5
  <2>7. r[1] \in Int
    BY <2>3, <2>5
  <2> QED
    BY <2>1, <2>2, <2>4, <2>6, <2>7
<1>5. ASSUME \A r \in T : r = s PROVE u = x /\ v = y
  <2>1. T = {s}
    BY <1>3, <1>5
  <2>2. Cardinality(T) = 1
    BY <2>1, FS_Singleton
  <2>3. u = 0 /\ x = 0
    BY <1>a, <2>2 DEF LinearFits
  <2> PICK a \in Int : a = s[1]
    BY <1>3, <1>4
  <2>4. u * a + v = x * a + y
    BY <1>3, <1>4
  <2>5. 0 * a = 0
    OBVIOUS
  <2> QED
    BY <2>3, <2>4, <2>5
<1>6. ASSUME \E r \in T : r # s PROVE u = x /\ v = y
  <2> PICK r \in T : r # s
    BY <1>6
  <2> PICK p : p = <<u, v>>
    OBVIOUS
  <2> PICK q : q = <<x, y>>
    OBVIOUS
  <2>0. p \in Int \X Int /\ q \in Int \X Int
    OBVIOUS
  <2>1. r[1] # s[1] /\ OnLine(p, r) /\ OnLine(q, r) /\ OnLine(p, s) /\ OnLine(q, s)
    BY <1>3, <1>4 DEF OnLine
  <2>2. p = q
    BY <2>0, <2>1, TwoPoints
  <2> QED
    BY <2>2
<1>7. u = x /\ v = y
  BY <1>5, <1>6
<1> QED
  BY <1>0, <1>7, CoefficientsAre

\* Of the good coefficients the first pair's are taken.
LEMMA TakenIsGood ==
  ASSUME NEW t \in Seq(Int), Len(t) >= 8, Good(t) # {}
  PROVE  (CHOOSE x \in Good(t) : \A y \in Good(t) : Lexicographic(<<x.w, x.z>>, <<y.w, y.z>>) \/ x = y)
           \in Good(t)
<1> DEFINE pair(x) == <<x.w, x.z>>
           S == {pair(x) : x \in Good(t)}
           Leads(x) == \A y \in Good(t) : Lexicographic(<<x.w, x.z>>, <<y.w, y.z>>) \/ x = y
<1>1. S # {} /\ S \subseteq [1 .. 2 -> Nat] /\ 2 \in Nat
  <2>1. ASSUME NEW x \in Good(t) PROVE pair(x) \in [1 .. 2 -> Nat]
    <3>1. x.w \in Nat /\ x.z \in Nat
      BY CoefficientsAre DEF Good
    <3> QED
      BY <3>1
  <2> QED
    BY <2>1
<1> PICK p : p = First(S)
  OBVIOUS
<1>2. p \in S /\ \A q \in S \ {p} : Lexicographic(p, q)
  <2> HIDE DEF S
  <2> QED
    BY <1>1, FirstExists
<1>3. PICK x \in Good(t) : p = pair(x)
  BY <1>2
<1>4. Leads(x)
  <2> SUFFICES ASSUME NEW y \in Good(t), ~Lexicographic(pair(x), pair(y)) PROVE x = y
    OBVIOUS
  <2>1. pair(y) = pair(x)
    BY <1>2, <1>3
  <2>2. x.w = y.w /\ x.z = y.z
    BY <2>1
  <2> QED
    BY <2>2, GoodIsUnique
<1> HIDE DEF Leads
<1>5. (CHOOSE r \in Good(t) : Leads(r)) \in Good(t)
  BY <1>4, Zenon
<1> QED
  BY <1>5, Zenon DEF Leads

\* What is found reproduces its training terms; the rest is compared.
LEMMA HolonomicCandidateIs ==
  ASSUME NEW t \in Seq(Int)
  PROVE  \/ /\ HolonomicCandidate(t) = NoCandidate
            /\ Len(t) < 8 \/ ~Natural(t) \/ TrainLength(t) < 4 \/ Good(t) = {}
         \/ /\ Len(t) >= 8 /\ Natural(t)
            /\ \E q \in Good(t) : HolonomicCandidate(t) =
                 [kind |-> "holonomic_lite", seed |-> t[1], u |-> q.u, v |-> q.v, w |-> q.w, z |-> q.z,
                  holdoutPassed |-> \A k \in TrainLength(t) + 1 .. Len(t) :
                    HolonomicValue(t[1], q.u, q.v, q.w, q.z, k - 1) = t[k]]
<1> DEFINE p == CHOOSE x \in Good(t) : \A y \in Good(t) : Lexicographic(<<x.w, x.z>>, <<y.w, y.z>>) \/ x = y
           cand(q, size) ==
             [kind |-> "holonomic_lite", seed |-> t[1], u |-> q.u, v |-> q.v, w |-> q.w, z |-> q.z,
              holdoutPassed |-> \A k \in size + 1 .. Len(t) :
                HolonomicValue(t[1], q.u, q.v, q.w, q.z, k - 1) = t[k]]
<1>1. HolonomicCandidate(t) =
        IF Len(t) < 8 \/ ~Natural(t) \/ Len(Trained(t)) < 4 \/ Good(t) = {} THEN NoCandidate
        ELSE cand(p, Len(Trained(t)))
  BY Zenon DEF HolonomicCandidate, Good, Trained
<1>2. CASE Len(t) < 8
  BY <1>1, <1>2, Zenon
<1>3. CASE ~(Len(t) < 8)
  <2>1. Len(t) >= 8
    BY <1>3
  <2>2. Len(Trained(t)) = TrainLength(t)
    BY <2>1, TrainedFacts
  <2>3. CASE ~Natural(t) \/ TrainLength(t) < 4 \/ Good(t) = {}
    BY <1>1, <2>2, <2>3, Zenon
  <2>4. CASE ~(~Natural(t) \/ TrainLength(t) < 4 \/ Good(t) = {})
    <3>1. p \in Good(t)
      BY <2>1, <2>4, TakenIsGood
    <3> HIDE DEF p, cand
    <3>2. HolonomicCandidate(t) = cand(p, TrainLength(t))
      BY <1>1, <1>3, <2>2, <2>4, Zenon
    <3> QED
      BY <2>1, <2>4, <3>1, <3>2, Zenon DEF cand
  <2> QED
    BY <2>3, <2>4
<1> QED
  BY <1>2, <1>3

LEMMA HolonomicReproduces ==
  ASSUME NEW t \in Seq(Int), Found(HolonomicCandidate(t))
  PROVE  LET cand == HolonomicCandidate(t)
         IN  /\ \A m \in Nat :
                  LET x == HolonomicValue(cand.seed, cand.u, cand.v, cand.w, cand.z, m)
                  IN  x >= 0 => LeanFit(cand, m) = x
             /\ \A k \in 1 .. TrainLength(t) : LeanFit(cand, k - 1) = t[k]
             /\ cand.holdoutPassed => \A k \in DOMAIN t : LeanFit(cand, k - 1) = t[k]
<1>1. ~Found(NoCandidate)
  BY DEF Found, NoCandidate
<1>2. Len(t) >= 8 /\ Natural(t)
  BY <1>1, HolonomicCandidateIs
<1> DEFINE value(q, k) == HolonomicValue(t[1], q.u, q.v, q.w, q.z, k)
           record(q) == [kind |-> "holonomic_lite", seed |-> t[1], u |-> q.u, v |-> q.v, w |-> q.w, z |-> q.z,
                         holdoutPassed |-> \A k \in TrainLength(t) + 1 .. Len(t) : value(q, k - 1) = t[k]]
<1>3. PICK q \in Good(t) : HolonomicCandidate(t) = record(q)
  BY <1>1, HolonomicCandidateIs
<1> PICK cand : cand = HolonomicCandidate(t)
  OBVIOUS
<1> PICK seed \in Int : seed = t[1]
  BY <1>2
<1>4. /\ cand.kind = "holonomic_lite" /\ cand.seed = seed
      /\ cand.u = q.u /\ cand.v = q.v /\ cand.w = q.w /\ cand.z = q.z
  BY <1>3
<1>a. cand.holdoutPassed <=> \A k \in TrainLength(t) + 1 .. Len(t) : value(q, k - 1) = t[k]
  BY <1>3
<1>5. q.u \in Nat /\ q.v \in Nat /\ q.w \in Nat /\ q.z \in Nat
  BY CoefficientsAre DEF Good
<1> PICK u \in Nat, v \in Nat, w \in Nat, z \in Nat : u = q.u /\ v = q.v /\ w = q.w /\ z = q.z
  BY <1>5
<1>6. ASSUME NEW m \in Nat, Known(HolonomicValue(seed, u, v, w, z, m))
      PROVE  LeanFit(cand, m) = HolonomicValue(seed, u, v, w, z, m)
  <2>1. /\ cand.kind = "holonomic_lite" /\ cand.seed = seed
        /\ cand.u = u /\ cand.v = v /\ cand.w = w /\ cand.z = z
    BY <1>4
  <2>2. cand.seed \in Int /\ cand.u \in Nat /\ cand.v \in Nat /\ cand.w \in Nat /\ cand.z \in Nat
    BY <2>1
  <2>3. Known(HolonomicValue(cand.seed, cand.u, cand.v, cand.w, cand.z, m))
    BY <1>6, <2>1
  <2>4. LeanFit(cand, m) = HolonomicValue(cand.seed, cand.u, cand.v, cand.w, cand.z, m)
    BY <2>1, <2>2, <2>3, LeanFitFollows
  <2> QED
    BY <2>1, <2>4
<1>7. ASSUME NEW k \in DOMAIN t, value(q, k - 1) = t[k] PROVE LeanFit(cand, k - 1) = t[k]
  <2>1. k - 1 \in Nat /\ t[k] >= 0
    BY <1>2 DEF Natural
  <2>2. HolonomicValue(seed, u, v, w, z, k - 1) = t[k]
    BY <1>7
  <2> QED
    BY <1>6, <2>1, <2>2 DEF Known
<1>8. /\ TrainLength(t) \in 3 .. Len(t) /\ Len(Trained(t)) = TrainLength(t) /\ Trained(t) \in Seq(Int)
      /\ \A k \in 1 .. TrainLength(t) : Trained(t)[k] = t[k]
  BY <1>2, TrainedFacts
<1>9. ASSUME NEW k \in 1 .. TrainLength(t) PROVE k \in DOMAIN t /\ value(q, k - 1) = t[k]
  <2>1. k \in DOMAIN t /\ k \in DOMAIN Trained(t)
    BY <1>8
  <2>2. value(q, k - 1) = Trained(t)[k]
    BY <2>1 DEF Good
  <2> QED
    BY <1>8, <2>1, <2>2
<1> HIDE DEF value
<1>10. \A k \in 1 .. TrainLength(t) : LeanFit(cand, k - 1) = t[k]
  BY <1>7, <1>9
<1>11. ASSUME cand.holdoutPassed, NEW k \in DOMAIN t PROVE LeanFit(cand, k - 1) = t[k]
  <2> PICK len \in Nat : len = Len(t)
    OBVIOUS
  <2> PICK top \in 3 .. len : top = TrainLength(t)
    BY <1>8
  <2>1. k \in 1 .. TrainLength(t) \/ k \in TrainLength(t) + 1 .. Len(t)
    OBVIOUS
  <2> QED
    BY <1>7, <1>10, <1>11, <1>a, <2>1
<1>12. ASSUME NEW m \in Nat, HolonomicValue(cand.seed, cand.u, cand.v, cand.w, cand.z, m) >= 0
       PROVE  LeanFit(cand, m) = HolonomicValue(cand.seed, cand.u, cand.v, cand.w, cand.z, m)
  BY <1>4, <1>6, <1>12 DEF Known
<1> QED
  BY <1>10, <1>11, <1>12

-----------------------------------------------------------------------------
(* No recurrence is lost. *)
LEMMA ProductGrows ==
  ASSUME NEW a \in Int, NEW h \in Int, NEW x \in Nat, a < h
  PROVE  a * x + x <= h * x
<1> PICK d \in Nat : d = h - a - 1
  OBVIOUS
<1>1. h = a + 1 + d
  OBVIOUS
<1>2. h * x = a * x + x + d * x
  BY <1>1
<1>3. d * x \in Nat /\ a * x \in Int
  OBVIOUS
<1> QED
  BY <1>2, <1>3

LEMMA QuotientIs ==
  ASSUME NEW e \in Int, NEW x \in Nat, NEW q \in Int, NEW r \in Nat, e * x = r + q * x, r < x
  PROVE  r = 0 /\ q = e
<1>1. e * x \in Int /\ q * x \in Int
  OBVIOUS
<1>2. ~(q < e)
  <2> SUFFICES ASSUME q < e PROVE FALSE
    OBVIOUS
  <2>1. q * x + x <= e * x
    BY ProductGrows
  <2> QED
    BY <1>1, <2>1
<1>3. ~(e < q)
  <2> SUFFICES ASSUME e < q PROVE FALSE
    OBVIOUS
  <2>1. e * x + x <= q * x
    BY ProductGrows
  <2> QED
    BY <1>1, <2>1
<1>4. q = e
  BY <1>2, <1>3
<1> QED
  BY <1>1, <1>4

LEMMA ExactQuotient ==
  ASSUME NEW e \in Nat, NEW x \in Nat \ {0}
  PROVE  (e * x) % x = 0 /\ (e * x) \div x = e
<1> PICK g \in Nat : g = e * x
  OBVIOUS
<1>1. x \in Positive /\ g \in Int
  BY DEF Positive
<1> PICK q \in Int, r \in Nat : q = g \div x /\ r = g % x /\ g = r + q * x /\ r < x
  BY <1>1, DivisionLemma
<1>2. r = 0 /\ q = e
  <2>1. e * x = r + q * x
    OBVIOUS
  <2> QED
    BY <2>1, QuotientIs
<1> QED
  BY <1>2

\* What a known next value says of the ratio.
LEMMA StepRatio ==
  ASSUME NEW u \in Nat, NEW v \in Nat, NEW w \in Nat, NEW z \in Nat,
         NEW k \in Nat \ {0}, NEW x \in Nat, Known(HolonomicStep(u, v, w, z, k, x))
  PROVE  /\ w * (k - 1) + z # 0
         /\ HolonomicStep(u, v, w, z, k, x) * (w * (k - 1) + z) = (u * (k - 1) + v) * x
<1>1. k - 1 \in Nat
  OBVIOUS
<1> PICK den \in Nat : den = w * (k - 1) + z
  BY <1>1, Linear
<1> PICK e \in Nat : e = u * (k - 1) + v
  BY <1>1, Linear
<1> PICK num \in Nat : num = e * x
  OBVIOUS
<1>2. HolonomicStep(u, v, w, z, k, x) =
        IF x < 0 \/ den = 0 THEN -1
        ELSE IF num % den # 0 THEN -1 ELSE num \div den
  BY DEF HolonomicStep
<1>3. ~Known(-1)
  BY DEF Known
<1>4. den # 0 /\ num % den = 0 /\ HolonomicStep(u, v, w, z, k, x) = num \div den
  BY <1>2, <1>3, Zenon
<1>5. (num \div den) * den = num
  <2>1. den \in Positive /\ num \in Int
    BY <1>4 DEF Positive
  <2> PICK q \in Int, r \in Nat : q = num \div den /\ r = num % den /\ num = r + q * den
    BY <2>1, DivisionLemma, ZenonT(40)
  <2> QED
    BY <1>4
<1> QED
  BY <1>4, <1>5

\* From zero the coefficients of the numerator say nothing.
LEMMA StepFromZero ==
  ASSUME NEW u \in Nat, NEW v \in Nat, NEW w, NEW z, NEW k \in Nat \ {0}, NEW x \in Int, x = 0 \/ k = 1
  PROVE  HolonomicStep(u, v, w, z, k, x) = HolonomicStep(0, v, w, z, k, x)
<1>1. (u * (k - 1) + v) * x = (0 * (k - 1) + v) * x
  <2>1. CASE x = 0
    <3>1. k - 1 \in Nat
      OBVIOUS
    <3> PICK a \in Nat, h \in Nat : a = u * (k - 1) + v /\ h = 0 * (k - 1) + v
      BY <3>1, Linear
    <3> QED
      BY <2>1
  <2>2. CASE k = 1
    <3>1. u * (k - 1) + v = v /\ 0 * (k - 1) + v = v
      BY <2>2
    <3> QED
      BY <3>1
  <2> QED
    BY <2>1, <2>2
<1> QED
  BY <1>1, Zenon DEF HolonomicStep

\* The coefficients give the terms of the trace.
Gives(q, t) ==
  \A k \in DOMAIN t : HolonomicValue(t[1], q.u, q.v, q.w, q.z, k - 1) = t[k]

Ratio(q, k) == q.u * (k - 1) + q.v
Denominator(q, k) == q.w * (k - 1) + q.z

\* Each term asks for the ratio that the coefficients have there.
LEMMA TermAsks ==
  ASSUME NEW t \in Seq(Int), Natural(t), NEW q \in Coefficients, Gives(q, t),
         NEW k \in Nat \ {0}, NEW h \in Nat, h = k + 1, h <= Len(t)
  PROVE  /\ t[k] \in Nat /\ t[h] \in Nat
         /\ t[h] = HolonomicStep(q.u, q.v, q.w, q.z, k, t[k])
         /\ Denominator(q, k) \in Nat \ {0} /\ Ratio(q, k) \in Nat
         /\ t[h] * Denominator(q, k) = Ratio(q, k) * t[k]
<1> PICK u \in Nat, v \in Nat, w \in Nat, z \in Nat : u = q.u /\ v = q.v /\ w = q.w /\ z = q.z
  BY CoefficientsAre
<1> PICK len \in Nat : len = Len(t)
  OBVIOUS
<1>1. k \in DOMAIN t /\ h \in DOMAIN t /\ 1 \in DOMAIN t
  OBVIOUS
<1>a. t[1] \in Int /\ t[k] \in Int /\ t[h] \in Int
  BY <1>1
<1>b. t[k] >= 0 /\ t[h] >= 0
  BY <1>1 DEF Natural
<1> PICK seed \in Int, x \in Nat, y \in Nat : seed = t[1] /\ x = t[k] /\ y = t[h]
  BY <1>a, <1>b
<1>2. k - 1 \in Nat /\ h - 1 = k /\ (k - 1) + 1 = k
  OBVIOUS
<1> PICK j \in Nat : j = k - 1
  BY <1>2
<1>3. HolonomicValue(seed, u, v, w, z, j) = x /\ HolonomicValue(seed, u, v, w, z, k) = y
  BY <1>1, <1>2 DEF Gives
<1>4. y = HolonomicStep(u, v, w, z, k, x)
  <2>1. HolonomicValue(seed, u, v, w, z, k)
          = HolonomicStep(u, v, w, z, k, HolonomicValue(seed, u, v, w, z, j))
    <3>1. k = j + 1 /\ k \in Nat
      BY <1>2
    <3>2. seed \in Int /\ u \in Nat /\ v \in Nat /\ w \in Nat /\ z \in Nat /\ j \in Nat
      OBVIOUS
    <3> QED
      BY ONLY <3>1, <3>2, HolonomicNext, SMTT(20)
  <2> QED
    BY <1>3, <2>1
<1>5. Known(HolonomicStep(u, v, w, z, k, x))
  BY <1>4 DEF Known
<1>6. w * (k - 1) + z # 0 /\ HolonomicStep(u, v, w, z, k, x) * (w * (k - 1) + z) = (u * (k - 1) + v) * x
  <2>1. u \in Nat /\ v \in Nat /\ w \in Nat /\ z \in Nat /\ k \in Nat \ {0} /\ x \in Nat
    OBVIOUS
  <2> QED
    BY ONLY <1>5, <2>1, StepRatio
<1>7. w * (k - 1) + z \in Nat /\ u * (k - 1) + v \in Nat
  BY <1>2, Linear
<1> QED
  BY <1>4, <1>6, <1>7 DEF Ratio, Denominator

Asking(train) == {j \in 1 .. Len(train) - 1 : train[j] # 0}
Asked(q, train) == {<<k - 1, Ratio(q, k)>> : k \in Asking(train)}

LEMMA SamplesAre ==
  ASSUME NEW t \in Seq(Int), Len(t) >= 8, Natural(t), NEW q \in Coefficients, Gives(q, t)
  PROVE  /\ Sampled(Trained(t), q.w, q.z)
         /\ Samples(Trained(t), q.w, q.z) = Asked(q, Trained(t))
<1> PICK train \in Seq(Int) : train = Trained(t)
  BY TrainedFacts
<1> PICK size \in Nat : size = Len(train)
  OBVIOUS
<1>1. size \in 3 .. Len(t) /\ \A k \in 1 .. size : train[k] = t[k]
  BY TrainedFacts
<1>2. ASSUME NEW k \in 1 .. Len(train) - 1
      PROVE  /\ train[k] \in Nat
             /\ Denominator(q, k) # 0 /\ Ratio(q, k) \in Nat
             /\ train[k + 1] * Denominator(q, k) = Ratio(q, k) * train[k]
  <2> PICK h \in Nat : h = k + 1
    OBVIOUS
  <2>1. k \in Nat \ {0} /\ h <= Len(t) /\ k \in 1 .. size /\ h \in 1 .. size
    BY <1>1
  <2>2. train[k] = t[k] /\ train[h] = t[h]
    BY <1>1, <2>1
  <2> QED
    BY <2>1, <2>2, TermAsks
<1>3. ASSUME NEW k \in 1 .. Len(train) - 1, train[k] # 0
      PROVE  /\ (train[k + 1] * Denominator(q, k)) % train[k] = 0
             /\ (train[k + 1] * Denominator(q, k)) \div train[k] = Ratio(q, k)
  <2> PICK e \in Nat, x \in Nat \ {0} : e = Ratio(q, k) /\ x = train[k]
    BY <1>2, <1>3
  <2>1. (e * x) % x = 0 /\ (e * x) \div x = e
    BY ExactQuotient
  <2>2. train[k + 1] * Denominator(q, k) = e * x
    BY <1>2
  <2> QED
    BY <2>1, <2>2
<1>4. ASSUME NEW k \in 1 .. Len(train) - 1, train[k] = 0
      PROVE  train[k + 1] * Denominator(q, k) = 0
  <2> PICK e \in Nat : e = Ratio(q, k)
    BY <1>2
  <2>1. e * 0 = 0
    OBVIOUS
  <2> QED
    BY <1>2, <1>4, <2>1
<1>5. Sampled(train, q.w, q.z)
  BY <1>2, <1>3, <1>4, Zenon DEF Sampled, Denominator
<1>6. Samples(train, q.w, q.z) = {<<k - 1, Ratio(q, k)>> : k \in Asking(train)}
  <2>1. Samples(train, q.w, q.z) =
          {<<k - 1, (train[k + 1] * Denominator(q, k)) \div train[k]>> : k \in Asking(train)}
    BY Zenon DEF Samples, Asking, Denominator
  <2>2. \A k \in Asking(train) : (train[k + 1] * Denominator(q, k)) \div train[k] = Ratio(q, k)
    BY <1>3 DEF Asking
  <2> QED
    BY <2>1, <2>2
<1> QED
  BY <1>5, <1>6 DEF Asked

\* When a single term asks, it is the first and all that follow are zero.
LEMMA SingleSample ==
  ASSUME NEW t \in Seq(Int), Len(t) >= 8, t[1] # 0, NEW q,
         Cardinality(Asked(q, Trained(t))) = 1
  PROVE  \A k \in 2 .. TrainLength(t) - 1 : t[k] = 0
<1> PICK size \in 3 .. Len(t) : size = TrainLength(t)
  BY TrainedFacts
<1> PICK train : train = Trained(t)
  OBVIOUS
<1>1. Len(train) = size /\ \A k \in 1 .. size : train[k] = t[k]
  BY TrainedFacts
<1> DEFINE I == Asking(train)
           pair(k) == <<k - 1, Ratio(q, k)>>
           T == {pair(k) : k \in I}
           f == [k \in I |-> pair(k)]
<1>2. I \subseteq 1 .. size - 1 /\ 1 \in I
  <2>1. 1 \in 1 .. size /\ 1 \in 1 .. Len(train) - 1
    BY <1>1
  <2> QED
    BY <1>1, <2>1 DEF Asking
<1>3. IsFiniteSet(I)
  <2>1. IsFiniteSet(1 .. size - 1)
    BY FS_Interval
  <2> QED
    BY <1>2, <2>1, FS_Subset
<1>4. f \in Surjection(I, T)
  BY DEF Surjection
<1>5. IsFiniteSet(T)
  <2> HIDE DEF f, T, I
  <2> QED
    BY <1>3, <1>4, FS_Surjection
<1>6. Cardinality(T) = 1
  BY DEF Asked
<1>7. PICK x : T = {x}
  <2> HIDE DEF T
  <2> QED
    BY <1>5, <1>6, FS_Singleton
<1>8. ASSUME NEW k \in I PROVE k = 1
  <2>1. pair(k) = x /\ pair(1) = x
    BY <1>2, <1>7
  <2>2. k - 1 = 1 - 1
    <3>1. pair(k)[1] = k - 1 /\ pair(1)[1] = 1 - 1
      OBVIOUS
    <3> HIDE DEF pair
    <3> QED
      BY <2>1, <3>1
  <2>3. k \in Int
    BY <1>2
  <2> QED
    BY <2>2, <2>3
<1>9. ASSUME NEW k \in 2 .. size - 1 PROVE t[k] = 0
  <2>1. k \in 1 .. Len(train) - 1 /\ k \in 1 .. size /\ k # 1
    BY <1>1
  <2>2. train[k] = 0
    BY <1>8, <2>1 DEF Asking
  <2> QED
    BY <1>1, <2>1, <2>2
<1> QED
  BY <1>9

WithoutSlope(q) == [u |-> 0, v |-> q.v, w |-> q.w, z |-> q.z]

LEMMA FlatFirst ==
  ASSUME NEW seed \in Int, NEW v \in Nat, NEW w \in Nat, NEW z \in Nat
  PROVE  HolonomicValue(seed, 0, v, w, z, 0) = seed
<1> PICK nil \in Nat : nil = 0
  OBVIOUS
<1>1. 0 \in Nat /\ 1 \in Nat /\ 1 = 0 + 1
  OBVIOUS
<1>2. HolonomicValue(seed, nil, v, w, z, 0) = seed
  BY <1>1, HolonomicNext
<1> QED
  BY <1>2

LEMMA FlatNext ==
  ASSUME NEW seed \in Int, NEW v \in Nat, NEW w \in Nat, NEW z \in Nat,
         NEW j \in Nat, NEW m \in Nat, m = j + 1
  PROVE  HolonomicValue(seed, 0, v, w, z, m)
           = HolonomicStep(0, v, w, z, m, HolonomicValue(seed, 0, v, w, z, j))
<1> PICK nil \in Nat : nil = 0
  OBVIOUS
<1>1. HolonomicValue(seed, nil, v, w, z, m)
        = HolonomicStep(nil, v, w, z, m, HolonomicValue(seed, nil, v, w, z, j))
  BY HolonomicNext
<1> QED
  BY <1>1

\* When only the first term asks, the slope of the numerator says nothing.
LEMMA SlopeIsFree ==
  ASSUME NEW t \in Seq(Int), Natural(t), NEW q \in Coefficients, Gives(q, t),
         NEW top \in 1 .. Len(t), \A k \in 2 .. top - 1 : t[k] = 0
  PROVE  \A k \in 1 .. top : HolonomicValue(t[1], 0, q.v, q.w, q.z, k - 1) = t[k]
<1> PICK u \in Nat, v \in Nat, w \in Nat, z \in Nat : u = q.u /\ v = q.v /\ w = q.w /\ z = q.z
  BY CoefficientsAre
<1> PICK len \in Nat : len = Len(t)
  OBVIOUS
<1> PICK seed \in Int : seed = t[1]
  <2>1. 1 \in DOMAIN t
    OBVIOUS
  <2> QED
    BY <2>1
<1> DEFINE flat(k) == HolonomicValue(seed, 0, v, w, z, k)
           K == {k \in Nat : k + 1 <= top => flat(k) = t[k + 1]}
<1>a. seed \in Int /\ v \in Nat /\ w \in Nat /\ z \in Nat
  OBVIOUS
<1>1. 0 \in K
  <2>2. flat(0) = seed
    BY FlatFirst
  <2> QED
    BY <2>2
<1>2. ASSUME NEW k \in Nat, k \in K PROVE k + 1 \in K
  <2> PICK j \in Nat \ {0} : j = k + 1
    OBVIOUS
  <2> PICK m \in Nat : m = j + 1
    OBVIOUS
  <2> SUFFICES ASSUME m <= top PROVE flat(j) = t[m]
    OBVIOUS
  <2>1. j <= Len(t) /\ m <= Len(t) /\ j <= top
    OBVIOUS
  <2>2. t[j] \in Nat /\ t[m] = HolonomicStep(u, v, w, z, j, t[j])
    BY <2>1, TermAsks
  <2>3. flat(j) = HolonomicStep(0, v, w, z, j, flat(k))
    <3>1. j = k + 1 /\ k \in Nat /\ j \in Nat
      OBVIOUS
    <3> QED
      BY ONLY <1>a, <3>1, FlatNext
  <2>4. flat(k) = t[j]
    BY <1>2, <2>1
  <2>5. t[j] = 0 \/ j = 1
    <3>1. j # 1 => j \in 2 .. top - 1
      OBVIOUS
    <3> QED
      BY <3>1
  <2>6. HolonomicStep(u, v, w, z, j, t[j]) = HolonomicStep(0, v, w, z, j, t[j])
    <3> PICK x \in Int : x = t[j]
      BY <2>2
    <3>1. (x = 0 \/ j = 1) /\ u \in Nat /\ v \in Nat /\ j \in Nat \ {0} /\ x \in Int
      BY <2>5
    <3>2. HolonomicStep(u, v, w, z, j, x) = HolonomicStep(0, v, w, z, j, x)
      BY ONLY <3>1, StepFromZero
    <3> QED
      BY <3>2
  <2> HIDE DEF flat
  <2> QED
    BY <2>2, <2>3, <2>4, <2>6
<1>3. ASSUME NEW k \in 1 .. top PROVE flat(k - 1) = t[k]
  <2>1. k - 1 \in Nat /\ (k - 1) + 1 = k
    OBVIOUS
  <2>2. k - 1 \in K
    <3> HIDE DEF K
    <3> QED
      BY <1>1, <1>2, <2>1, Inductive
  <2> HIDE DEF flat
  <2> QED
    BY <2>1, <2>2
<1> QED
  BY <1>3

\* Coefficients that give the trace make some good, if not themselves.
LEMMA SomeAreGood ==
  ASSUME NEW t \in Seq(Int), Len(t) >= 8, Natural(t), t[1] # 0,
         NEW q \in Coefficients, Gives(q, t)
  PROVE  Good(t) # {}
<1> PICK train \in Seq(Int) : train = Trained(t)
  BY TrainedFacts
<1> PICK top \in 3 .. Len(t) : top = TrainLength(t)
  BY TrainedFacts
<1>1. Len(train) = top /\ DOMAIN train = 1 .. top /\ \A k \in 1 .. top : train[k] = t[k]
  BY TrainedFacts
<1> DEFINE pair(k) == <<k - 1, Ratio(q, k)>>
           T == Asked(q, train)
<1>2. Sampled(train, q.w, q.z) /\ Samples(train, q.w, q.z) = T
  BY SamplesAre
<1>b. T = {pair(k) : k \in Asking(train)}
  BY DEF Asked
<1>3. 1 \in Asking(train)
  BY <1>1 DEF Asking
<1>4. T # {}
  BY <1>3, <1>b
<1> PICK u \in Nat, v \in Nat, w \in Nat, z \in Nat : u = q.u /\ v = q.v /\ w = q.w /\ z = q.z
  BY CoefficientsAre
<1>5. w + z > 0
  <2>1. 1 \in Nat \ {0} /\ 2 \in Nat /\ 2 = 1 + 1 /\ 2 <= Len(t)
    OBVIOUS
  <2>2. Denominator(q, 1) # 0
    BY <2>1, TermAsks
  <2>3. w * (1 - 1) + z = z
    OBVIOUS
  <2> QED
    BY <2>2, <2>3 DEF Denominator
<1>6. \A s \in T : u * s[1] + v = s[2]
  <2> SUFFICES ASSUME NEW k \in Asking(train) PROVE u * pair(k)[1] + v = pair(k)[2]
    BY <1>b
  <2>1. pair(k)[1] = k - 1 /\ pair(k)[2] = Ratio(q, k)
    OBVIOUS
  <2> HIDE DEF pair
  <2> QED
    BY <2>1 DEF Ratio
<1>7. CASE Cardinality(T) = 1 => u = 0
  <2>1. LinearFits(T, q.u, q.v)
    BY <1>6, <1>7 DEF LinearFits
  <2>2. \A k \in DOMAIN train : HolonomicValue(t[1], q.u, q.v, q.w, q.z, k - 1) = train[k]
    <3>1. \A k \in 1 .. top : k \in DOMAIN t
      OBVIOUS
    <3> QED
      BY <1>1, <3>1 DEF Gives
  <2> HIDE DEF T
  <2>3. q.w + q.z > 0
    BY <1>5
  <2>4. q \in Good(t)
    BY <1>2, <1>4, <2>1, <2>2, <2>3 DEF Good
  <2> QED
    BY <2>4
<1>8. CASE ~(Cardinality(T) = 1 => u = 0)
  <2>1. \A k \in 2 .. top - 1 : t[k] = 0
    BY <1>8, SingleSample
  <2>2. \A k \in Asking(train) : k = 1
    <3> SUFFICES ASSUME NEW k \in Asking(train), k # 1 PROVE FALSE
      OBVIOUS
    <3>1. k \in 1 .. top - 1 /\ train[k] # 0
      BY <1>1 DEF Asking
    <3>2. k \in 2 .. top - 1 /\ k \in 1 .. top
      BY <3>1
    <3> QED
      BY <1>1, <2>1, <3>1, <3>2
  <2> PICK h : h = WithoutSlope(q)
    OBVIOUS
  <2>3. h \in Coefficients /\ h.u = 0 /\ h.v = q.v /\ h.w = q.w /\ h.z = q.z
    <3>1. ParameterBound \in Nat
      BY DiscoveryAssumption
    <3> QED
      BY <3>1, CoefficientsAre DEF Coefficients, WithoutSlope
  <2>4. \A s \in T : 0 * s[1] + v = s[2]
    <3> SUFFICES ASSUME NEW k \in Asking(train) PROVE 0 * pair(k)[1] + v = pair(k)[2]
      BY <1>b
    <3>1. pair(k)[1] = 1 - 1 /\ pair(k)[2] = u * (1 - 1) + v
      BY <2>2 DEF Ratio
    <3>2. 0 * (1 - 1) + v = v /\ u * (1 - 1) + v = v
      OBVIOUS
    <3> HIDE DEF pair
    <3> QED
      BY <3>1, <3>2
  <2>5. LinearFits(T, h.u, h.v)
    BY <2>3, <2>4 DEF LinearFits
  <2>6. \A k \in DOMAIN train : HolonomicValue(t[1], h.u, h.v, h.w, h.z, k - 1) = train[k]
    <3>a. top \in 1 .. Len(t)
      OBVIOUS
    <3>1. \A k \in 1 .. top : HolonomicValue(t[1], 0, q.v, q.w, q.z, k - 1) = t[k]
      BY <2>1, <3>a, SlopeIsFree
    <3> QED
      BY <1>1, <2>3, <3>1
  <2>7. h.w + h.z > 0
    BY <1>5, <2>3
  <2>8. Sampled(train, h.w, h.z) /\ Samples(train, h.w, h.z) = T
    BY <1>2, <2>3
  <2> HIDE DEF T
  <2>9. h \in Good(t)
    BY <1>4, <2>3, <2>5, <2>6, <2>7, <2>8 DEF Good
  <2> QED
    BY <2>9
<1> QED
  BY <1>7, <1>8

-----------------------------------------------------------------------------
(* The fits are made once, of the trace that was selected. *)
FitInv ==
  /\ ConsensusInv
  /\ consensus.accepted => consensus.selected
  /\ consensus.selected \/ (structural = Unfitted /\ holonomic = Unfitted)
  /\ structural \in {Unfitted, StructuralCandidate(consensus.trace)}
  /\ holonomic \in {Unfitted, HolonomicCandidate(consensus.trace)}

LEMMA FitInvInit == DiscoveryInit => FitInv
<1> SUFFICES ASSUME DiscoveryInit PROVE FitInv
  OBVIOUS
<1>1. ConsensusInv
  BY ConsensusInvInit
<1> QED
  BY <1>1 DEF FitInv, DiscoveryInit, Unselected

LEMMA FitInvStep == FitInv /\ [DiscoveryNext]_discoveryVars => FitInv'
<1> SUFFICES ASSUME FitInv, [DiscoveryNext]_discoveryVars PROVE FitInv'
  OBVIOUS
<1>1. ConsensusInv'
  BY ConsensusInvStep DEF FitInv
<1>2. ASSUME UNCHANGED <<consensus, structural, holonomic>> PROVE FitInv'
  <2>1. consensus' = consensus /\ structural' = structural /\ holonomic' = holonomic
    BY <1>2
  <2> QED
    BY <1>1, <2>1, Zenon DEF FitInv
<1>3. ASSUME NEW s \in DOMAIN offer, Arrive(s) PROVE FitInv'
  BY <1>2, <1>3 DEF Arrive
<1>4. ASSUME SelectConsensus PROVE FitInv'
  <2>1. structural = Unfitted /\ holonomic = Unfitted /\ consensus'.selected
        /\ structural' = structural /\ holonomic' = holonomic
    BY <1>4 DEF SelectConsensus, FitInv
  <2> QED
    BY <1>1, <2>1 DEF FitInv
<1>5. ASSUME Fit PROVE FitInv'
  <2>1. /\ consensus.selected /\ consensus' = consensus
        /\ structural' = StructuralCandidate(consensus.trace)
        /\ holonomic' = HolonomicCandidate(consensus.trace)
    BY <1>5 DEF Fit, FitInv
  <2>2. consensus'.selected /\ consensus'.accepted = consensus.accepted /\ consensus'.trace = consensus.trace
    BY <2>1
  <2>3. structural' = StructuralCandidate(consensus'.trace) /\ holonomic' = HolonomicCandidate(consensus'.trace)
    BY <2>1, <2>2
  <2> QED
    BY <1>1, <2>2, <2>3, Zenon DEF FitInv
<1> QED
  BY <1>2, <1>3, <1>4, <1>5 DEF DiscoveryNext, discoveryVars

LEMMA FitInvFits == FitInv => FitsReproduceTrace
<1> SUFFICES ASSUME FitInv PROVE FitsReproduceTrace
  OBVIOUS
<1> PICK t \in Seq(Int) : t = consensus.trace
  BY DEF FitInv, ConsensusInv
<1> PICK len \in Nat : len = Len(t)
  OBVIOUS
<1>1. ~Found(Unfitted)
  BY DEF Found, Unfitted
<1>2. ASSUME Found(structural)
      PROVE  /\ \A k \in DOMAIN t : LeanFit(structural, k - 1) = t[k]
             /\ \A m \in Nat : LeanFit(structural, m) = StructuralValue(structural, m)
  <2>1. structural = StructuralCandidate(t)
    BY <1>1, <1>2 DEF FitInv
  <2> QED
    BY <1>2, <2>1, StructuralReproduces
<1>3. ASSUME Found(holonomic)
      PROVE  /\ \A m \in Nat :
                  LET x == HolonomicValue(holonomic.seed, holonomic.u, holonomic.v, holonomic.w, holonomic.z, m)
                  IN  x >= 0 => LeanFit(holonomic, m) = x
             /\ \A k \in 1 .. TrainLength(t) : LeanFit(holonomic, k - 1) = t[k]
             /\ holonomic.holdoutPassed => \A k \in DOMAIN t : LeanFit(holonomic, k - 1) = t[k]
  <2>1. holonomic = HolonomicCandidate(t)
    BY <1>1, <1>3 DEF FitInv
  <2> QED
    BY <1>3, <2>1, HolonomicReproduces
<1>4. \A m \in 0 .. len + 2 : m \in Nat
  OBVIOUS
<1> QED
  BY <1>2, <1>3, <1>4, Zenon DEF FitsReproduceTrace, TrainLength

LEMMA FitInvComplete == FitInv => HolonomicComplete
<1> SUFFICES ASSUME FitInv PROVE HolonomicComplete
  OBVIOUS
<1> PICK t \in Seq(Int) : t = consensus.trace
  BY DEF FitInv, ConsensusInv
<1>1. SUFFICES ASSUME holonomic = NoCandidate, Len(t) >= 8, Natural(t), t[1] # 0, TrainLength(t) >= 4,
                      NEW u \in 0 .. ParameterBound, NEW v \in 0 .. ParameterBound,
                      NEW w \in 0 .. ParameterBound, NEW z \in 0 .. ParameterBound,
                      \A k \in DOMAIN t : HolonomicValue(t[1], u, v, w, z, k - 1) = t[k]
               PROVE  FALSE
  BY DEF HolonomicComplete, TrainLength
<1>2. NoCandidate # Unfitted
  BY DEF NoCandidate, Unfitted
<1>3. HolonomicCandidate(t) = NoCandidate
  BY <1>1, <1>2 DEF FitInv
<1>4. Good(t) = {}
  <2>1. TrainLength(t) \in Int
    BY <1>1, TrainedFacts
  <2>2. \A q : [kind |-> "holonomic_lite", seed |-> t[1], u |-> q.u, v |-> q.v, w |-> q.w, z |-> q.z,
                holdoutPassed |-> \A k \in TrainLength(t) + 1 .. Len(t) :
                    HolonomicValue(t[1], q.u, q.v, q.w, q.z, k - 1) = t[k]] # NoCandidate
    BY DEF NoCandidate
  <2>3. Len(t) < 8 \/ ~Natural(t) \/ TrainLength(t) < 4 \/ Good(t) = {}
    BY <1>3, <2>2, HolonomicCandidateIs, Zenon
  <2> QED
    BY <1>1, <2>1, <2>3
<1> PICK q : q = [u |-> u, v |-> v, w |-> w, z |-> z]
  OBVIOUS
<1>5. q \in Coefficients /\ q.u = u /\ q.v = v /\ q.w = w /\ q.z = z
  BY DEF Coefficients
<1>6. Gives(q, t)
  BY <1>1, <1>5 DEF Gives
<1> QED
  BY <1>1, <1>4, <1>5, <1>6, SomeAreGood

\* Every emitted definition takes the values it was judged by.
THEOREM FitsAreReproduced == DiscoverySpec => []FitsReproduceTrace
BY FitInvInit, FitInvStep, FitInvFits, PTL DEF DiscoverySpec

\* A holonomic recurrence of the trace within the bound is not missed.
THEOREM HolonomicSearchIsComplete == DiscoverySpec => []HolonomicComplete
BY FitInvInit, FitInvStep, FitInvComplete, PTL DEF DiscoverySpec

-----------------------------------------------------------------------------
(* Functions defined by recursion on the naturals.                         *)
\* A value computed step by step without end exists.
Endless(f, X, start, step) ==
  /\ f \in [Nat -> X] /\ f[0] = start
  /\ \A k \in Nat : f[k + 1] = step[k + 1][f[k]]
Upwards(f, X, start, top, step) ==
  /\ f \in [0 .. top -> X] /\ f[0] = start
  /\ \A k \in 0 .. top - 1 : f[k + 1] = step[k + 1][f[k]]

LEMMA UpwardsExists ==
  ASSUME NEW X, NEW start \in X, NEW step \in [Nat \ {0} -> [X -> X]], NEW top \in Nat
  PROVE  \E f : Upwards(f, X, start, top, step)
<1> DEFINE K == {k \in Nat : \E f : Upwards(f, X, start, k, step)}
<1>1. 0 \in K
  <2> DEFINE f == [k \in 0 .. 0 |-> start]
  <2>1. f \in [0 .. 0 -> X] /\ f[0] = start /\ 0 .. 0 - 1 = {}
    OBVIOUS
  <2> HIDE DEF f
  <2>2. Upwards(f, X, start, 0, step)
    BY <2>1 DEF Upwards
  <2> QED
    BY <2>2
<1>2. ASSUME NEW k \in Nat, k \in K PROVE k + 1 \in K
  <2> PICK f : Upwards(f, X, start, k, step)
    BY <1>2
  <2> HIDE DEF K
  <2>1. f \in [0 .. k -> X] /\ f[0] = start /\ \A j \in 0 .. k - 1 : f[j + 1] = step[j + 1][f[j]]
    BY DEF Upwards
  <2> PICK last : last = step[k + 1][f[k]]
    OBVIOUS
  <2>2. last \in X
    <3>1. f[k] \in X /\ step[k + 1] \in [X -> X]
      BY <2>1
    <3> QED
      BY <3>1
  <2> DEFINE g == [j \in 0 .. k + 1 |-> IF j = k + 1 THEN last ELSE f[j]]
  <2>3. g \in [0 .. k + 1 -> X] /\ g[k + 1] = last /\ \A j \in 0 .. k : g[j] = f[j]
    BY <2>1, <2>2
  <2> HIDE DEF g
  <2>4. ASSUME NEW j \in 0 .. (k + 1) - 1 PROVE g[j + 1] = step[j + 1][g[j]]
    <3>1. g[j] = f[j]
      BY <2>3
    <3>2. CASE j = k
      BY <2>3, <3>1, <3>2
    <3>3. CASE j # k
      <4>1. j \in 0 .. k - 1 /\ j + 1 \in 0 .. k
        BY <3>3
      <4> QED
        BY <2>1, <2>3, <3>1, <4>1
    <3> QED
      BY <3>2, <3>3
  <2>5. g[0] = start
    <3>1. 0 \in 0 .. k
      OBVIOUS
    <3> QED
      BY <2>1, <2>3, <3>1
  <2>6. Upwards(g, X, start, k + 1, step)
    BY <2>3, <2>4, <2>5 DEF Upwards
  <2> QED
    BY <2>6 DEF K
<1>3. top \in K
  <2> HIDE DEF K
  <2> QED
    BY <1>1, <1>2, Inductive
<1> QED
  BY <1>3

LEMMA UpwardsAgree ==
  ASSUME NEW X, NEW start, NEW step, NEW top \in Nat, NEW more \in Nat, top <= more,
         NEW f, NEW g, Upwards(f, X, start, top, step), Upwards(g, X, start, more, step)
  PROVE  f[top] = g[top]
<1> DEFINE K == {k \in Nat : k <= top => f[k] = g[k]}
<1>1. 0 \in K
  BY DEF Upwards
<1>2. ASSUME NEW k \in Nat, k \in K PROVE k + 1 \in K
  <2> SUFFICES ASSUME k + 1 <= top PROVE f[k + 1] = g[k + 1]
    OBVIOUS
  <2>1. k \in 0 .. top - 1 /\ k \in 0 .. more - 1 /\ f[k] = g[k]
    BY <1>2
  <2> QED
    BY <2>1 DEF Upwards
<1>3. top \in K
  <2> HIDE DEF K
  <2> QED
    BY <1>1, <1>2, Inductive
<1> QED
  BY <1>3

LEMMA EndlessExists ==
  ASSUME NEW X, NEW start \in X, NEW step \in [Nat \ {0} -> [X -> X]]
  PROVE  \E f : Endless(f, X, start, step)
<1> DEFINE up(k) == CHOOSE g : Upwards(g, X, start, k, step)
           f == [k \in Nat |-> up(k)[k]]
<1>1. ASSUME NEW k \in Nat PROVE Upwards(up(k), X, start, k, step)
  BY UpwardsExists
<1>2. \A k \in Nat : f[k] = up(k)[k]
  OBVIOUS
<1>3. ASSUME NEW k \in Nat PROVE up(k)[k] \in X
  <2>1. Upwards(up(k), X, start, k, step) /\ k \in 0 .. k
    BY <1>1
  <2> HIDE DEF up
  <2> QED
    BY <2>1 DEF Upwards
<1>4. f \in [Nat -> X]
  <2> HIDE DEF up
  <2> QED
    BY <1>3
<1> HIDE DEF f
<1>5. f[0] = start
  <2>1. Upwards(up(0), X, start, 0, step)
    BY <1>1
  <2> HIDE DEF up
  <2> QED
    BY <1>2, <2>1 DEF Upwards
<1>6. ASSUME NEW k \in Nat PROVE f[k + 1] = step[k + 1][f[k]]
  <2>1. Upwards(up(k), X, start, k, step) /\ Upwards(up(k + 1), X, start, k + 1, step)
    BY <1>1
  <2>2. f[k] = up(k)[k] /\ f[k + 1] = up(k + 1)[k + 1]
    BY <1>2
  <2> HIDE DEF up
  <2>3. up(k)[k] = up(k + 1)[k]
    <3>1. k + 1 \in Nat /\ k <= k + 1
      OBVIOUS
    <3> QED
      BY <2>1, <3>1, UpwardsAgree
  <2>4. k \in 0 .. (k + 1) - 1
    OBVIOUS
  <2>5. up(k + 1)[k + 1] = step[k + 1][up(k + 1)[k]]
    BY <2>1, <2>4 DEF Upwards
  <2> QED
    BY <2>2, <2>3, <2>5
<1> QED
  BY <1>4, <1>5, <1>6 DEF Endless

-----------------------------------------------------------------------------
(* Binomial coefficients. *)
LEMMA FactorialEquation ==
  factorial = [k \in Nat |-> IF k = 0 THEN 1 ELSE k * factorial[k - 1]]
<1> DEFINE step == [k \in Nat \ {0} |-> [x \in Nat |-> k * x]]
<1>1. step \in [Nat \ {0} -> [Nat -> Nat]]
  OBVIOUS
<1>2. \A k \in Nat : \A x \in Nat : step[k + 1][x] = (k + 1) * x
  OBVIOUS
<1> HIDE DEF step
<1> PICK f : Endless(f, Nat, 1, step)
  BY <1>1, EndlessExists
<1>3. f \in [Nat -> Nat] /\ f[0] = 1 /\ \A k \in Nat : f[k + 1] = (k + 1) * f[k]
  BY <1>2 DEF Endless
<1>4. ASSUME NEW k \in Nat PROVE f[k] = IF k = 0 THEN 1 ELSE k * f[k - 1]
  <2>1. CASE k = 0
    BY <1>3, <2>1
  <2>2. CASE k # 0
    <3> PICK j \in Nat : k = j + 1
      BY <2>2
    <3>1. f[j + 1] = (j + 1) * f[j] /\ k - 1 = j
      BY <1>3
    <3> QED
      BY <2>2, <3>1
  <2> QED
    BY <2>1, <2>2
<1>5. f = [k \in Nat |-> IF k = 0 THEN 1 ELSE k * f[k - 1]]
  BY <1>3, <1>4
<1> QED
  BY <1>5, Zenon DEF factorial

LEMMA FactorialStep ==
  /\ factorial[0] = 1
  /\ \A k \in Nat : factorial[k] \in Nat \ {0} /\ factorial[k + 1] = (k + 1) * factorial[k]
<1>1. \A k \in Nat : factorial[k] = IF k = 0 THEN 1 ELSE k * factorial[k - 1]
  BY FactorialEquation
<1> PICK f : f = factorial
  OBVIOUS
<1>2. f[0] = 1 /\ \A k \in Nat : f[k + 1] = (k + 1) * f[k]
  <2>1. f[0] = 1
    BY <1>1
  <2>2. ASSUME NEW k \in Nat PROVE f[k + 1] = (k + 1) * f[k]
    <3>1. k + 1 \in Nat /\ k + 1 # 0 /\ (k + 1) - 1 = k
      OBVIOUS
    <3> QED
      BY <1>1, <3>1
  <2> QED
    BY <2>1, <2>2
<1> DEFINE K == {k \in Nat : f[k] \in Nat \ {0}}
<1>3. 0 \in K
  BY <1>2
<1>4. ASSUME NEW k \in Nat, k \in K PROVE k + 1 \in K
  <2> PICK x \in Nat \ {0} : x = f[k]
    BY <1>4
  <2>1. (k + 1) * x \in Nat \ {0}
    OBVIOUS
  <2> QED
    BY <1>2, <2>1
<1>5. Nat \subseteq K
  <2> HIDE DEF K
  <2> QED
    BY <1>3, <1>4, Inductive
<1> QED
  BY <1>2, <1>5

\* x ways to choose k of m.
Ways(x, m, k) == x \in Nat /\ x * (factorial[k] * factorial[m - k]) = factorial[m]

LEMMA WaysAreChosen ==
  ASSUME NEW m \in Nat, NEW k \in 0 .. m, NEW x, Ways(x, m, k)
  PROVE  Comb(m, k) = x
<1> PICK e \in Nat : e = m - k
  OBVIOUS
<1> PICK y, z : y = factorial[k] /\ z = factorial[e]
  OBVIOUS
<1>0. y \in Nat \ {0} /\ z \in Nat \ {0}
  <2>1. k \in Nat /\ e \in Nat
    OBVIOUS
  <2> QED
    BY <2>1, FactorialStep
<1> PICK w : w = y * z
  OBVIOUS
<1>1. w \in Nat \ {0}
  BY <1>0
<1>2. x \in Nat /\ x * w = factorial[m]
  BY DEF Ways
<1>3. (x * w) \div w = x
  BY <1>1, <1>2, ExactQuotient
<1>4. choose(m, k) = factorial[m] \div w
  BY DEF choose
<1> QED
  BY <1>2, <1>3, <1>4 DEF Comb

\* Pascal's rule.
LEMMA WaysAdd ==
  ASSUME NEW m \in Nat, NEW k \in 1 .. m, NEW x, NEW y, Ways(x, m, k - 1), Ways(y, m, k)
  PROVE  Ways(x + y, m + 1, k)
<1> PICK j \in Nat, e \in Nat : j = k - 1 /\ e = m - k
  OBVIOUS
<1>1. k = j + 1 /\ m - (k - 1) = e + 1 /\ (m + 1) - k = e + 1 /\ m + 1 = (j + 1) + (e + 1)
  OBVIOUS
<1> PICK p \in Nat, q \in Nat, f \in Nat : p = factorial[j] /\ q = factorial[e] /\ f = factorial[m]
  BY FactorialStep
<1>2. factorial[k] = (j + 1) * p /\ factorial[e + 1] = (e + 1) * q /\ factorial[m + 1] = (m + 1) * f
  BY <1>1, FactorialStep
<1>3. x \in Nat /\ x * (p * ((e + 1) * q)) = f
  BY <1>1, <1>2 DEF Ways
<1>4. y \in Nat /\ y * (((j + 1) * p) * q) = f
  BY <1>2 DEF Ways
<1>5. (x + y) * (((j + 1) * p) * ((e + 1) * q)) = ((j + 1) + (e + 1)) * f
  <2>1. x * (((j + 1) * p) * ((e + 1) * q)) = (j + 1) * (x * (p * ((e + 1) * q)))
    BY <1>3
  <2>2. y * (((j + 1) * p) * ((e + 1) * q)) = (e + 1) * (y * (((j + 1) * p) * q))
    BY <1>4
  <2> PICK w \in Nat : w = ((j + 1) * p) * ((e + 1) * q)
    OBVIOUS
  <2>3. x * w = (j + 1) * f /\ y * w = (e + 1) * f
    BY <1>3, <1>4, <2>1, <2>2
  <2>4. (x + y) * w = x * w + y * w
    BY <1>3, <1>4
  <2>5. ((j + 1) + (e + 1)) * f = (j + 1) * f + (e + 1) * f
    <3> PICK u \in Nat, v \in Nat : u = j + 1 /\ v = e + 1
      OBVIOUS
    <3>1. (u + v) * f = u * f + v * f
      BY ONLY f \in Nat, u \in Nat, v \in Nat
    <3> QED
      BY <3>1
  <2> QED
    BY <2>3, <2>4, <2>5
<1> QED
  BY <1>1, <1>2, <1>3, <1>4, <1>5 DEF Ways

LEMMA WaysExist ==
  ASSUME NEW m \in Nat, NEW k \in 0 .. m
  PROVE  \E x \in Nat : Ways(x, m, k)
<1> DEFINE K == {l \in Nat : \A j \in 0 .. l : \E x \in Nat : Ways(x, l, j)}
<1>0. ASSUME NEW l \in Nat PROVE Ways(1, l, 0) /\ Ways(1, l, l)
  <2> PICK f \in Nat : f = factorial[l]
    BY FactorialStep
  <2>1. 1 * (1 * f) = f /\ 1 * (f * 1) = f /\ l - 0 = l /\ l - l = 0
    OBVIOUS
  <2> QED
    BY <2>1, FactorialStep DEF Ways
<1>1. 0 \in K
  BY <1>0
<1>2. ASSUME NEW l \in Nat, l \in K PROVE l + 1 \in K
  <2> SUFFICES ASSUME NEW j \in 0 .. l + 1 PROVE \E x \in Nat : Ways(x, l + 1, j)
    OBVIOUS
  <2>1. CASE j = 0 \/ j = l + 1
    BY <1>0, <2>1
  <2>2. CASE j \in 1 .. l
    <3>1. j - 1 \in 0 .. l /\ j \in 0 .. l
      BY <2>2
    <3> PICK x \in Nat, y \in Nat : Ways(x, l, j - 1) /\ Ways(y, l, j)
      BY <1>2, <3>1
    <3>2. Ways(x + y, l + 1, j) /\ x + y \in Nat
      BY <2>2, WaysAdd
    <3> QED
      BY <3>2
  <2> QED
    BY <2>1, <2>2
<1>3. m \in K
  <2> HIDE DEF K
  <2> QED
    BY <1>1, <1>2, Inductive
<1> QED
  BY <1>3

LEMMA CombFacts ==
  ASSUME NEW m \in Nat, NEW k \in Nat
  PROVE  /\ Comb(m, k) \in Nat /\ Comb(m, 0) = 1 /\ Comb(0, k + 1) = 0
         /\ Comb(m + 1, k + 1) = Comb(m, k + 1) + Comb(m, k)
<1>1. ASSUME NEW l \in Nat PROVE Ways(1, l, 0) /\ Ways(1, l, l)
  <2> PICK f \in Nat : f = factorial[l]
    BY FactorialStep
  <2>1. 1 * (1 * f) = f /\ 1 * (f * 1) = f /\ l - 0 = l /\ l - l = 0
    OBVIOUS
  <2> QED
    BY <2>1, FactorialStep DEF Ways
<1>2. ASSUME NEW l \in Nat PROVE Comb(l, 0) = 1 /\ Comb(l, l) = 1
  <2>1. 0 \in 0 .. l /\ l \in 0 .. l
    OBVIOUS
  <2> QED
    BY <1>1, <2>1, WaysAreChosen
<1>3. ASSUME NEW l \in Nat, NEW j \in Nat, j > l PROVE Comb(l, j) = 0
  BY <1>3 DEF Comb
<1>4. Comb(m, k) \in Nat
  <2>1. CASE k > m
    BY <1>3, <2>1
  <2>2. CASE k <= m
    <3>1. k \in 0 .. m
      BY <2>2
    <3> PICK x \in Nat : Ways(x, m, k)
      BY <3>1, WaysExist
    <3> QED
      BY <3>1, WaysAreChosen
  <2> QED
    BY <2>1, <2>2
<1>5. Comb(m + 1, k + 1) = Comb(m, k + 1) + Comb(m, k)
  <2>1. CASE k > m
    <3>1. k + 1 > m + 1 /\ k + 1 > m
      BY <2>1
    <3> QED
      BY <1>3, <2>1, <3>1
  <2>2. CASE k = m
    <3>1. k + 1 > m /\ m + 1 \in Nat
      BY <2>2
    <3>2. Comb(m, k + 1) = 0 /\ Comb(m, k) = 1 /\ Comb(m + 1, k + 1) = 1
      BY <1>2, <1>3, <2>2, <3>1
    <3> QED
      BY <3>2
  <2>3. CASE k < m
    <3> PICK j \in 1 .. m : j = k + 1 /\ j - 1 = k
      BY <2>3
    <3>1. k \in 0 .. m /\ j \in 0 .. m /\ j \in 0 .. m + 1 /\ m + 1 \in Nat
      BY <2>3
    <3> PICK x \in Nat, y \in Nat : Ways(x, m, k) /\ Ways(y, m, j)
      BY <3>1, WaysExist
    <3>2. Ways(x + y, m + 1, j)
      BY WaysAdd
    <3>3. Comb(m + 1, j) = x + y /\ Comb(m, j) = y /\ Comb(m, k) = x
      BY <3>1, <3>2, WaysAreChosen
    <3> QED
      BY <3>3
  <2> QED
    BY <2>1, <2>2, <2>3
<1>6. Comb(0, k + 1) = 0
  BY <1>3
<1> QED
  BY <1>2, <1>4, <1>5, <1>6

-----------------------------------------------------------------------------
(* Sums of integers. *)
Accumulates(f, t, len) ==
  /\ f \in [0 .. len -> Int] /\ f[0] = 0
  /\ \A i \in 1 .. len : f[i] = f[i - 1] + t[i]
SumTo(t, len) == (CHOOSE f : Accumulates(f, t, len))[len]

LEMMA AccumulationExists ==
  ASSUME NEW len \in Nat, NEW t \in [1 .. len -> Int]
  PROVE  \E f : Accumulates(f, t, len)
<1> DEFINE K == {k \in Nat : k <= len => \E f : Accumulates(f, t, k)}
<1>1. 0 \in K
  <2> DEFINE f == [i \in 0 .. 0 |-> 0]
  <2>1. f \in [0 .. 0 -> Int] /\ f[0] = 0 /\ 1 .. 0 = {}
    OBVIOUS
  <2> HIDE DEF f
  <2>2. Accumulates(f, t, 0)
    BY <2>1 DEF Accumulates
  <2> QED
    BY <2>2
<1>2. ASSUME NEW k \in Nat, k \in K PROVE k + 1 \in K
  <2> SUFFICES ASSUME k + 1 <= len PROVE \E f : Accumulates(f, t, k + 1)
    OBVIOUS
  <2> PICK f : Accumulates(f, t, k)
    BY <1>2
  <2> HIDE DEF K
  <2>1. f \in [0 .. k -> Int] /\ f[0] = 0 /\ \A i \in 1 .. k : f[i] = f[i - 1] + t[i]
    BY DEF Accumulates
  <2> PICK last \in Int : last = f[k] + t[k + 1]
    BY <2>1
  <2> DEFINE g == [i \in 0 .. k + 1 |-> IF i = k + 1 THEN last ELSE f[i]]
  <2>2. g \in [0 .. k + 1 -> Int] /\ g[k + 1] = last /\ \A i \in 0 .. k : g[i] = f[i]
    BY <2>1
  <2> HIDE DEF g
  <2>3. ASSUME NEW i \in 1 .. k + 1 PROVE g[i] = g[i - 1] + t[i]
    <3>1. i - 1 \in 0 .. k
      OBVIOUS
    <3>2. g[i - 1] = f[i - 1]
      BY <2>2, <3>1
    <3>3. CASE i = k + 1
      <4>1. i - 1 = k
        BY <3>3
      <4> QED
        BY <2>2, <3>2, <3>3, <4>1
    <3>4. CASE i # k + 1
      <4>1. i \in 1 .. k /\ i \in 0 .. k
        BY <3>4
      <4> QED
        BY <2>1, <2>2, <3>2, <4>1
    <3> QED
      BY <3>3, <3>4
  <2>4. g[0] = 0
    <3>1. 0 \in 0 .. k
      OBVIOUS
    <3> QED
      BY <2>1, <2>2, <3>1
  <2>5. Accumulates(g, t, k + 1)
    BY <2>2, <2>3, <2>4 DEF Accumulates
  <2> QED
    BY <2>5
<1>3. len \in K
  <2> HIDE DEF K
  <2> QED
    BY <1>1, <1>2, Inductive
<1> QED
  BY <1>3

LEMMA SumIs ==
  ASSUME NEW len \in Nat, NEW t \in [1 .. len -> Int], NEW f, Accumulates(f, t, len)
  PROVE  SumTo(t, len) = f[len] /\ SumTo(t, len) \in Int
<1> PICK g : g = CHOOSE h : Accumulates(h, t, len)
  OBVIOUS
<1>1. Accumulates(g, t, len)
  OBVIOUS
<1> DEFINE K == {k \in Nat : k <= len => f[k] = g[k]}
<1>2. 0 \in K
  BY <1>1 DEF Accumulates
<1>3. ASSUME NEW k \in Nat, k \in K PROVE k + 1 \in K
  <2> SUFFICES ASSUME k + 1 <= len PROVE f[k + 1] = g[k + 1]
    OBVIOUS
  <2>1. k + 1 \in 1 .. len /\ (k + 1) - 1 = k /\ f[k] = g[k]
    BY <1>3
  <2>2. f[k + 1] = f[k] + t[k + 1] /\ g[k + 1] = g[k] + t[k + 1]
    BY <1>1, <2>1 DEF Accumulates
  <2> QED
    BY <2>1, <2>2
<1>4. len \in K
  <2> HIDE DEF K
  <2> QED
    BY <1>2, <1>3, Inductive
<1>5. SumTo(t, len) = g[len]
  BY DEF SumTo
<1>6. f[len] \in Int
  <2>1. len \in 0 .. len
    OBVIOUS
  <2> QED
    BY <2>1 DEF Accumulates
<1> QED
  BY <1>4, <1>5, <1>6

LEMMA SumAdds ==
  ASSUME NEW len \in Nat, NEW t \in [1 .. len -> Int], NEW u \in [1 .. len -> Int],
         NEW v \in [1 .. len -> Int], \A i \in 1 .. len : v[i] = t[i] + u[i]
  PROVE  /\ SumTo(t, len) \in Int /\ SumTo(u, len) \in Int
         /\ SumTo(v, len) = SumTo(t, len) + SumTo(u, len)
<1> PICK f, g : Accumulates(f, t, len) /\ Accumulates(g, u, len)
  BY AccumulationExists
<1>1. /\ f \in [0 .. len -> Int] /\ f[0] = 0 /\ \A i \in 1 .. len : f[i] = f[i - 1] + t[i]
      /\ g \in [0 .. len -> Int] /\ g[0] = 0 /\ \A i \in 1 .. len : g[i] = g[i - 1] + u[i]
  BY DEF Accumulates
<1> DEFINE h == [i \in 0 .. len |-> f[i] + g[i]]
<1>2. h \in [0 .. len -> Int] /\ \A i \in 0 .. len : h[i] = f[i] + g[i]
  BY <1>1
<1> HIDE DEF h
<1>3. ASSUME NEW i \in 1 .. len PROVE h[i] = h[i - 1] + v[i]
  <2>1. i \in 0 .. len /\ i - 1 \in 0 .. len
    OBVIOUS
  <2>2. f[i - 1] \in Int /\ g[i - 1] \in Int /\ t[i] \in Int /\ u[i] \in Int
    BY <1>1, <2>1
  <2>3. h[i] = f[i] + g[i] /\ h[i - 1] = f[i - 1] + g[i - 1]
    BY <1>2, <2>1
  <2> QED
    BY <1>1, <2>2, <2>3
<1>4. h[0] = 0
  <2>1. 0 \in 0 .. len
    OBVIOUS
  <2> QED
    BY <1>1, <1>2, <2>1
<1>5. Accumulates(h, v, len)
  BY <1>2, <1>3, <1>4 DEF Accumulates
<1>6. SumTo(t, len) = f[len] /\ SumTo(t, len) \in Int
  BY SumIs
<1>7. SumTo(u, len) = g[len] /\ SumTo(u, len) \in Int
  BY SumIs
<1>8. SumTo(v, len) = h[len]
  BY <1>5, SumIs
<1>9. len \in 0 .. len
  OBVIOUS
<1> QED
  BY <1>2, <1>6, <1>7, <1>8, <1>9

LEMMA SumOfZeros ==
  ASSUME NEW len \in Nat, NEW t \in [1 .. len -> Int], \A i \in 1 .. len : t[i] = 0
  PROVE  SumTo(t, len) = 0
<1> DEFINE f == [i \in 0 .. len |-> 0]
<1>1. f \in [0 .. len -> Int] /\ \A i \in 0 .. len : f[i] = 0
  OBVIOUS
<1> HIDE DEF f
<1>2. \A i \in 1 .. len : f[i] = f[i - 1] + t[i]
  <2>1. \A i \in 1 .. len : i \in 0 .. len /\ i - 1 \in 0 .. len
    OBVIOUS
  <2> QED
    BY <1>1, <2>1
<1>3. 0 \in 0 .. len /\ len \in 0 .. len
  OBVIOUS
<1>4. Accumulates(f, t, len)
  BY <1>1, <1>2, <1>3 DEF Accumulates
<1> QED
  BY <1>1, <1>3, <1>4, SumIs

\* A sum of which the first term is taken away.
LEMMA SumBehindFirst ==
  ASSUME NEW len \in Nat \ {0}, NEW t \in [1 .. len -> Int], NEW u \in [1 .. len - 1 -> Int],
         \A i \in 1 .. len - 1 : t[i + 1] = u[i]
  PROVE  SumTo(t, len) = t[1] + SumTo(u, len - 1) /\ SumTo(u, len - 1) \in Int
<1>0. len - 1 \in Nat
  OBVIOUS
<1> PICK g : Accumulates(g, u, len - 1)
  BY <1>0, AccumulationExists
<1>1. g \in [0 .. len - 1 -> Int] /\ g[0] = 0 /\ \A i \in 1 .. len - 1 : g[i] = g[i - 1] + u[i]
  BY DEF Accumulates
<1>2. t[1] \in Int
  OBVIOUS
<1> DEFINE f == [i \in 0 .. len |-> IF i = 0 THEN 0 ELSE t[1] + g[i - 1]]
<1>3. ASSUME NEW i \in 0 .. len PROVE f[i] \in Int
  <2>1. CASE i = 0
    BY <2>1
  <2>2. CASE i # 0
    <3>1. i - 1 \in 0 .. len - 1
      BY <2>2
    <3>2. g[i - 1] \in Int
      BY <1>1, <3>1
    <3> QED
      BY <1>2, <2>2, <3>2
  <2> QED
    BY <2>1, <2>2
<1>4. f \in [0 .. len -> Int] /\ f[0] = 0 /\ \A i \in 1 .. len : f[i] = t[1] + g[i - 1]
  BY <1>3
<1> HIDE DEF f
<1>5. ASSUME NEW i \in 1 .. len PROVE f[i] = f[i - 1] + t[i]
  <2>1. CASE i = 1
    <3>1. f[1] = t[1] + g[0] /\ i - 1 = 0
      BY <1>4, <2>1
    <3> QED
      BY <1>1, <1>2, <1>4, <2>1, <3>1
  <2>2. CASE i # 1
    <3> PICK j : j = i - 1
      OBVIOUS
    <3>1. j \in 1 .. len - 1 /\ j \in 1 .. len /\ i = j + 1 /\ j - 1 \in 0 .. len - 1
      BY <2>2
    <3>2. f[i] = t[1] + g[j] /\ f[j] = t[1] + g[j - 1]
      BY <1>4, <3>1
    <3>3. g[j] = g[j - 1] + u[j] /\ t[i] = u[j]
      BY <1>1, <3>1
    <3>4. g[j - 1] \in Int /\ u[j] \in Int
      BY <1>1, <3>1
    <3> QED
      BY <1>2, <3>2, <3>3, <3>4
  <2> QED
    BY <2>1, <2>2
<1>6. Accumulates(f, t, len)
  BY <1>4, <1>5 DEF Accumulates
<1>7. SumTo(t, len) = f[len]
  BY <1>6, SumIs
<1>8. SumTo(u, len - 1) = g[len - 1] /\ SumTo(u, len - 1) \in Int
  BY <1>0, SumIs
<1>9. f[len] = t[1] + g[len - 1]
  <2>1. len \in 1 .. len
    OBVIOUS
  <2> QED
    BY <1>4, <2>1
<1> QED
  BY <1>7, <1>8, <1>9

-----------------------------------------------------------------------------
(* Newton's formula. *)
NewtonTerms(w, m) == [i \in 1 .. Len(w) |-> w[i] * Comb(m, i - 1)]

LEMMA NewtonTermsType ==
  ASSUME NEW w \in Seq(Int), NEW m \in Nat
  PROVE  /\ NewtonTerms(w, m) \in [1 .. Len(w) -> Int]
         /\ \A i \in 1 .. Len(w) : NewtonTerms(w, m)[i] = w[i] * Comb(m, i - 1) /\ Comb(m, i - 1) \in Nat
<1>1. ASSUME NEW i \in 1 .. Len(w) PROVE Comb(m, i - 1) \in Nat /\ w[i] * Comb(m, i - 1) \in Int
  <2>1. i - 1 \in Nat
    OBVIOUS
  <2>2. Comb(m, i - 1) \in Nat
    BY <2>1, CombFacts
  <2> QED
    BY <2>2
<1> QED
  BY <1>1 DEF NewtonTerms

LEMMA NewtonIsSum ==
  ASSUME NEW w \in Seq(Int), NEW m \in Nat
  PROVE  NewtonValue(w, m) = SumTo(NewtonTerms(w, m), Len(w)) /\ NewtonValue(w, m) \in Int
<1> DEFINE Equation(g) == g = [i \in 0 .. Len(w) |-> IF i = 0 THEN 0 ELSE g[i - 1] + w[i] * Comb(m, i - 1)]
           h == CHOOSE g : Equation(g)
<1> PICK t : t = NewtonTerms(w, m)
  OBVIOUS
<1> PICK len \in Nat : len = Len(w)
  OBVIOUS
<1>1. t \in [1 .. len -> Int] /\ \A i \in 1 .. len : t[i] = w[i] * Comb(m, i - 1)
  BY NewtonTermsType
<1> PICK f : Accumulates(f, t, len)
  BY <1>1, AccumulationExists
<1>2. f \in [0 .. len -> Int] /\ f[0] = 0 /\ \A i \in 1 .. len : f[i] = f[i - 1] + t[i]
  BY DEF Accumulates
<1>3. Equation(f)
  <2>1. ASSUME NEW i \in 0 .. len PROVE f[i] = IF i = 0 THEN 0 ELSE f[i - 1] + w[i] * Comb(m, i - 1)
    <3>1. CASE i = 0
      BY <1>2, <3>1
    <3>2. CASE i # 0
      <4>1. i \in 1 .. len
        BY <3>2
      <4> QED
        BY <1>1, <1>2, <3>2, <4>1
    <3> QED
      BY <3>1, <3>2
  <2> QED
    BY <1>2, <2>1
<1>4. Equation(h)
  <2> HIDE DEF Equation
  <2> QED
    BY <1>3
<1>5. NewtonValue(w, m) = h[len]
  BY Zenon DEF NewtonValue
<1> HIDE DEF h
<1>6. h[0] = 0 /\ \A i \in 1 .. len : h[i] = h[i - 1] + t[i]
  <2>1. \A i \in 0 .. len : h[i] = IF i = 0 THEN 0 ELSE h[i - 1] + w[i] * Comb(m, i - 1)
    BY <1>4
  <2>2. 0 \in 0 .. len /\ \A i \in 1 .. len : i \in 0 .. len /\ i # 0
    OBVIOUS
  <2> QED
    BY <1>1, <2>1, <2>2
<1>7. f[len] = h[len]
  <2> DEFINE K == {k \in Nat : k <= len => f[k] = h[k]}
  <2>1. 0 \in K
    BY <1>2, <1>6
  <2>2. ASSUME NEW k \in Nat, k \in K PROVE k + 1 \in K
    <3> SUFFICES ASSUME k + 1 <= len PROVE f[k + 1] = h[k + 1]
      OBVIOUS
    <3>1. k + 1 \in 1 .. len /\ (k + 1) - 1 = k /\ f[k] = h[k]
      BY <2>2
    <3>2. f[k + 1] = f[k] + t[k + 1] /\ h[k + 1] = h[k] + t[k + 1]
      BY <1>2, <1>6, <3>1
    <3> QED
      BY <3>1, <3>2
  <2>3. len \in K
    <3> HIDE DEF K
    <3> QED
      BY <2>1, <2>2, Inductive
  <2> QED
    BY <2>3
<1>8. SumTo(t, len) = f[len] /\ SumTo(t, len) \in Int
  BY <1>1, SumIs
<1> QED
  BY <1>5, <1>7, <1>8

\* The step of a Newton formula is the one without its first coefficient.
LEMMA NewtonStep ==
  ASSUME NEW w \in Seq(Int), NEW v \in Seq(Int), Len(w) = Len(v) + 1,
         \A i \in 1 .. Len(v) : v[i] = w[i + 1], NEW m \in Nat
  PROVE  /\ NewtonValue(w, 0) = w[1]
         /\ NewtonValue(w, m + 1) = NewtonValue(w, m) + NewtonValue(v, m)
<1> PICK len \in Nat \ {0} : len = Len(w) /\ Len(v) = len - 1
  OBVIOUS
<1>1. w[1] \in Int
  OBVIOUS
<1> PICK t, u, z, o : /\ t = NewtonTerms(w, m) /\ u = NewtonTerms(w, m + 1)
                      /\ z = NewtonTerms(v, m) /\ o = NewtonTerms(w, 0)
  OBVIOUS
<1>2. /\ t \in [1 .. len -> Int] /\ u \in [1 .. len -> Int] /\ z \in [1 .. len - 1 -> Int]
      /\ o \in [1 .. len -> Int]
      /\ \A i \in 1 .. len : t[i] = w[i] * Comb(m, i - 1) /\ u[i] = w[i] * Comb(m + 1, i - 1)
      /\ \A i \in 1 .. len : o[i] = w[i] * Comb(0, i - 1)
      /\ \A i \in 1 .. len - 1 : z[i] = v[i] * Comb(m, i - 1)
  <2>1. m + 1 \in Nat /\ 0 \in Nat
    OBVIOUS
  <2> QED
    BY <2>1, NewtonTermsType, ZenonT(40)
<1> DEFINE s == [i \in 1 .. len |-> IF i = 1 THEN 0 ELSE z[i - 1]]
<1>3. s \in [1 .. len -> Int] /\ s[1] = 0 /\ \A i \in 1 .. len - 1 : s[i + 1] = z[i]
  <2>1. ASSUME NEW i \in 1 .. len PROVE s[i] \in Int
    <3>1. CASE i = 1
      BY <3>1
    <3>2. CASE i # 1
      <4>1. i - 1 \in 1 .. len - 1
        BY <3>2
      <4> QED
        BY <1>2, <3>2, <4>1
    <3> QED
      BY <3>1, <3>2
  <2> QED
    BY <2>1
<1> HIDE DEF s
<1>4. ASSUME NEW i \in 1 .. len PROVE u[i] = t[i] + s[i]
  <2>1. CASE i = 1
    <3>1. i - 1 = 0 /\ Comb(m, 0) = 1 /\ Comb(m + 1, 0) = 1
      <4>1. m + 1 \in Nat /\ 0 \in Nat
        OBVIOUS
      <4> QED
        BY <2>1, <4>1, CombFacts
    <3> QED
      BY <1>1, <1>2, <1>3, <2>1, <3>1
  <2>2. CASE i # 1
    <3> PICK j \in Nat : j = i - 2
      BY <2>2
    <3>1. j + 1 \in 1 .. len - 1 /\ i - 1 = j + 1 /\ (j + 1) + 1 = i /\ (j + 1) - 1 = j
      OBVIOUS
    <3> PICK x \in Nat, y \in Nat : x = Comb(m, j + 1) /\ y = Comb(m, j)
      <4>1. j + 1 \in Nat
        OBVIOUS
      <4>2. Comb(m, j + 1) \in Nat
        BY ONLY m \in Nat, <4>1, CombFacts
      <4>3. Comb(m, j) \in Nat
        BY CombFacts
      <4> QED
        BY <4>2, <4>3
    <3>2. Comb(m + 1, j + 1) = x + y
      BY CombFacts
    <3> PICK g \in Int : g = w[i]
      OBVIOUS
    <3>3. v[j + 1] = g
      BY <3>1
    <3>4. s[i] = g * y
      <4>1. s[(j + 1) + 1] = z[j + 1]
        BY <1>3, <3>1
      <4>2. z[j + 1] = v[j + 1] * Comb(m, (j + 1) - 1)
        BY <1>2, <3>1
      <4>3. Comb(m, (j + 1) - 1) = y
        BY <3>1
      <4> QED
        BY <3>1, <3>3, <4>1, <4>2, <4>3
    <3>5. u[i] = g * (x + y) /\ t[i] = g * x
      BY <1>2, <3>1, <3>2, ZenonT(40)
    <3>6. g * (x + y) = g * x + g * y
      BY ONLY g \in Int, x \in Nat, y \in Nat
    <3> QED
      BY <3>4, <3>5, <3>6
  <2> QED
    BY <2>1, <2>2
<1>5. SumTo(u, len) = SumTo(t, len) + SumTo(s, len)
  <2>1. len \in Nat
    OBVIOUS
  <2>2. t \in [1 .. len -> Int] /\ s \in [1 .. len -> Int] /\ u \in [1 .. len -> Int]
    BY <1>2, <1>3
  <2> QED
    BY ONLY <1>4, <2>1, <2>2, SumAdds
<1>6. SumTo(s, len) = s[1] + SumTo(z, len - 1) /\ SumTo(z, len - 1) \in Int
  BY <1>2, <1>3, SumBehindFirst
<1>7. NewtonValue(w, m + 1) = SumTo(u, len) /\ NewtonValue(w, m) = SumTo(t, len)
      /\ NewtonValue(v, m) = SumTo(z, len - 1) /\ NewtonValue(w, 0) = SumTo(o, len)
  <2>1. m + 1 \in Nat /\ 0 \in Nat
    OBVIOUS
  <2> QED
    BY <2>1, NewtonIsSum
<1>8. SumTo(o, len) = w[1]
  <2> DEFINE r == [i \in 1 .. len - 1 |-> 0]
  <2>1. r \in [1 .. len - 1 -> Int] /\ \A i \in 1 .. len - 1 : r[i] = 0
    OBVIOUS
  <2> HIDE DEF r
  <2>2. ASSUME NEW i \in 1 .. len - 1 PROVE o[i + 1] = r[i]
    <3> PICK j \in Nat : j = i - 1
      OBVIOUS
    <3>1. i + 1 \in 1 .. len /\ (i + 1) - 1 = j + 1
      OBVIOUS
    <3>2. Comb(0, j + 1) = 0
      BY CombFacts
    <3>3. w[i + 1] \in Int
      BY <3>1
    <3>4. o[i + 1] = w[i + 1] * Comb(0, (i + 1) - 1)
      BY <1>2, <3>1
    <3>5. Comb(0, (i + 1) - 1) = 0
      BY <3>1, <3>2
    <3> QED
      BY <2>1, <3>3, <3>4, <3>5
  <2>3. SumTo(o, len) = o[1] + SumTo(r, len - 1)
    BY <1>2, <2>1, <2>2, SumBehindFirst
  <2>4. SumTo(r, len - 1) = 0
    <3>1. len - 1 \in Nat
      OBVIOUS
    <3> QED
      BY <2>1, <3>1, SumOfZeros
  <2>5. o[1] = w[1]
    <3>1. 1 \in 1 .. len /\ 1 - 1 = 0 /\ 0 \in Nat
      OBVIOUS
    <3>2. Comb(0, 0) = 1
      BY <3>1, CombFacts
    <3> QED
      BY <1>1, <1>2, <3>1, <3>2
  <2> QED
    BY <1>1, <2>3, <2>4, <2>5
<1> QED
  BY <1>3, <1>5, <1>6, <1>7, <1>8

-----------------------------------------------------------------------------
(* The terms of a recurrence. *)
NextTerm(coefs, v) ==
  LET upTo[i \in 0 .. Len(coefs)] ==
        IF i = 0 THEN 0 ELSE upTo[i - 1] + coefs[i] * v[Len(v) - i + 1]
  IN  upTo[Len(coefs)]
IsValues(g, coefs, seeds) ==
  g = [k \in Nat |-> IF k = 0 THEN seeds ELSE Append(g[k - 1], NextTerm(coefs, g[k - 1]))]
Values(coefs, seeds) == CHOOSE g : IsValues(g, coefs, seeds)

LEMMA RecurrenceIs ==
  ASSUME NEW coefs, NEW seeds, NEW m
  PROVE  RecurrenceValue(coefs, seeds, m) =
           IF m < Len(coefs) THEN seeds[m + 1] ELSE Values(coefs, seeds)[m - Len(coefs) + 1][m + 1]
BY Zenon DEF RecurrenceValue, Values, IsValues, NextTerm

LEMMA NextTermIs ==
  ASSUME NEW coefs \in Seq(Int), NEW v \in Seq(Int), Len(coefs) <= Len(v),
         NEW t \in [1 .. Len(coefs) -> Int],
         \A i \in 1 .. Len(coefs) : t[i] = coefs[i] * v[Len(v) - i + 1]
  PROVE  NextTerm(coefs, v) = SumTo(t, Len(coefs)) /\ NextTerm(coefs, v) \in Int
<1> DEFINE Equation(g) ==
             g = [i \in 0 .. Len(coefs) |-> IF i = 0 THEN 0 ELSE g[i - 1] + coefs[i] * v[Len(v) - i + 1]]
           h == CHOOSE g : Equation(g)
<1> PICK len \in Nat : len = Len(coefs)
  OBVIOUS
<1>1. t \in [1 .. len -> Int] /\ \A i \in 1 .. len : t[i] = coefs[i] * v[Len(v) - i + 1]
  OBVIOUS
<1> PICK f : Accumulates(f, t, len)
  BY <1>1, AccumulationExists
<1>2. f \in [0 .. len -> Int] /\ f[0] = 0 /\ \A i \in 1 .. len : f[i] = f[i - 1] + t[i]
  BY DEF Accumulates
<1>3. Equation(f)
  <2>1. ASSUME NEW i \in 0 .. len
        PROVE  f[i] = IF i = 0 THEN 0 ELSE f[i - 1] + coefs[i] * v[Len(v) - i + 1]
    <3>1. CASE i = 0
      BY <1>2, <3>1
    <3>2. CASE i # 0
      <4>1. i \in 1 .. len
        BY <3>2
      <4>2. f[i] = f[i - 1] + coefs[i] * v[Len(v) - i + 1]
        BY <1>1, <1>2, <4>1
      <4> QED
        BY <3>2, <4>2
    <3> QED
      BY <3>1, <3>2
  <2> QED
    BY <1>2, <2>1
<1>4. Equation(h)
  <2> HIDE DEF Equation
  <2> QED
    BY <1>3
<1>5. NextTerm(coefs, v) = h[len]
  BY Zenon DEF NextTerm
<1> HIDE DEF h
<1>6. h[0] = 0 /\ \A i \in 1 .. len : h[i] = h[i - 1] + t[i]
  <2>1. \A i \in 0 .. len : h[i] = IF i = 0 THEN 0 ELSE h[i - 1] + coefs[i] * v[Len(v) - i + 1]
    BY <1>4
  <2>2. 0 \in 0 .. len /\ \A i \in 1 .. len : i \in 0 .. len /\ i # 0
    OBVIOUS
  <2> QED
    BY <1>1, <2>1, <2>2
<1>7. f[len] = h[len]
  <2> DEFINE K == {k \in Nat : k <= len => f[k] = h[k]}
  <2>1. 0 \in K
    BY <1>2, <1>6
  <2>2. ASSUME NEW k \in Nat, k \in K PROVE k + 1 \in K
    <3> SUFFICES ASSUME k + 1 <= len PROVE f[k + 1] = h[k + 1]
      OBVIOUS
    <3>1. k + 1 \in 1 .. len /\ (k + 1) - 1 = k /\ f[k] = h[k]
      BY <2>2
    <3>2. f[k + 1] = f[k] + t[k + 1] /\ h[k + 1] = h[k] + t[k + 1]
      BY <1>2, <1>6, <3>1
    <3> QED
      BY <3>1, <3>2
  <2>3. len \in K
    <3> HIDE DEF K
    <3> QED
      BY <2>1, <2>2, Inductive
  <2> QED
    BY <2>3
<1>8. SumTo(t, len) = f[len] /\ SumTo(t, len) \in Int
  BY <1>1, SumIs
<1> QED
  BY <1>5, <1>7, <1>8

\* The products a term of a recurrence is the sum of.
Backwards(a, R, m) == [i \in 1 .. Len(a) |-> a[i] * R[m - i]]

LEMMA BackwardsFacts ==
  ASSUME NEW a \in Seq(Int), NEW R \in [Nat -> Int], NEW m \in Nat, Len(a) <= m
  PROVE  /\ Backwards(a, R, m) \in [1 .. Len(a) -> Int]
         /\ \A i \in 1 .. Len(a) : Backwards(a, R, m)[i] = a[i] * R[m - i]
<1>1. ASSUME NEW i \in 1 .. Len(a) PROVE a[i] * R[m - i] \in Int
  <2>1. m - i \in Nat
    OBVIOUS
  <2>2. R[m - i] \in Int /\ a[i] \in Int
    BY <2>1
  <2> QED
    BY <2>2
<1> QED
  BY <1>1 DEF Backwards

LEMMA ValuesAre ==
  ASSUME NEW coefs \in Seq(Int), NEW seeds \in Seq(Int), Len(seeds) = Len(coefs)
  PROVE  IsValues(Values(coefs, seeds), coefs, seeds)
<1> DEFINE X    == {v \in Seq(Int) : Len(v) >= Len(coefs)}
           more == [v \in X |-> Append(v, NextTerm(coefs, v))]
           step == [k \in Nat \ {0} |-> more]
<1>1. ASSUME NEW v \in X PROVE Append(v, NextTerm(coefs, v)) \in X
  <2>1. v \in Seq(Int) /\ Len(coefs) <= Len(v) /\ Len(coefs) \in Nat /\ Len(v) \in Nat
    OBVIOUS
  <2> DEFINE t == [i \in 1 .. Len(coefs) |-> coefs[i] * v[Len(v) - i + 1]]
  <2>2. ASSUME NEW i \in 1 .. Len(coefs) PROVE coefs[i] * v[Len(v) - i + 1] \in Int
    <3>1. Len(v) - i + 1 \in 1 .. Len(v)
      BY <2>1
    <3>2. v[Len(v) - i + 1] \in Int /\ coefs[i] \in Int
      BY <2>1, <3>1
    <3> QED
      BY <3>2
  <2>3. t \in [1 .. Len(coefs) -> Int] /\ \A i \in 1 .. Len(coefs) : t[i] = coefs[i] * v[Len(v) - i + 1]
    BY <2>2
  <2> HIDE DEF t
  <2>4. NextTerm(coefs, v) \in Int
    BY <2>1, <2>3, NextTermIs
  <2> QED
    BY <2>1, <2>4
<1>2. more \in [X -> X] /\ \A v \in X : more[v] = Append(v, NextTerm(coefs, v))
  BY <1>1
<1>3. seeds \in X
  OBVIOUS
<1> HIDE DEF X, more
<1>4. step \in [Nat \ {0} -> [X -> X]] /\ \A k \in Nat \ {0} : step[k] = more
  BY <1>2
<1> HIDE DEF step
<1> PICK f : Endless(f, X, seeds, step)
  BY <1>3, <1>4, EndlessExists
<1>5. f \in [Nat -> X] /\ f[0] = seeds /\ \A k \in Nat : f[k + 1] = step[k + 1][f[k]]
  BY DEF Endless
<1>6. ASSUME NEW k \in Nat
      PROVE  f[k] = IF k = 0 THEN seeds ELSE Append(f[k - 1], NextTerm(coefs, f[k - 1]))
  <2>1. CASE k = 0
    BY <1>5, <2>1
  <2>2. CASE k # 0
    <3> PICK j \in Nat : j = k - 1
      BY <2>2
    <3>1. k = j + 1 /\ k \in Nat \ {0}
      BY <2>2
    <3>2. f[k] = step[k][f[j]] /\ step[k] = more /\ f[j] \in X
      BY <1>4, <1>5, <3>1
    <3>3. f[k] = Append(f[j], NextTerm(coefs, f[j]))
      BY <1>2, <3>2
    <3>4. k - 1 = j
      BY <3>1
    <3> QED
      BY <2>2, <3>3, <3>4
  <2> QED
    BY <2>1, <2>2
<1>7. f = [k \in Nat |-> f[k]]
  BY <1>5
<1>8. IsValues(f, coefs, seeds)
  BY <1>6, <1>7 DEF IsValues
<1> QED
  BY <1>8, Zenon DEF Values

\* The seeds come first, and each later term follows from those before it.
Follows(R, coefs, seeds) ==
  /\ R \in [Nat -> Int]
  /\ \A m \in Nat : m < Len(coefs) => R[m] = seeds[m + 1]
  /\ \A m \in Nat : m >= Len(coefs) => R[m] = SumTo(Backwards(coefs, R, m), Len(coefs))

LEMMA RecurrenceFollows ==
  ASSUME NEW coefs \in Seq(Int), NEW seeds \in Seq(Int), Len(seeds) = Len(coefs)
  PROVE  \E R : Follows(R, coefs, seeds) /\ \A m \in Nat : RecurrenceValue(coefs, seeds, m) = R[m]
<1> PICK size \in Nat : size = Len(coefs)
  OBVIOUS
<1> PICK g : g = Values(coefs, seeds)
  OBVIOUS
<1>1. IsValues(g, coefs, seeds)
  BY ValuesAre
<1>2. g[0] = seeds /\ \A k \in Nat : g[k + 1] = Append(g[k], NextTerm(coefs, g[k]))
  <2>1. \A k \in Nat : g[k] = IF k = 0 THEN seeds ELSE Append(g[k - 1], NextTerm(coefs, g[k - 1]))
    BY <1>1 DEF IsValues
  <2>2. g[0] = seeds
    BY <2>1
  <2>3. ASSUME NEW k \in Nat PROVE g[k + 1] = Append(g[k], NextTerm(coefs, g[k]))
    <3>1. k + 1 \in Nat /\ k + 1 # 0 /\ (k + 1) - 1 = k
      OBVIOUS
    <3> QED
      BY <2>1, <3>1
  <2> QED
    BY <2>2, <2>3
<1> DEFINE Back(k) == [i \in 1 .. size |-> coefs[i] * g[k][Len(g[k]) - i + 1]]
           K == {k \in Nat : g[k] \in Seq(Int) /\ Len(g[k]) = size + k}
<1>3. ASSUME NEW k \in Nat, g[k] \in Seq(Int), Len(g[k]) = size + k
      PROVE  /\ \A i \in 1 .. size : Back(k)[i] = coefs[i] * g[k][size + k - i + 1]
             /\ NextTerm(coefs, g[k]) = SumTo(Back(k), size) /\ NextTerm(coefs, g[k]) \in Int
  <2> PICK v \in Seq(Int) : v = g[k]
    BY <1>3
  <2>1. Len(v) = size + k
    BY <1>3
  <2>2. ASSUME NEW i \in 1 .. size PROVE coefs[i] * v[Len(v) - i + 1] \in Int
    <3>1. Len(v) - i + 1 \in 1 .. Len(v)
      BY <2>1
    <3>2. v[Len(v) - i + 1] \in Int /\ coefs[i] \in Int
      BY <3>1
    <3> QED
      BY <3>2
  <2> PICK t : t = [i \in 1 .. size |-> coefs[i] * v[Len(v) - i + 1]]
    OBVIOUS
  <2>3. t \in [1 .. size -> Int] /\ \A i \in 1 .. size : t[i] = coefs[i] * v[Len(v) - i + 1]
    BY <2>2
  <2>4. t = Back(k)
    OBVIOUS
  <2>5. NextTerm(coefs, v) = SumTo(t, size) /\ NextTerm(coefs, v) \in Int
    <3>1. coefs \in Seq(Int) /\ v \in Seq(Int) /\ Len(coefs) <= Len(v)
      BY <2>1
    <3>2. /\ t \in [1 .. Len(coefs) -> Int]
          /\ \A i \in 1 .. Len(coefs) : t[i] = coefs[i] * v[Len(v) - i + 1]
      BY <2>3
    <3>3. NextTerm(coefs, v) = SumTo(t, Len(coefs)) /\ NextTerm(coefs, v) \in Int
      BY ONLY <3>1, <3>2, NextTermIs
    <3> QED
      BY <3>3
  <2> HIDE DEF Back
  <2> QED
    BY <2>1, <2>3, <2>4, <2>5
<1> HIDE DEF Back
<1>4. \A k \in Nat : g[k] \in Seq(Int) /\ Len(g[k]) = size + k
  <2>1. 0 \in K
    <3>1. seeds \in Seq(Int) /\ Len(seeds) = size + 0
      OBVIOUS
    <3>2. g[0] = seeds
      BY <1>2
    <3> QED
      BY ONLY <3>1, <3>2
  <2>2. ASSUME NEW k \in Nat, k \in K PROVE k + 1 \in K
    <3>1. NextTerm(coefs, g[k]) \in Int
      BY <1>3, <2>2
    <3>2. g[k + 1] = Append(g[k], NextTerm(coefs, g[k])) /\ g[k] \in Seq(Int) /\ Len(g[k]) = size + k
      BY <1>2, <2>2
    <3>3. g[k + 1] \in Seq(Int) /\ Len(g[k + 1]) = size + (k + 1)
      <4> PICK v \in Seq(Int), x \in Int : v = g[k] /\ x = NextTerm(coefs, g[k])
        BY <3>1, <3>2
      <4>1. Append(v, x) \in Seq(Int) /\ Len(Append(v, x)) = Len(v) + 1 /\ Len(v) = size + k
        BY <3>2
      <4>2. g[k + 1] = Append(v, x)
        BY <3>2
      <4> QED
        BY ONLY <4>1, <4>2, size \in Nat, k \in Nat
    <3> QED
      BY <3>3
  <2> HIDE DEF K
  <2>3. \A k \in Nat : k \in K
    BY <2>1, <2>2, Inductive
  <2> QED
    BY <2>3 DEF K
<1> DEFINE R == [m \in Nat |-> IF m < size THEN seeds[m + 1] ELSE g[m - size + 1][m + 1]]
<1>5. ASSUME NEW m \in Nat PROVE R[m] \in Int
  <2>1. CASE m < size
    <3>1. m + 1 \in 1 .. Len(seeds)
      BY <2>1
    <3> QED
      BY <2>1, <3>1
  <2>2. CASE ~ (m < size)
    <3> PICK k \in Nat : k = m - size + 1
      BY <2>2
    <3>1. g[k] \in Seq(Int) /\ Len(g[k]) = size + k
      BY <1>4
    <3>2. m + 1 \in 1 .. size + k
      OBVIOUS
    <3>3. g[k][m + 1] \in Int
      BY <3>1, <3>2
    <3> QED
      BY <2>2, <3>3
  <2> QED
    BY <2>1, <2>2
<1>6. /\ R \in [Nat -> Int]
      /\ \A m \in Nat : m < size => R[m] = seeds[m + 1]
      /\ \A m \in Nat : ~ (m < size) => R[m] = g[m - size + 1][m + 1]
  BY <1>5
<1>7. ASSUME NEW m \in Nat PROVE RecurrenceValue(coefs, seeds, m) = R[m]
  <2>1. RecurrenceValue(coefs, seeds, m) = IF m < size THEN seeds[m + 1] ELSE g[m - size + 1][m + 1]
    BY RecurrenceIs
  <2> QED
    BY <2>1
<1> HIDE DEF R
<1> DEFINE P == {k \in Nat : \A j \in 1 .. size + k : g[k][j] = R[j - 1]}
<1>8. \A k \in Nat : \A j \in 1 .. size + k : g[k][j] = R[j - 1]
  <2>1. 0 \in P
    <3>1. ASSUME NEW j \in 1 .. size PROVE g[0][j] = R[j - 1]
      <4>1. j - 1 \in Nat /\ j - 1 < size /\ (j - 1) + 1 = j
        OBVIOUS
      <4> QED
        BY <1>2, <1>6, <4>1
    <3> QED
      BY <3>1
  <2>2. ASSUME NEW k \in Nat, k \in P PROVE k + 1 \in P
    <3> SUFFICES ASSUME NEW j \in 1 .. size + (k + 1) PROVE g[k + 1][j] = R[j - 1]
      OBVIOUS
    <3>1. CASE j = size + (k + 1)
      <4>1. j - 1 \in Nat /\ ~ (j - 1 < size) /\ (j - 1) - size + 1 = k + 1 /\ (j - 1) + 1 = j
        BY <3>1
      <4>2. R[j - 1] = g[(j - 1) - size + 1][(j - 1) + 1]
        BY <1>6, <4>1
      <4> QED
        BY <4>1, <4>2
    <3>2. CASE j # size + (k + 1)
      <4>1. j \in 1 .. size + k
        BY <3>2
      <4>2. g[k][j] = R[j - 1]
        BY <2>2, <4>1
      <4>3. g[k + 1][j] = g[k][j]
        <5>1. g[k] \in Seq(Int) /\ Len(g[k]) = size + k /\ g[k + 1] = Append(g[k], NextTerm(coefs, g[k]))
          BY <1>2, <1>4
        <5> QED
          BY <4>1, <5>1
      <4> QED
        BY <4>2, <4>3
    <3> QED
      BY <3>1, <3>2
  <2> HIDE DEF P
  <2>3. \A k \in Nat : k \in P
    BY <2>1, <2>2, Inductive
  <2> QED
    BY <2>3 DEF P
<1>9. ASSUME NEW m \in Nat, m >= size PROVE R[m] = SumTo(Backwards(coefs, R, m), size)
  <2> PICK k \in Nat : k = m - size
    BY <1>9
  <2>1. m = size + k /\ m + 1 = (size + k) + 1 /\ ~ (m < size) /\ m - size + 1 = k + 1
    OBVIOUS
  <2>2. R[m] = g[k + 1][m + 1]
    BY <1>6, <2>1
  <2>3. g[k] \in Seq(Int) /\ Len(g[k]) = size + k /\ g[k + 1] = Append(g[k], NextTerm(coefs, g[k]))
    BY <1>2, <1>4
  <2>4. g[k + 1][m + 1] = NextTerm(coefs, g[k])
    BY <2>1, <2>3
  <2>5. NextTerm(coefs, g[k]) = SumTo(Back(k), size)
    BY <1>3, <2>3
  <2>6. Back(k) = Backwards(coefs, R, m)
    <3>1. ASSUME NEW i \in 1 .. size
          PROVE  coefs[i] * g[k][Len(g[k]) - i + 1] = coefs[i] * R[m - i]
      <4> PICK j \in 1 .. size + k : j = (size + k) - i + 1
        OBVIOUS
      <4>1. g[k][j] = R[j - 1]
        BY <1>8
      <4>2. j - 1 = m - i
        BY <2>1
      <4>3. j = Len(g[k]) - i + 1
        BY <2>3
      <4> QED
        BY <4>1, <4>2, <4>3
    <3> QED
      BY <3>1 DEF Back, Backwards
  <2> QED
    BY <2>2, <2>4, <2>5, <2>6
<1> QED
  BY <1>6, <1>7, <1>9 DEF Follows

-----------------------------------------------------------------------------
(* A polynomial that a recurrence generates for as many terms as their     *)
(* orders have together is generated by it for ever.                       *)
Deviation(a, F, m) == F[m + Len(a)] - SumTo(Backwards(a, F, m + Len(a)), Len(a))

LEMMA DeviationIsInt ==
  ASSUME NEW a \in Seq(Int), NEW F \in [Nat -> Int], NEW m \in Nat
  PROVE  Deviation(a, F, m) \in Int
<1> PICK len \in Nat : len = Len(a)
  OBVIOUS
<1> PICK k \in Nat : k = m + len
  OBVIOUS
<1>1. Backwards(a, F, k) \in [1 .. len -> Int]
  BY BackwardsFacts
<1> PICK f : Accumulates(f, Backwards(a, F, k), len)
  BY <1>1, AccumulationExists
<1>2. SumTo(Backwards(a, F, k), len) \in Int
  BY <1>1, SumIs
<1> QED
  BY <1>2 DEF Deviation

LEMMA DeviationStep ==
  ASSUME NEW a \in Seq(Int), NEW F \in [Nat -> Int], NEW H \in [Nat -> Int],
         \A m \in Nat : F[m + 1] = F[m] + H[m], NEW m \in Nat
  PROVE  Deviation(a, F, m + 1) = Deviation(a, F, m) + Deviation(a, H, m)
<1> PICK len \in Nat : len = Len(a)
  OBVIOUS
<1> PICK k \in Nat : k = m + len
  OBVIOUS
<1>0. k >= len
  BY ONLY k \in Nat, m \in Nat, len \in Nat, k = m + len
<1> PICK t, u, v : /\ t = Backwards(a, F, k) /\ u = Backwards(a, H, k)
                   /\ v = Backwards(a, F, k + 1)
  OBVIOUS
<1>1. /\ t \in [1 .. len -> Int] /\ \A i \in 1 .. len : t[i] = a[i] * F[k - i]
      /\ u \in [1 .. len -> Int] /\ \A i \in 1 .. len : u[i] = a[i] * H[k - i]
      /\ v \in [1 .. len -> Int] /\ \A i \in 1 .. len : v[i] = a[i] * F[(k + 1) - i]
  <2>1. k + 1 \in Nat /\ len <= k /\ len <= k + 1
    BY ONLY k \in Nat, len \in Nat, <1>0
  <2> QED
    BY <2>1, BackwardsFacts
<1>2. ASSUME NEW i \in 1 .. len PROVE v[i] = t[i] + u[i]
  <2> PICK j \in Nat : j = k - i
    BY ONLY k \in Nat, len \in Nat, i \in 1 .. len, <1>0
  <2>0. (k + 1) - i = j + 1
    BY ONLY k \in Nat, j \in Nat, len \in Nat, i \in 1 .. len, j = k - i
  <2>1. (k + 1) - i = j + 1 /\ F[j + 1] = F[j] + H[j] /\ F[j] \in Int /\ H[j] \in Int /\ a[i] \in Int
    <3>1. F[j] \in Int /\ H[j] \in Int
      BY ONLY F \in [Nat -> Int], H \in [Nat -> Int], j \in Nat
    <3>2. a[i] \in Int
      BY ONLY a \in Seq(Int), len = Len(a), i \in 1 .. len
    <3>3. F[j + 1] = F[j] + H[j]
      BY ONLY \A x \in Nat : F[x + 1] = F[x] + H[x], j \in Nat
    <3> QED
      BY ONLY <2>0, <3>1, <3>2, <3>3
  <2> PICK x \in Int, y \in Int, z \in Int : x = a[i] /\ y = F[j] /\ z = H[j]
    BY <2>1
  <2>2. t[i] = x * y /\ u[i] = x * z
    BY <1>1
  <2>3. v[i] = x * (y + z)
    <3>1. v[i] = a[i] * F[(k + 1) - i]
      BY <1>1
    <3>2. F[(k + 1) - i] = y + z
      BY <2>1
    <3> QED
      BY <3>1, <3>2
  <2>4. x * (y + z) = x * y + x * z
    BY ONLY x \in Int, y \in Int, z \in Int
  <2> QED
    BY <2>2, <2>3, <2>4
<1>3. /\ SumTo(t, len) \in Int /\ SumTo(u, len) \in Int
      /\ SumTo(v, len) = SumTo(t, len) + SumTo(u, len)
  <2>1. len \in Nat
    OBVIOUS
  <2>2. t \in [1 .. len -> Int] /\ u \in [1 .. len -> Int] /\ v \in [1 .. len -> Int]
    BY <1>1
  <2> QED
    BY ONLY <1>2, <2>1, <2>2, SumAdds
<1>4. /\ Deviation(a, F, m) = F[k] - SumTo(t, len) /\ Deviation(a, H, m) = H[k] - SumTo(u, len)
      /\ Deviation(a, F, m + 1) = F[k + 1] - SumTo(v, len)
  <2>1. (m + 1) + len = k + 1
    OBVIOUS
  <2> QED
    BY <2>1 DEF Deviation
<1>5. F[k + 1] = F[k] + H[k] /\ F[k] \in Int /\ H[k] \in Int
  OBVIOUS
<1> QED
  BY <1>3, <1>4, <1>5

LEMMA DeviationOfZeros ==
  ASSUME NEW a \in Seq(Int), NEW F \in [Nat -> Int], \A m \in Nat : F[m] = 0, NEW m \in Nat
  PROVE  Deviation(a, F, m) = 0
<1> PICK len \in Nat : len = Len(a)
  OBVIOUS
<1> PICK k \in Nat : k = m + len
  OBVIOUS
<1> PICK t : t = Backwards(a, F, k)
  OBVIOUS
<1>1. t \in [1 .. len -> Int] /\ \A i \in 1 .. len : t[i] = a[i] * F[k - i]
  BY BackwardsFacts, SMTT(20)
<1>2. ASSUME NEW i \in 1 .. len PROVE t[i] = 0
  <2>1. k - i \in Nat /\ a[i] \in Int
    OBVIOUS
  <2>2. F[k - i] = 0
    BY <2>1
  <2> QED
    BY <1>1, <2>1, <2>2
<1>3. SumTo(t, len) = 0
  BY <1>1, <1>2, SumOfZeros
<1> QED
  BY <1>3 DEF Deviation

\* A table whose rows are the differences of the rows before.
DifferencesOf(W, D) ==
  /\ W \in [1 .. D + 1 -> [Nat -> Int]]
  /\ \A m \in Nat : W[D + 1][m] = 0
  /\ \A r \in 1 .. D : \A m \in Nat : W[r][m + 1] = W[r][m] + W[r + 1][m]

LEMMA VanishingTable ==
  ASSUME NEW D \in Nat, NEW W, DifferencesOf(W, D), \A m \in Nat : m < D => W[1][m] = 0
  PROVE  \A m \in Nat : W[1][m] = 0
<1>0. /\ \A r \in 1 .. D + 1 : \A m \in Nat : W[r][m] \in Int
      /\ \A m \in Nat : W[D + 1][m] = 0
      /\ \A r \in 1 .. D : \A m \in Nat : W[r][m + 1] = W[r][m] + W[r + 1][m]
  BY DEF DifferencesOf
<1> DEFINE P == {k \in Nat : k <= D => \A m \in Nat : m + (k + 1) <= D => W[k + 1][m] = 0}
<1>1. \A k \in Nat : k \in P
  <2>1. 0 \in P
    <3>1. ASSUME NEW m \in Nat, m + (0 + 1) <= D PROVE W[0 + 1][m] = 0
      <4>1. m < D /\ 0 + 1 = 1
        BY <3>1
      <4> QED
        BY <4>1
    <3> QED
      BY <3>1
  <2>2. ASSUME NEW k \in Nat, k \in P PROVE k + 1 \in P
    <3> SUFFICES ASSUME k + 1 <= D, NEW m \in Nat, m + ((k + 1) + 1) <= D
                 PROVE  W[(k + 1) + 1][m] = 0
      OBVIOUS
    <3> PICK r \in 1 .. D : r = k + 1
      OBVIOUS
    <3>1. \A x \in Nat : x + r <= D => W[r][x] = 0
      BY <2>2
    <3>2. m + r <= D /\ (m + 1) + r <= D /\ m + 1 \in Nat
      OBVIOUS
    <3>3. W[r][m] = 0 /\ W[r][m + 1] = 0
      BY <3>1, <3>2
    <3>4. W[r][m + 1] = W[r][m] + W[r + 1][m] /\ r + 1 \in 1 .. D + 1
      BY <1>0
    <3>5. W[r + 1][m] \in Int
      BY <1>0, <3>4
    <3>6. W[r + 1][m] = 0
      BY <3>3, <3>4, <3>5
    <3> QED
      BY <3>6
  <2> HIDE DEF P
  <2> QED
    BY <2>1, <2>2, Inductive
<1> DEFINE Q == {k \in Nat : k <= D => \A m \in Nat : W[(D - k) + 1][m] = 0}
<1>2. \A k \in Nat : k \in Q
  <2>1. 0 \in Q
    <3>1. (D - 0) + 1 = D + 1
      OBVIOUS
    <3> QED
      BY <1>0, <3>1
  <2>2. ASSUME NEW k \in Nat, k \in Q PROVE k + 1 \in Q
    <3> SUFFICES ASSUME k + 1 <= D PROVE \A m \in Nat : W[(D - (k + 1)) + 1][m] = 0
      OBVIOUS
    <3> PICK r \in 1 .. D : r = D - k
      OBVIOUS
    <3>1. (D - (k + 1)) + 1 = r /\ (D - k) + 1 = r + 1 /\ k <= D
      OBVIOUS
    <3>2. \A m \in Nat : W[r + 1][m] = 0
      BY <2>2, <3>1
    <3> DEFINE Z == {m \in Nat : W[r][m] = 0}
    <3>3. 0 \in Z
      <4> PICK j \in Nat : j = r - 1
        OBVIOUS
      <4>1. j \in P /\ j <= D /\ 0 + (j + 1) <= D /\ j + 1 = r
        BY <1>1
      <4>2. W[j + 1][0] = 0
        BY <4>1
      <4> QED
        BY <4>1, <4>2
    <3>4. ASSUME NEW m \in Nat, m \in Z PROVE m + 1 \in Z
      <4>1. W[r][m + 1] = W[r][m] + W[r + 1][m] /\ W[r][m] = 0 /\ W[r + 1][m] = 0
        BY <1>0, <3>2, <3>4
      <4> QED
        BY <4>1
    <3>5. \A m \in Nat : m \in Z
      <4> HIDE DEF Z
      <4> QED
        BY <3>3, <3>4, Inductive
    <3> QED
      BY <3>1, <3>5
  <2> HIDE DEF Q
  <2> QED
    BY <2>1, <2>2, Inductive
<1>3. D \in Q /\ (D - D) + 1 = 1
  BY <1>2
<1> QED
  BY <1>3

LEMMA BackwardsAgree ==
  ASSUME NEW a \in Seq(Int), NEW F \in [Nat -> Int], NEW R \in [Nat -> Int], NEW m \in Nat,
         Len(a) <= m, \A j \in Nat : j < m => R[j] = F[j]
  PROVE  Backwards(a, R, m) = Backwards(a, F, m)
<1>1. ASSUME NEW i \in 1 .. Len(a) PROVE a[i] * R[m - i] = a[i] * F[m - i]
  <2>1. m - i \in Nat /\ m - i < m
    OBVIOUS
  <2> QED
    BY <2>1
<1> QED
  BY <1>1 DEF Backwards

GeneratedBy(a, R) ==
  /\ R \in [Nat -> Int]
  /\ \A m \in Nat : m >= Len(a) => R[m] = SumTo(Backwards(a, R, m), Len(a))
Begins(R, F, k) == \A m \in Nat : m < k => R[m] = F[m]

LEMMA GeneratedForEver ==
  ASSUME NEW a \in Seq(Int), NEW D \in Nat, NEW G, DifferencesOf(G, D), NEW R, GeneratedBy(a, R),
         Begins(R, G[1], Len(a) + D)
  PROVE  \A m \in Nat : R[m] = G[1][m]
<1>a. /\ R \in [Nat -> Int]
      /\ \A m \in Nat : m >= Len(a) => R[m] = SumTo(Backwards(a, R, m), Len(a))
      /\ \A m \in Nat : m < Len(a) + D => R[m] = G[1][m]
  BY DEF GeneratedBy, Begins
<1> PICK len \in Nat : len = Len(a)
  OBVIOUS
<1>0. /\ G \in [1 .. D + 1 -> [Nat -> Int]]
      /\ \A m \in Nat : G[D + 1][m] = 0
      /\ \A r \in 1 .. D : \A m \in Nat : G[r][m + 1] = G[r][m] + G[r + 1][m]
  BY DEF DifferencesOf
<1> DEFINE W == [r \in 1 .. D + 1 |-> [m \in Nat |-> Deviation(a, G[r], m)]]
<1>1. ASSUME NEW r \in 1 .. D + 1, NEW m \in Nat PROVE Deviation(a, G[r], m) \in Int
  <2>1. G[r] \in [Nat -> Int]
    BY <1>0
  <2> QED
    BY <2>1, DeviationIsInt
<1>2. /\ W \in [1 .. D + 1 -> [Nat -> Int]]
      /\ \A r \in 1 .. D + 1 : \A m \in Nat : W[r][m] = Deviation(a, G[r], m)
  BY <1>1
<1> HIDE DEF W
<1>3. ASSUME NEW m \in Nat PROVE W[D + 1][m] = 0
  <2>1. D + 1 \in 1 .. D + 1
    OBVIOUS
  <2>2. G[D + 1] \in [Nat -> Int] /\ \A k \in Nat : G[D + 1][k] = 0
    BY <1>0, <2>1
  <2>3. Deviation(a, G[D + 1], m) = 0
    BY <2>2, DeviationOfZeros
  <2> QED
    BY <1>2, <2>1, <2>3
<1>4. ASSUME NEW r \in 1 .. D, NEW m \in Nat PROVE W[r][m + 1] = W[r][m] + W[r + 1][m]
  <2>1. r \in 1 .. D + 1 /\ r + 1 \in 1 .. D + 1 /\ m + 1 \in Nat
    OBVIOUS
  <2> PICK F, H : F = G[r] /\ H = G[r + 1]
    OBVIOUS
  <2>2. F \in [Nat -> Int] /\ H \in [Nat -> Int] /\ \A k \in Nat : F[k + 1] = F[k] + H[k]
    BY <1>0, <2>1
  <2>3. Deviation(a, F, m + 1) = Deviation(a, F, m) + Deviation(a, H, m)
    BY <2>2, DeviationStep
  <2>4. /\ W[r][m + 1] = Deviation(a, F, m + 1) /\ W[r][m] = Deviation(a, F, m)
        /\ W[r + 1][m] = Deviation(a, H, m)
    BY <1>2, <2>1
  <2> QED
    BY <2>3, <2>4
<1>5. DifferencesOf(W, D)
  BY <1>2, <1>3, <1>4 DEF DifferencesOf
<1> PICK F : F = G[1]
  OBVIOUS
<1>6. F \in [Nat -> Int] /\ \A m \in Nat : W[1][m] = Deviation(a, F, m)
  <2>1. 1 \in 1 .. D + 1
    OBVIOUS
  <2> QED
    BY <1>0, <1>2, <2>1
<1>7. ASSUME NEW m \in Nat, m < D PROVE W[1][m] = 0
  <2> PICK k \in Nat : k = m + len
    OBVIOUS
  <2>1. k >= len /\ k < len + D
    BY <1>7
  <2>2. R[k] = SumTo(Backwards(a, R, k), len) /\ R[k] = F[k]
    BY <1>a, <2>1
  <2>3. \A j \in Nat : j < k => R[j] = F[j]
    BY <1>a, <2>1
  <2>4. Backwards(a, R, k) = Backwards(a, F, k)
    BY <1>a, <1>6, <2>1, <2>3, BackwardsAgree
  <2>5. F[k] \in Int /\ Deviation(a, F, m) = F[k] - SumTo(Backwards(a, F, k), len)
    BY <1>6 DEF Deviation
  <2>6. Deviation(a, F, m) = 0
    BY <2>2, <2>4, <2>5
  <2> QED
    BY <1>6, <2>6
<1>8. \A m \in Nat : Deviation(a, F, m) = 0
  BY <1>5, <1>6, <1>7, VanishingTable
<1> DEFINE K == {k \in Nat : \A m \in Nat : m < k => R[m] = F[m]}
<1>9. \A k \in Nat : k \in K
  <2>1. 0 \in K
    OBVIOUS
  <2>2. ASSUME NEW k \in Nat, k \in K PROVE k + 1 \in K
    <3>1. \A j \in Nat : j < k => R[j] = F[j]
      BY <2>2
    <3>2. R[k] = F[k]
      <4>1. CASE k < len
        <5>1. k < len + D
          BY <4>1
        <5> QED
          BY <1>a, <5>1
      <4>2. CASE ~ (k < len)
        <5> PICK m \in Nat : m = k - len
          BY ONLY <4>2, k \in Nat, len \in Nat
        <5>1. k = m + len /\ k >= len
          OBVIOUS
        <5>2. R[k] = SumTo(Backwards(a, R, k), len)
          BY <1>a, <5>1
        <5>3. Backwards(a, R, k) = Backwards(a, F, k)
          BY <1>a, <1>6, <3>1, <5>1, BackwardsAgree
        <5>4. Deviation(a, F, m) = F[k] - SumTo(Backwards(a, F, k), len)
          BY <5>1 DEF Deviation
        <5>5. Deviation(a, F, m) = 0
          BY <1>8
        <5>6. F[k] \in Int /\ R[k] \in Int
          BY <1>a, <1>6
        <5> QED
          BY <5>2, <5>3, <5>4, <5>5, <5>6
      <4> QED
        BY <4>1, <4>2
    <3>3. \A m \in Nat : m < k + 1 => m < k \/ m = k
      OBVIOUS
    <3> QED
      BY <3>1, <3>2, <3>3
  <2> HIDE DEF K
  <2> QED
    BY <2>1, <2>2, Inductive
<1>10. ASSUME NEW m \in Nat PROVE R[m] = F[m]
  <2>0. m + 1 \in Nat /\ m < m + 1
    OBVIOUS
  <2>1. m + 1 \in K /\ m < m + 1
    BY ONLY <1>9, <2>0
  <2> QED
    BY <2>1
<1> QED
  BY <1>10

-----------------------------------------------------------------------------
(* The table of differences, and the polynomial read off it.               *)
LEMMA DifferencesFacts ==
  ASSUME NEW v \in Seq(Int)
  PROVE  /\ Differences(v) \in Seq(Int)
         /\ Len(v) >= 1 => Len(Differences(v)) = Len(v) - 1
         /\ \A i \in 1 .. Len(v) - 1 : Differences(v)[i] = v[i + 1] - v[i]
<1> PICK len \in Nat : len = Len(v)
  OBVIOUS
<1>1. ASSUME NEW i \in 1 .. len - 1 PROVE v[i + 1] - v[i] \in Int
  <2>1. v[i + 1] \in Int /\ v[i] \in Int
    OBVIOUS
  <2> QED
    BY <2>1
<1> PICK w : w = Differences(v)
  OBVIOUS
<1>2. w = [i \in 1 .. len - 1 |-> v[i + 1] - v[i]]
  BY DEF Differences
<1>3. w \in [1 .. len - 1 -> Int] /\ \A i \in 1 .. len - 1 : w[i] = v[i + 1] - v[i]
  BY <1>1, <1>2
<1>4. CASE len = 0
  <2>1. 1 .. len - 1 = 1 .. 0
    BY <1>4
  <2>2. w \in [1 .. 0 -> Int]
    BY ONLY <1>3, <2>1
  <2>3. w \in Seq(Int) /\ Len(w) = 0
    BY ONLY <2>2
  <2> QED
    BY <1>3, <1>4, <2>3
<1>5. CASE len # 0
  <2> PICK k \in Nat : k = len - 1
    BY <1>5
  <2>1. w \in [1 .. k -> Int]
    BY <1>3
  <2>2. w \in Seq(Int) /\ Len(w) = k
    BY ONLY <2>1, k \in Nat
  <2> QED
    BY <1>3, <2>2
<1> QED
  BY <1>4, <1>5

LEMMA DifferenceTableIs ==
  ASSUME NEW s \in Seq(Int), Len(s) >= 1
  PROVE  /\ DifferenceTable(s)[1] = s
         /\ \A i \in 1 .. Len(s) - 1 : DifferenceTable(s)[i + 1] = Differences(DifferenceTable(s)[i])
<1> PICK len \in Nat : len = Len(s)
  OBVIOUS
<1> DEFINE Equation(g) == g = [i \in 1 .. Len(s) |-> IF i = 1 THEN s ELSE Differences(g[i - 1])]
           h    == CHOOSE g : Equation(g)
           more == [v \in Seq(Int) |-> Differences(v)]
           step == [k \in Nat \ {0} |-> more]
<1>1. more \in [Seq(Int) -> Seq(Int)] /\ \A v \in Seq(Int) : more[v] = Differences(v)
  BY DifferencesFacts
<1> HIDE DEF more
<1>2. step \in [Nat \ {0} -> [Seq(Int) -> Seq(Int)]] /\ \A k \in Nat \ {0} : step[k] = more
  BY <1>1
<1> HIDE DEF step
<1> PICK top \in Nat : top = len - 1
  OBVIOUS
<1> PICK f : Upwards(f, Seq(Int), s, top, step)
  BY <1>2, UpwardsExists
<1>3. /\ f \in [0 .. top -> Seq(Int)] /\ f[0] = s
      /\ \A k \in 0 .. top - 1 : f[k + 1] = Differences(f[k])
  <2>1. /\ f \in [0 .. top -> Seq(Int)] /\ f[0] = s
        /\ \A k \in 0 .. top - 1 : f[k + 1] = step[k + 1][f[k]]
    BY DEF Upwards
  <2>2. ASSUME NEW k \in 0 .. top - 1 PROVE f[k + 1] = Differences(f[k])
    <3>1. k + 1 \in Nat \ {0} /\ k \in 0 .. top
      OBVIOUS
    <3>2. step[k + 1] = more /\ f[k] \in Seq(Int)
      BY <1>2, <2>1, <3>1
    <3>3. more[f[k]] = Differences(f[k])
      BY <1>1, <3>2
    <3> QED
      BY <2>1, <3>2, <3>3
  <2> QED
    BY <2>1, <2>2
<1> PICK g : g = [i \in 1 .. len |-> f[i - 1]]
  OBVIOUS
<1>4. Equation(g)
  <2>1. ASSUME NEW i \in 1 .. len PROVE f[i - 1] = IF i = 1 THEN s ELSE Differences(g[i - 1])
    <3>1. CASE i = 1
      <4>1. i - 1 = 0
        BY <3>1
      <4> QED
        BY <1>3, <3>1, <4>1
    <3>2. CASE i # 1
      <4> PICK k \in 0 .. top - 1 : k = i - 2
        BY <3>2
      <4>1. i - 1 = k + 1 /\ k + 1 \in 1 .. len /\ (k + 1) - 1 = k
        OBVIOUS
      <4>2. g[k + 1] = f[k]
        BY <4>1
      <4>3. f[k + 1] = Differences(f[k])
        BY <1>3
      <4> QED
        BY <3>2, <4>1, <4>2, <4>3
    <3> QED
      BY <3>1, <3>2
  <2> QED
    BY <2>1
<1>5. Equation(h)
  <2> HIDE DEF Equation
  <2> QED
    BY <1>4
<1>6. DifferenceTable(s) = h
  BY Zenon DEF DifferenceTable
<1> HIDE DEF h
<1>7. \A i \in 1 .. len : h[i] = IF i = 1 THEN s ELSE Differences(h[i - 1])
  BY <1>5
<1>8. h[1] = s
  <2>1. 1 \in 1 .. len
    OBVIOUS
  <2> QED
    BY <1>7, <2>1
<1>9. ASSUME NEW i \in 1 .. len - 1 PROVE h[i + 1] = Differences(h[i])
  <2>1. i + 1 \in 1 .. len /\ i + 1 # 1 /\ (i + 1) - 1 = i
    OBVIOUS
  <2> QED
    BY <1>7, <2>1
<1> QED
  BY <1>6, <1>8, <1>9

LEMMA TableLengths ==
  ASSUME NEW s \in Seq(Int), Len(s) >= 1, NEW i \in 1 .. Len(s)
  PROVE  DifferenceTable(s)[i] \in Seq(Int) /\ Len(DifferenceTable(s)[i]) = Len(s) - i + 1
<1> PICK len \in Nat : len = Len(s)
  OBVIOUS
<1> PICK T : T = DifferenceTable(s)
  OBVIOUS
<1>1. T[1] = s /\ \A j \in 1 .. len - 1 : T[j + 1] = Differences(T[j])
  BY DifferenceTableIs
<1> DEFINE K == {k \in Nat : k < len => T[k + 1] \in Seq(Int) /\ Len(T[k + 1]) = len - k}
<1>2. 0 \in K
  <2>1. T[0 + 1] = s /\ len - 0 = len
    BY <1>1
  <2> QED
    BY <2>1
<1>3. ASSUME NEW k \in Nat, k \in K PROVE k + 1 \in K
  <2> SUFFICES ASSUME k + 1 < len
               PROVE  T[(k + 1) + 1] \in Seq(Int) /\ Len(T[(k + 1) + 1]) = len - (k + 1)
    OBVIOUS
  <2>0. T[k + 1] \in Seq(Int) /\ Len(T[k + 1]) = len - k
    <3>1. k < len
      BY ONLY k + 1 < len, k \in Nat, len \in Nat
    <3> QED
      BY <1>3, <3>1
  <2> PICK v \in Seq(Int) : v = T[k + 1] /\ Len(v) = len - k
    BY ONLY <2>0
  <2>1. T[(k + 1) + 1] = Differences(v)
    <3>1. k + 1 \in 1 .. len - 1
      OBVIOUS
    <3> QED
      BY <1>1, <3>1
  <2>2. Differences(v) \in Seq(Int) /\ Len(Differences(v)) = Len(v) - 1
    <3>1. Len(v) >= 1
      OBVIOUS
    <3> QED
      BY <3>1, DifferencesFacts
  <2> QED
    BY <2>1, <2>2
<1> PICK k \in Nat : k = i - 1
  OBVIOUS
<1>4. k \in K
  <2> HIDE DEF K
  <2> QED
    BY <1>2, <1>3, Inductive
<1>5. k < len /\ k + 1 = i /\ len - k = len - i + 1
  OBVIOUS
<1> QED
  BY <1>4, <1>5

Behind(w, r) == [i \in 1 .. Len(w) - r + 1 |-> w[i + r - 1]]

LEMMA BehindFacts ==
  ASSUME NEW w \in Seq(Int), NEW r \in 1 .. Len(w) + 1
  PROVE  /\ Behind(w, r) \in Seq(Int) /\ Len(Behind(w, r)) = Len(w) - r + 1
         /\ \A i \in 1 .. Len(w) - r + 1 : Behind(w, r)[i] = w[i + r - 1]
<1> PICK size \in Nat : size = Len(w)
  OBVIOUS
<1> PICK len \in Nat : len = size - r + 1
  OBVIOUS
<1>1. ASSUME NEW i \in 1 .. len PROVE w[i + r - 1] \in Int
  <2>1. i + r - 1 \in 1 .. Len(w)
    OBVIOUS
  <2> QED
    BY <2>1
<1> PICK z : z = Behind(w, r)
  OBVIOUS
<1>2. z = [i \in 1 .. len |-> w[i + r - 1]]
  BY DEF Behind
<1>3. z \in [1 .. len -> Int] /\ \A i \in 1 .. len : z[i] = w[i + r - 1]
  BY <1>1, <1>2
<1>4. z \in Seq(Int) /\ Len(z) = len
  BY ONLY <1>3, len \in Nat
<1> QED
  BY <1>3, <1>4

LEMMA NewtonTable ==
  ASSUME NEW w \in Seq(Int)
  PROVE  \E G : /\ DifferencesOf(G, Len(w))
                /\ \A m \in Nat : G[1][m] = NewtonValue(w, m)
                /\ \A r \in 1 .. Len(w) : G[r][0] = w[r]
<1> PICK len \in Nat : len = Len(w)
  OBVIOUS
<1> DEFINE G == [r \in 1 .. len + 1 |-> [m \in Nat |-> NewtonValue(Behind(w, r), m)]]
<1>1. ASSUME NEW r \in 1 .. len + 1, NEW m \in Nat PROVE NewtonValue(Behind(w, r), m) \in Int
  <2>1. Behind(w, r) \in Seq(Int)
    BY BehindFacts
  <2> QED
    BY <2>1, NewtonIsSum
<1>2. /\ G \in [1 .. len + 1 -> [Nat -> Int]]
      /\ \A r \in 1 .. len + 1 : \A m \in Nat : G[r][m] = NewtonValue(Behind(w, r), m)
  BY <1>1
<1> HIDE DEF G
<1>3. ASSUME NEW m \in Nat PROVE G[len + 1][m] = 0
  <2> PICK r \in 1 .. len + 1 : r = len + 1
    OBVIOUS
  <2> PICK v \in Seq(Int) : v = Behind(w, r) /\ Len(v) = 0
    <3>1. Behind(w, r) \in Seq(Int) /\ Len(Behind(w, r)) = len - r + 1
      BY BehindFacts
    <3> QED
      BY <3>1
  <2>1. NewtonValue(v, m) = SumTo(NewtonTerms(v, m), Len(v))
    BY NewtonIsSum
  <2> PICK t : t = NewtonTerms(v, m)
    OBVIOUS
  <2>2. t \in [1 .. 0 -> Int] /\ \A i \in 1 .. 0 : t[i] = 0
    <3>1. t \in [1 .. Len(v) -> Int]
      BY NewtonTermsType
    <3>2. \A i \in 1 .. 0 : FALSE
      OBVIOUS
    <3> QED
      BY <3>1, <3>2
  <2>3. SumTo(t, 0) = 0
    BY <2>2, SumOfZeros
  <2> QED
    BY <1>2, <2>1, <2>3
<1>4. ASSUME NEW r \in 1 .. len
      PROVE  /\ G[r][0] = w[r]
             /\ \A m \in Nat : G[r][m + 1] = G[r][m] + G[r + 1][m]
  <2>0. r \in 1 .. len + 1 /\ r + 1 \in 1 .. len + 1
    OBVIOUS
  <2> PICK z, v : z = Behind(w, r) /\ v = Behind(w, r + 1)
    OBVIOUS
  <2>1. /\ z \in Seq(Int) /\ Len(z) = len - r + 1 /\ \A i \in 1 .. len - r + 1 : z[i] = w[i + r - 1]
    BY <2>0, BehindFacts
  <2>2. /\ v \in Seq(Int) /\ Len(v) = len - (r + 1) + 1
        /\ \A i \in 1 .. len - (r + 1) + 1 : v[i] = w[i + (r + 1) - 1]
    BY <2>0, BehindFacts
  <2>3. Len(z) = Len(v) + 1
    <3>1. Len(z) = len - r + 1 /\ Len(v) = len - (r + 1) + 1
      BY <2>1, <2>2
    <3>2. len - r + 1 = (len - (r + 1) + 1) + 1
      BY ONLY len \in Nat, r \in 1 .. len
    <3> QED
      BY ONLY <3>1, <3>2
  <2>4. ASSUME NEW i \in 1 .. Len(v) PROVE v[i] = z[i + 1]
    <3>1. i \in 1 .. len - (r + 1) + 1 /\ i + 1 \in 1 .. len - r + 1
      BY ONLY <2>2, len \in Nat, r \in 1 .. len, i \in 1 .. Len(v)
    <3>2. v[i] = w[i + (r + 1) - 1] /\ z[i + 1] = w[(i + 1) + r - 1]
      BY <2>1, <2>2, <3>1
    <3>3. i + (r + 1) - 1 = (i + 1) + r - 1
      BY <3>1
    <3> QED
      BY <3>2, <3>3
  <2>5. ASSUME NEW m \in Nat
        PROVE  /\ NewtonValue(z, 0) = z[1]
               /\ NewtonValue(z, m + 1) = NewtonValue(z, m) + NewtonValue(v, m)
    BY <2>1, <2>2, <2>3, <2>4, NewtonStep
  <2>6. G[r][0] = w[r]
    <3>1. 1 \in 1 .. len - r + 1 /\ 1 + r - 1 = r /\ 0 \in Nat
      OBVIOUS
    <3>2. z[1] = w[r]
      BY <2>1, <3>1
    <3>3. G[r][0] = NewtonValue(z, 0)
      BY <1>2, <2>0, <3>1
    <3> QED
      BY <2>5, <3>1, <3>2, <3>3
  <2>7. ASSUME NEW m \in Nat PROVE G[r][m + 1] = G[r][m] + G[r + 1][m]
    <3>1. m + 1 \in Nat
      OBVIOUS
    <3>2. /\ G[r][m + 1] = NewtonValue(z, m + 1) /\ G[r][m] = NewtonValue(z, m)
          /\ G[r + 1][m] = NewtonValue(v, m)
      BY <1>2, <2>0, <3>1
    <3> QED
      BY <2>5, <3>2
  <2> QED
    BY <2>6, <2>7
<1>5. DifferencesOf(G, len)
  BY <1>2, <1>3, <1>4 DEF DifferencesOf
<1>6. ASSUME NEW m \in Nat PROVE G[1][m] = NewtonValue(w, m)
  <2>1. 1 \in 1 .. len + 1
    OBVIOUS
  <2> PICK z : z = Behind(w, 1)
    OBVIOUS
  <2>2. z \in Seq(Int) /\ Len(z) = len - 1 + 1 /\ \A i \in 1 .. len - 1 + 1 : z[i] = w[i + 1 - 1]
    BY <2>1, BehindFacts
  <2>3. Len(z) = len /\ \A i \in 1 .. len : z[i] = w[i]
    <3>1. len - 1 + 1 = len /\ \A i \in 1 .. len : i + 1 - 1 = i
      OBVIOUS
    <3> QED
      BY <2>2, <3>1
  <2>4. z = w
    BY <2>2, <2>3
  <2> QED
    BY <1>2, <2>1, <2>4
<1> QED
  BY <1>4, <1>5, <1>6

LEMMA DegreeFacts ==
  ASSUME NEW s \in Seq(Int), NEW d \in Degrees(s)
  PROVE  /\ Len(s) >= 3 /\ d \in 1 .. Len(s) - 1
         /\ ConstantRow(DifferenceTable(s)[d + 1])
         /\ NewtonCoefficients(s, d) \in Seq(Int) /\ Len(NewtonCoefficients(s, d)) = d + 1
         /\ \A r \in 1 .. d + 1 : NewtonCoefficients(s, d)[r] = DifferenceTable(s)[r][1]
<1>1. /\ Len(s) >= 3 /\ d \in 1 .. Len(s) - 1
      /\ ConstantRow(DifferenceTable(s)[d + 1])
  <2>1. ~ (Len(s) < 3)
    BY DEF Degrees
  <2>2. d \in { e \in 1 .. Len(s) - 1 : e <= MaxDegree /\ ConstantRow(DifferenceTable(s)[e + 1]) }
    BY <2>1 DEF Degrees
  <2> QED
    BY <2>1, <2>2
<1> PICK w : w = NewtonCoefficients(s, d)
  OBVIOUS
<1> PICK len \in Nat : len = d + 1
  BY <1>1
<1>2. ASSUME NEW r \in 1 .. len PROVE DifferenceTable(s)[r][1] \in Int
  <2>1. r \in 1 .. Len(s) /\ Len(s) >= 1
    BY <1>1
  <2>2. DifferenceTable(s)[r] \in Seq(Int) /\ Len(DifferenceTable(s)[r]) = Len(s) - r + 1
    BY <2>1, TableLengths
  <2>3. 1 \in 1 .. Len(DifferenceTable(s)[r])
    BY <2>1, <2>2
  <2> QED
    BY <2>2, <2>3
<1>3. w = [r \in 1 .. len |-> DifferenceTable(s)[r][1]]
  BY DEF NewtonCoefficients
<1>4. w \in [1 .. len -> Int] /\ \A r \in 1 .. len : w[r] = DifferenceTable(s)[r][1]
  BY <1>2, <1>3
<1>5. w \in Seq(Int) /\ Len(w) = len
  BY <1>4
<1> QED
  BY <1>1, <1>4, <1>5

\* The polynomial takes the training terms: the last row used is constant,
\* and each row above it follows from the one below and its first entry.
LEMMA PolynomialFits ==
  ASSUME NEW s \in Seq(Int), NEW d \in Degrees(s), NEW G, DifferencesOf(G, d + 1),
         \A r \in 1 .. d + 1 : G[r][0] = NewtonCoefficients(s, d)[r]
  PROVE  \A m \in Nat : m < Len(s) => G[1][m] = s[m + 1]
<1> PICK N \in Nat : N = Len(s)
  OBVIOUS
<1> PICK T : T = DifferenceTable(s)
  OBVIOUS
<1>1. N >= 3 /\ d \in 1 .. N - 1 /\ ConstantRow(T[d + 1]) /\ \A r \in 1 .. d + 1 : G[r][0] = T[r][1]
  BY DegreeFacts
<1> PICK D \in Nat : D = d + 1
  BY <1>1
<1>2. /\ \A r \in 1 .. D + 1 : \A m \in Nat : G[r][m] \in Int
      /\ \A m \in Nat : G[D + 1][m] = 0
      /\ \A r \in 1 .. D : \A m \in Nat : G[r][m + 1] = G[r][m] + G[r + 1][m]
  BY DEF DifferencesOf
<1>3. \A r \in 1 .. N : T[r] \in Seq(Int) /\ Len(T[r]) = N - r + 1
  <2>1. ASSUME NEW r \in 1 .. N PROVE T[r] \in Seq(Int) /\ Len(T[r]) = N - r + 1
    <3>1. Len(s) >= 1 /\ r \in 1 .. Len(s)
      BY <1>1
    <3>2. DifferenceTable(s)[r] \in Seq(Int) /\ Len(DifferenceTable(s)[r]) = Len(s) - r + 1
      BY ONLY s \in Seq(Int), <3>1, TableLengths
    <3> QED
      BY <3>2
  <2> QED
    BY <2>1
<1>4. T[1] = s /\ \A r \in 1 .. N - 1 : T[r + 1] = Differences(T[r])
  BY <1>1, DifferenceTableIs
<1> DEFINE Q == {k \in Nat : k < D => \A m \in Nat : m <= N - (D - k) => G[D - k][m] = T[D - k][m + 1]}
<1>5. 0 \in Q
  <2>0. D \in 1 .. D /\ D \in 1 .. N /\ D + 1 \in 1 .. D + 1 /\ D \in 1 .. D + 1
    BY <1>1
  <2> DEFINE Z == {m \in Nat : G[D][m] = T[D][1]}
  <2>1. 0 \in Z
    BY <1>1, <2>0
  <2>2. ASSUME NEW m \in Nat, m \in Z PROVE m + 1 \in Z
    <3>1. G[D][m + 1] = G[D][m] + G[D + 1][m] /\ G[D + 1][m] = 0 /\ G[D][m] \in Int
      BY <1>2, <2>0
    <3>2. G[D][m] = T[D][1]
      BY <2>2
    <3> QED
      BY <3>1, <3>2
  <2>3. \A m \in Nat : m \in Z
    <3> HIDE DEF Z
    <3> QED
      BY <2>1, <2>2, Inductive
  <2>4. ASSUME NEW m \in Nat, m <= N - D PROVE G[D][m] = T[D][m + 1]
    <3>1. m + 1 \in 1 .. Len(T[D]) /\ T[D] \in Seq(Int)
      BY <1>3, <2>0, <2>4
    <3>2. T[D][m + 1] = T[D][1]
      BY <1>1, <3>1 DEF ConstantRow
    <3>3. G[D][m] = T[D][1]
      BY <2>3
    <3> QED
      BY <3>2, <3>3
  <2>5. D - 0 = D
    OBVIOUS
  <2> QED
    BY <2>4, <2>5
<1>6. ASSUME NEW k \in Nat, k \in Q PROVE k + 1 \in Q
  <2> SUFFICES ASSUME k + 1 < D
               PROVE  \A m \in Nat : m <= N - (D - (k + 1)) => G[D - (k + 1)][m] = T[D - (k + 1)][m + 1]
    OBVIOUS
  <2> PICK r \in 1 .. D : r = D - (k + 1)
    OBVIOUS
  <2>0. /\ D - k = r + 1 /\ k < D /\ r \in 1 .. D + 1 /\ r + 1 \in 1 .. D /\ r + 1 \in 1 .. D + 1
        /\ r \in 1 .. N - 1 /\ r \in 1 .. N
    BY <1>1
  <2>1. \A m \in Nat : m <= N - (r + 1) => G[r + 1][m] = T[r + 1][m + 1]
    BY <1>6, <2>0
  <2> DEFINE Z == {m \in Nat : m <= N - r => G[r][m] = T[r][m + 1]}
  <2>2. 0 \in Z
    <3>1. G[r][0] = T[r][1] /\ 0 + 1 = 1
      BY <1>1
    <3> QED
      BY <3>1
  <2>3. ASSUME NEW m \in Nat, m \in Z PROVE m + 1 \in Z
    <3> SUFFICES ASSUME m + 1 <= N - r PROVE G[r][m + 1] = T[r][(m + 1) + 1]
      OBVIOUS
    <3>0. m <= N - (r + 1) /\ m <= N - r
      BY ONLY m + 1 <= N - r, N \in Nat, r \in 1 .. D, m \in Nat
    <3>1. G[r][m] = T[r][m + 1]
      BY <2>3, <3>0
    <3>2. G[r + 1][m] = T[r + 1][m + 1]
      BY ONLY <2>1, <3>0, m \in Nat
    <3> PICK v \in Seq(Int) : v = T[r] /\ Len(v) = N - r + 1
      BY <1>3, <2>0
    <3>3. m + 1 \in 1 .. Len(v) - 1 /\ (m + 1) + 1 \in 1 .. Len(v) /\ m + 1 \in 1 .. Len(v)
      BY ONLY m + 1 <= N - r, N \in Nat, r \in 1 .. D, D \in Nat, m \in Nat, Len(v) = N - r + 1
    <3>4. T[r + 1] = Differences(v)
      BY <1>4, <2>0
    <3>5. T[r + 1][m + 1] = v[(m + 1) + 1] - v[m + 1]
      <4>1. Differences(v)[m + 1] = v[(m + 1) + 1] - v[m + 1]
        BY ONLY v \in Seq(Int), <3>3, DifferencesFacts
      <4> QED
        BY ONLY <3>4, <4>1
    <3>6. v[(m + 1) + 1] \in Int /\ v[m + 1] \in Int
      BY ONLY v \in Seq(Int), <3>3
    <3>7. G[r][m + 1] = G[r][m] + G[r + 1][m]
      BY <1>2
    <3>8. G[r][m + 1] = v[m + 1] + (v[(m + 1) + 1] - v[m + 1])
      BY ONLY <3>1, <3>2, <3>5, <3>7, v = T[r]
    <3> PICK x \in Int, y \in Int : x = v[m + 1] /\ y = v[(m + 1) + 1]
      BY ONLY <3>6
    <3>9. x + (y - x) = y
      BY ONLY x \in Int, y \in Int
    <3>10. G[r][m + 1] = y /\ T[r][(m + 1) + 1] = y
      BY ONLY <3>8, <3>9, v = T[r], x = v[m + 1], y = v[(m + 1) + 1]
    <3> QED
      BY ONLY <3>10
  <2>4. \A m \in Nat : m \in Z
    <3> HIDE DEF Z
    <3> QED
      BY <2>2, <2>3, Inductive
  <2> QED
    BY <2>4
<1>7. \A k \in Nat : k \in Q
  <2> HIDE DEF Q
  <2> QED
    BY <1>5, <1>6, Inductive
<1>8. d \in Q /\ d < D /\ D - d = 1
  <2>1. d \in Nat /\ d < D /\ D - d = 1
    BY ONLY <1>1, N \in Nat, D = d + 1
  <2> QED
    BY ONLY <1>7, <2>1
<1>9. \A m \in Nat : m <= N - 1 => G[1][m] = T[1][m + 1]
  BY <1>8
<1> QED
  BY <1>4, <1>9

-----------------------------------------------------------------------------
(* The two miners.                                                         *)

\* What a candidate keeps of the training terms: as many seeds as it has
\* coefficients, and the value of each of the terms.
Trains(cand, s) ==
  /\ cand.coefficients \in Seq(Int) /\ cand.seeds \in Seq(Int)
  /\ Len(cand.seeds) = Len(cand.coefficients)
  /\ \A m \in Nat : m < Len(s) => RecurrenceValue(cand.coefficients, cand.seeds, m) = s[m + 1]

LEMMA CandidateTrains ==
  ASSUME NEW t \in Seq(Int), NEW h \in Int, Len(t) >= 6, NEW indices,
         NEW x \in Seq(Rational), NEW y \in Seq(Rational), NEW cand,
         cand = BMCandidate(t, h, indices, x, y), cand.kind = "bm_recurrence"
  PROVE  Trains(cand, Train(t, h))
<1> DEFINE integral == \A i \in DOMAIN x : Integral(x[i])
           coefs    == Numerators(IF integral THEN x ELSE y)
           size     == Len(coefs)
           seeds    == SubSeq(Train(t, h), 1, size)
           InPlace(S)  == \A i \in S : RecurrenceValue(coefs, seeds, i) = t[i + 1]
           refused  == \/ x = <<>>
                       \/ Len(Train(t, h)) < 2 * Len(x)
                       \/ coefs = <<>>
                       \/ Len(Train(t, h)) < 2 * size
                       \/ \E i \in DOMAIN seeds : seeds[i] < 0
                       \/ ~ InPlace(size .. Len(Train(t, h)) - 1)
<1>1. cand = IF refused THEN None
             ELSE [kind |-> "bm_recurrence", coefficients |-> coefs, seeds |-> seeds,
                   source |-> IF integral THEN "berlekamp_massey" ELSE "integer_recurrence_search",
                   holdoutPassed     |-> InPlace(Len(Train(t, h)) .. Len(t) - 1),
                   adversarialPassed |-> InPlace(Checked(t, indices))]
  BY Zenon DEF BMCandidate
<1>2. coefs \in Seq(Int) /\ size \in Nat
  <2>1. PICK z \in Seq(Rational) : coefs = Numerators(z)
    OBVIOUS
  <2>2. Numerators(z) = [i \in 1 .. Len(z) |-> z[i].num]
    BY DEF Numerators
  <2> HIDE DEF coefs
  <2> PICK len \in Nat : len = Len(z)
    OBVIOUS
  <2>3. \A i \in 1 .. len : z[i].num \in Int
    BY DEF Rational
  <2>4. coefs \in [1 .. len -> Int]
    BY <2>1, <2>2, <2>3
  <2>5. coefs \in Seq(Int) /\ Len(coefs) = len
    BY ONLY <2>4, len \in Nat
  <2> QED
    BY <2>5
<1> HIDE DEF integral, coefs, refused, InPlace
<1>3. ~ refused /\ cand.coefficients = coefs /\ cand.seeds = seeds
  <2>1. ~ refused
    BY <1>1 DEF None
  <2> QED
    BY <1>1, <2>1
<1>4. ~ (Len(Train(t, h)) < 2 * size) /\ InPlace(size .. Len(Train(t, h)) - 1)
  BY <1>3 DEF refused
<1> PICK s \in Seq(Int) : s = Train(t, h)
  BY TrainIsPrefix
<1>5. Len(s) \in 0 .. Len(t) /\ \A i \in 1 .. Len(s) : s[i] = t[i]
  BY TrainIsPrefix
<1> PICK k \in Nat : k = size
  BY <1>2
<1>6. k <= Len(s)
  BY <1>4, <1>5
<1>7. seeds \in Seq(Int) /\ Len(seeds) = k /\ \A i \in 1 .. k : seeds[i] = s[i]
  <2>1. seeds = SubSeq(s, 1, k)
    OBVIOUS
  <2> HIDE DEF seeds, size
  <2> QED
    BY ONLY <1>6, <2>1, s \in Seq(Int), k \in Nat
<1> HIDE DEF seeds, size
<1>8. ASSUME NEW m \in Nat, m < Len(s)
      PROVE  RecurrenceValue(coefs, seeds, m) = s[m + 1]
  <2>1. m + 1 \in 1 .. Len(s)
    BY <1>5, <1>8
  <2>2. CASE m < k
    <3>1. RecurrenceValue(coefs, seeds, m) = seeds[m + 1]
      BY <2>2, SeedValues DEF size
    <3>2. m + 1 \in 1 .. k
      BY <2>2
    <3> QED
      BY <1>7, <3>1, <3>2
  <2>3. CASE ~ (m < k)
    <3>1. m \in k .. Len(s) - 1
      BY <1>5, <1>8, <2>3
    <3>2. RecurrenceValue(coefs, seeds, m) = t[m + 1]
      BY <1>4, <3>1 DEF InPlace
    <3> QED
      BY <1>5, <2>1, <3>2
  <2> QED
    BY <2>2, <2>3
<1>9. k = Len(coefs)
  BY DEF size
<1> QED
  BY <1>2, <1>3, <1>7, <1>8, <1>9 DEF Trains

TrainingInv ==
  /\ trace \in Seq(Int) /\ holdoutTerms \in Int
  /\ sequence = Train(trace, holdoutTerms)
  /\ candidate.kind = "bm_recurrence" => Len(trace) >= 6 /\ Trains(candidate, sequence)

LEMMA TrainingInvInit == MiningInit => TrainingInv
  BY MiningAssumption DEF MiningInit, TrainingInv, Pending

LEMMA TrainingInvStep ==
  TrainingInv /\ MinerInv /\ LoopInv /\ Shortest /\ [MiningNext]_miningVars => TrainingInv'
<1> SUFFICES ASSUME TrainingInv, MinerInv, LoopInv, Shortest, [MiningNext]_miningVars
             PROVE  TrainingInv'
  OBVIOUS
<1>0. sequence' = sequence
  BY DEF MiningNext, TooShort, SearchStep, LoopStep, Mined, miningVars, bmVars, BMNext,
         ZeroDiscrepancy, Grow, Correct
<1>1. CASE TooShort
  BY <1>0, <1>1 DEF TooShort, TrainingInv, call, None
<1>2. CASE SearchStep \/ LoopStep \/ UNCHANGED miningVars
  <2>1. UNCHANGED <<trace, holdoutTerms, candidate>>
    BY <1>2 DEF SearchStep, LoopStep, miningVars, call
  <2> QED
    BY <1>0, <2>1 DEF TrainingInv
<1>3. CASE Mined
  <2>1. /\ Len(trace) >= 6 /\ ~ searching /\ trace' = trace /\ holdoutTerms' = holdoutTerms
        /\ candidate' = BMCandidate(trace, holdoutTerms, adversarial, Recurrence, found)
    BY <1>3 DEF Mined, call
  <2>2. Recurrence \in Seq(Rational)
    BY RecurrenceFacts
  <2>3. found \in Seq(Rational)
    <3>1. SmallestFound(sequence)
      BY <2>1 DEF MinerInv, SearchInv
    <3>2. <<>> \in Seq(Rational)
      OBVIOUS
    <3> QED
      BY <3>1, <3>2 DEF SmallestFound
  <2>4. trace \in Seq(Int) /\ holdoutTerms \in Int /\ sequence = Train(trace, holdoutTerms)
    BY DEF TrainingInv
  <2>5. candidate'.kind = "bm_recurrence" => Trains(candidate', Train(trace, holdoutTerms))
    BY <2>1, <2>2, <2>3, <2>4, CandidateTrains
  <2> QED
    BY <1>0, <2>1, <2>4, <2>5 DEF TrainingInv
<1> QED
  BY <1>1, <1>2, <1>3 DEF MiningNext

LEMMA PolynomialIs ==
  ASSUME NEW t \in Seq(Int), NEW h \in Int, NEW indices, PolynomialCandidate(t, h, indices) # None
  PROVE  /\ Len(t) >= 6
         /\ \E d \in Degrees(Train(t, h)) :
              /\ PolynomialCandidate(t, h, indices).kind = "polynomial"
              /\ PolynomialCandidate(t, h, indices).coefficients = NewtonCoefficients(Train(t, h), d)
<1> DEFINE train  == Train(t, h)
           degree == Min(Degrees(train))
           coefs  == NewtonCoefficients(train, degree)
           InPlace(S) == \A i \in S : NewtonValue(coefs, i) = t[i + 1]
           refused == \/ Len(t) < 6
                      \/ Degrees(train) = {}
                      \/ \E i \in DOMAIN coefs : coefs[i] < 0
<1>1. PolynomialCandidate(t, h, indices) =
        IF refused THEN None
        ELSE [kind |-> "polynomial", coefficients |-> coefs,
              holdoutPassed     |-> InPlace(Len(train) .. Len(t) - 1),
              adversarialPassed |-> InPlace(Checked(t, indices))]
  BY Zenon DEF PolynomialCandidate
<1> HIDE DEF InPlace, coefs, degree, train
<1>2. ~ refused
  BY <1>1
<1>3. Len(t) >= 6 /\ Degrees(train) # {}
  BY <1>2
<1>4. /\ PolynomialCandidate(t, h, indices).kind = "polynomial"
      /\ PolynomialCandidate(t, h, indices).coefficients = coefs
  BY <1>1, <1>2
<1>5. degree \in Degrees(train)
  <2>1. Degrees(train) \subseteq Nat
    BY DEF Degrees
  <2>2. \E x \in Degrees(train) : \A y \in Degrees(train) : x <= y
    BY <1>3, <2>1, LeastNatural
  <2> QED
    BY <2>2 DEF degree, Min
<1> QED
  BY <1>3, <1>4, <1>5 DEF coefs, train

LEMMA AgreementForEver ==
  ASSUME NEW s \in Seq(Int), NEW d \in Degrees(s), NEW w, w = NewtonCoefficients(s, d),
         NEW cand, Trains(cand, s), Len(s) >= Len(cand.coefficients) + Len(w)
  PROVE  \A m \in Nat : NewtonValue(w, m) = RecurrenceValue(cand.coefficients, cand.seeds, m)
<1> PICK a \in Seq(Int), seeds \in Seq(Int) : a = cand.coefficients /\ seeds = cand.seeds
  BY DEF Trains
<1>1. /\ Len(seeds) = Len(a)
      /\ \A m \in Nat : m < Len(s) => RecurrenceValue(a, seeds, m) = s[m + 1]
  BY DEF Trains
<1>2. w \in Seq(Int) /\ Len(w) = d + 1 /\ d \in 1 .. Len(s) - 1
  BY DegreeFacts
<1> PICK R : Follows(R, a, seeds) /\ \A m \in Nat : RecurrenceValue(a, seeds, m) = R[m]
  BY <1>1, RecurrenceFollows
<1>3. R \in [Nat -> Int] /\ \A m \in Nat : m >= Len(a) => R[m] = SumTo(Backwards(a, R, m), Len(a))
  BY DEF Follows
<1> PICK G : /\ DifferencesOf(G, Len(w))
             /\ \A m \in Nat : G[1][m] = NewtonValue(w, m)
             /\ \A r \in 1 .. Len(w) : G[r][0] = w[r]
  BY <1>2, NewtonTable
<1> PICK D \in Nat : D = d + 1
  BY <1>2
<1>4. DifferencesOf(G, D) /\ \A r \in 1 .. D : G[r][0] = w[r]
  BY <1>2
<1>5. \A m \in Nat : m < Len(s) => G[1][m] = s[m + 1]
  <2>1. DifferencesOf(G, d + 1) /\ \A r \in 1 .. d + 1 : G[r][0] = NewtonCoefficients(s, d)[r]
    BY <1>4
  <2> QED
    BY ONLY s \in Seq(Int), d \in Degrees(s), <2>1, PolynomialFits
<1>6. ASSUME NEW m \in Nat, m < Len(a) + D PROVE R[m] = G[1][m]
  <2>1. m < Len(s)
    BY <1>2, <1>6
  <2> QED
    BY <1>1, <1>5, <2>1
<1>7. \A m \in Nat : R[m] = G[1][m]
  <2>1. GeneratedBy(a, R)
    BY <1>3 DEF GeneratedBy
  <2>2. Begins(R, G[1], Len(a) + D)
    BY <1>6 DEF Begins
  <2> QED
    BY ONLY a \in Seq(Int), D \in Nat, <1>4, <2>1, <2>2, GeneratedForEver
<1> QED
  BY <1>7

LEMMA MinersFollow == TrainingInv => MinersAgree
<1> DEFINE polynomial == PolynomialCandidate(trace, holdoutTerms, adversarial)
<1> SUFFICES ASSUME TrainingInv, candidate.kind = "bm_recurrence", polynomial # None,
                    Len(sequence) >= Len(candidate.coefficients) + Len(polynomial.coefficients)
             PROVE  \A m \in 0 .. Len(trace) + 2 :
                      CandidateValue(polynomial, m) = CandidateValue(candidate, m)
  BY DEF MinersAgree
<1>1. /\ trace \in Seq(Int) /\ holdoutTerms \in Int /\ sequence = Train(trace, holdoutTerms)
      /\ Trains(candidate, sequence)
  BY DEF TrainingInv
<1>2. /\ Len(trace) >= 6
      /\ \E d \in Degrees(sequence) :
           /\ polynomial.kind = "polynomial"
           /\ polynomial.coefficients = NewtonCoefficients(sequence, d)
  BY <1>1, PolynomialIs
<1> HIDE DEF polynomial
<1> PICK d \in Degrees(sequence) : /\ polynomial.kind = "polynomial"
                                   /\ polynomial.coefficients = NewtonCoefficients(sequence, d)
  BY <1>2
<1>3. sequence \in Seq(Int)
  BY <1>1, <1>2, TrainIsPrefix
<1>4. \A m \in Nat : NewtonValue(polynomial.coefficients, m) =
                     RecurrenceValue(candidate.coefficients, candidate.seeds, m)
  BY <1>1, <1>3, AgreementForEver
<1>5. ASSUME NEW m \in 0 .. Len(trace) + 2
      PROVE  CandidateValue(polynomial, m) = CandidateValue(candidate, m)
  <2>1. m \in Nat
    BY <1>1
  <2>2. CandidateValue(polynomial, m) = NewtonValue(polynomial.coefficients, m)
    BY DEF CandidateValue
  <2>3. CandidateValue(candidate, m) = RecurrenceValue(candidate.coefficients, candidate.seeds, m)
    BY DEF CandidateValue
  <2> QED
    BY <1>4, <2>1, <2>2, <2>3
<1> QED
  BY <1>5

\* When both miners find a formula and the training terms outnumber the two
\* orders together, the formulas agree on every term, for every trace.
THEOREM TheMinersAgree == MiningSpec => []MinersAgree
<1>1. MiningSpec => []MinerInv
  BY MinerInvInit, MinerInvStep, PTL DEF MiningSpec
<1>2. BMSpec => [](LoopInv /\ Shortest)
  BY LoopInvInit, LoopInvStep, ShortestInit, ShortestStep, PTL DEF BMSpec
<1> QED
  BY <1>1, <1>2, MiningRunsTheLoop, TrainingInvInit, TrainingInvStep, MinersFollow, PTL DEF MiningSpec
=============================================================================
