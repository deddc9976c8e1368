--------------------------- MODULE BerlekampMassey ---------------------------
(***************************************************************************)
(* berlekamp_massey: the shortest linear recurrence of an integer          *)
(* sequence, over the rationals.  One action is one pass of the loop; the  *)
(* three actions are the loop's three ways through a pass.                 *)
(*                                                                         *)
(* The lists of the code count from 0, sequences from 1: c[i] of the code  *)
(* is c[i + 1] here.                                                       *)
(***************************************************************************)
EXTENDS Rationals

CONSTANT Sequences   \* the sequences a recurrence is asked for

ASSUME SequencesAssumption == Sequences \subseteq Seq(Int)

VARIABLES
  sequence,
  n,                   \* the index the next pass of the loop looks at
  c, b,                \* connection polynomials: now, before the last growth
  linear_complexity,
  shift,
  discrepancy_scale

loopState == <<n, c, b, linear_complexity, shift, discrepancy_scale>>
bmVars    == <<sequence, loopState>>

BMInit ==
  /\ sequence \in Sequences
  /\ n = 0
  /\ c = <<One>>
  /\ b = <<One>>
  /\ linear_complexity = 0
  /\ shift = 1
  /\ discrepancy_scale = One

\* How far the recurrence so far is from predicting the term at index n.
Discrepancy ==
  Plus(Whole(sequence[n + 1]),
       Total([i \in 1 .. linear_complexity |->
                Times(c[i + 1], Whole(sequence[n - i + 1]))]))

(* Slips: the correction is not scaled; c is cut or padded to the reach    *)
(* of b.                                                                   *)
UnscaledFactor   == Minus(Discrepancy)
ReachOfB         == Len(b) + shift

\* Not `discrepancy == 0`, after which the pass is over.
Wrong == Discrepancy # Zero

Factor == Divide(Minus(Discrepancy), discrepancy_scale)

CorrectedLength == IF Len(c) < Len(b) + shift THEN Len(b) + shift ELSE Len(c)

\* c, padded with zeros where b reaches further, and the multiple of the
\* shifted b that cancels the discrepancy.
Corrected ==
  LET old(k) == IF k <= Len(c) THEN c[k] ELSE Zero
  IN  [k \in 1 .. CorrectedLength |->
         IF k - shift \in 1 .. Len(b)
         THEN Plus(old(k), Times(Factor, b[k - shift]))
         ELSE old(k)]

\* `2 * linear_complexity <= n`: no recurrence of this length can do.
MustGrow == 2 * linear_complexity <= n

ZeroDiscrepancy ==
  /\ n < Len(sequence)
  /\ ~ Wrong
  /\ n' = n + 1
  /\ shift' = shift + 1
  /\ UNCHANGED <<sequence, c, b, linear_complexity, discrepancy_scale>>

Grow ==
  /\ n < Len(sequence)
  /\ Wrong
  /\ MustGrow
  /\ n' = n + 1
  /\ c' = Corrected
  /\ b' = c
  /\ linear_complexity' = n + 1 - linear_complexity
  /\ shift' = 1
  /\ discrepancy_scale' = Discrepancy
  /\ UNCHANGED sequence

Correct ==
  /\ n < Len(sequence)
  /\ Wrong
  /\ ~ MustGrow
  /\ n' = n + 1
  /\ c' = Corrected
  /\ shift' = shift + 1
  /\ UNCHANGED <<sequence, b, linear_complexity, discrepancy_scale>>

BMNext == ZeroDiscrepancy \/ Grow \/ Correct

BMSpec == BMInit /\ [][BMNext]_bmVars

BMDone == n = Len(sequence)

\* The list the function returns.
Recurrence == [i \in 1 .. linear_complexity |-> Minus(c[i + 1])]

-----------------------------------------------------------------------------
(* Properties *)

\* Every subscript the loop and the return statement use is one of the list
\* it is used on: c has a coefficient for each of the last linear_complexity
\* terms, and there are that many terms.  (A short c would be an IndexError;
\* a negative index into the sequence would silently read its other end.)
IndicesInRange ==
  /\ linear_complexity \in 0 .. n
  /\ Len(c) = linear_complexity + 1

\* At the top of the loop the recurrence found so far reproduces every term
\* already read, from its own seeds on.
PrefixGenerated ==
  \A k \in linear_complexity .. n - 1 :
    Whole(sequence[k + 1]) =
      Total([i \in 1 .. linear_complexity |->
               Times(Recurrence[i], Whole(sequence[k - i + 1]))])
=============================================================================
