------------------------------- MODULE Mining -------------------------------
(***************************************************************************)
(* The discovery of formulas for a finite integer trace:                   *)
(* find_polynomial_candidate and find_bm_candidate.  Both fit the leading  *)
(* training terms of the trace and hold the last terms out to test the     *)
(* fit; the second runs the Berlekamp-Massey loop, step by step.           *)
(***************************************************************************)
EXTENDS BerlekampMassey, IntegerRecurrence, FiniteSets, SequencesExt, Combinatorics

CONSTANTS
  Traces,        \* the traces formulas are looked for
  Holdouts,      \* the values callers pass as holdout_terms
  Adversarial,   \* the sets callers pass as adversarial_indices
  MaxDegree

ASSUME MiningAssumption ==
  /\ Traces \subseteq Seq(Int)
  /\ Holdouts \subseteq Int
  /\ \A indices \in Adversarial : indices \subseteq Int
  /\ MaxDegree \in Nat

VARIABLES
  trace, holdoutTerms, adversarial,   \* the arguments of the call
  candidate                           \* what find_bm_candidate returned

call       == <<trace, holdoutTerms, adversarial>>
miningVars == <<call, candidate, bmVars, searchVars>>

None    == [kind |-> "none"]
Pending == [kind |-> "pending"]

Holdout(t, h) == LET h1 == IF h < Len(t) - 3 THEN h ELSE Len(t) - 3
                 IN  IF h1 < 0 THEN 0 ELSE h1
Train(t, h)   == SubSeq(t, 1, Len(t) - Holdout(t, h))
Checked(t, indices) == indices \cap (0 .. Len(t) - 1)   \* _normalize_indices

-----------------------------------------------------------------------------
(* Polynomials *)

\* The rows of the table: row i + 1 holds the i-th differences.
Differences(row) == [i \in 1 .. Len(row) - 1 |-> row[i + 1] - row[i]]

DifferenceTable(s) ==
  LET table[i \in 1 .. Len(s)] ==
        IF i = 1 THEN s ELSE Differences(table[i - 1])
  IN  table

(* Slip: the last entry of the row is not looked at.                       *)
AllButLastConstant(row) == \A i \in 1 .. Len(row) - 1 : row[i] = row[1]

ConstantRow(row) == \A i \in DOMAIN row : row[i] = row[1]

\* The degrees up to MaxDegree whose row of differences is constant.
Degrees(s) ==
  IF Len(s) < 3 THEN {}
  ELSE { d \in 1 .. Len(s) - 1 :
           /\ d <= MaxDegree
           /\ ConstantRow(DifferenceTable(s)[d + 1]) }

NewtonCoefficients(s, degree) ==
  [i \in 1 .. degree + 1 |-> DifferenceTable(s)[i][1]]

Comb(m, k) == IF k > m THEN 0 ELSE choose(m, k)

NewtonValue(coefficients, m) ==
  LET upTo[i \in 0 .. Len(coefficients)] ==
        IF i = 0 THEN 0 ELSE upTo[i - 1] + coefficients[i] * Comb(m, i - 1)
  IN  upTo[Len(coefficients)]

PolynomialCandidate(t, h, indices) ==
  LET train  == Train(t, h)
      degree == Min(Degrees(train))
      coefs  == NewtonCoefficients(train, degree)
      Fits(S) == \A i \in S : NewtonValue(coefs, i) = t[i + 1]
  IN  IF \/ Len(t) < 6
         \/ Degrees(train) = {}
         \/ \E i \in DOMAIN coefs : coefs[i] < 0
      THEN None
      ELSE [kind |-> "polynomial", coefficients |-> coefs,
            holdoutPassed     |-> Fits(Len(train) .. Len(t) - 1),
            adversarialPassed |-> Fits(Checked(t, indices))]

-----------------------------------------------------------------------------
(* The recurrence miner *)

\* evaluate_bm_recurrence: the terms are rebuilt from the seeds, in order.
RecurrenceValue(coefs, seeds, m) ==
  LET size   == Len(coefs)
      next(v) == LET upTo[i \in 0 .. size] ==
                       IF i = 0 THEN 0
                       ELSE upTo[i - 1] + coefs[i] * v[Len(v) - i + 1]
                 IN  upTo[size]
      values[k \in Nat] == IF k = 0 THEN seeds
                           ELSE Append(values[k - 1], next(values[k - 1]))
  IN  IF m < size THEN seeds[m + 1] ELSE values[m - size + 1][m + 1]

Numerators(rationals) == [i \in DOMAIN rationals |-> rationals[i].num]

\* What find_bm_candidate makes of the coefficients the loop left, and of
\* those the search found where it has to fall back on it.
BMCandidate(t, h, indices, fromLoop, fromSearch) ==
  LET train    == Train(t, h)
      integral == \A i \in DOMAIN fromLoop : Integral(fromLoop[i])
      coefs    == Numerators(IF integral THEN fromLoop ELSE fromSearch)
      size     == Len(coefs)
      seeds    == SubSeq(train, 1, size)
      Fits(S)  == \A i \in S : RecurrenceValue(coefs, seeds, i) = t[i + 1]
  IN  IF \/ fromLoop = <<>>
         \/ Len(train) < 2 * Len(fromLoop)
         \/ coefs = <<>>
         \/ Len(train) < 2 * size
         \/ \E i \in DOMAIN seeds : seeds[i] < 0
         \/ ~ Fits(size .. Len(train) - 1)
      THEN None
      ELSE [kind |-> "bm_recurrence", coefficients |-> coefs, seeds |-> seeds,
            source |-> IF integral THEN "berlekamp_massey"
                       ELSE "integer_recurrence_search",
            holdoutPassed     |-> Fits(Len(train) .. Len(t) - 1),
            adversarialPassed |-> Fits(Checked(t, indices))]

\* The search depends on the training terms only, so it is run before the
\* loop; its result is used where the code calls it.
MiningInit ==
  /\ trace \in Traces
  /\ holdoutTerms \in Holdouts
  /\ adversarial \in Adversarial
  /\ candidate = Pending
  /\ sequence = Train(trace, holdoutTerms)
  /\ SearchInit(sequence)
  /\ BMInit

TooShort ==
  /\ candidate = Pending
  /\ Len(trace) < 6
  /\ candidate' = None
  /\ UNCHANGED <<call, bmVars, searchVars>>

SearchStep ==
  /\ Len(trace) >= 6
  /\ SearchNext(sequence)
  /\ UNCHANGED <<call, candidate, bmVars>>

LoopStep ==
  /\ candidate = Pending
  /\ Len(trace) >= 6
  /\ ~ searching
  /\ BMNext
  /\ UNCHANGED <<call, candidate, searchVars>>

Mined ==
  /\ candidate = Pending
  /\ Len(trace) >= 6
  /\ ~ searching
  /\ BMDone
  /\ candidate' =
       BMCandidate(trace, holdoutTerms, adversarial, Recurrence, found)
  /\ UNCHANGED <<call, bmVars, searchVars>>

MiningNext == TooShort \/ SearchStep \/ LoopStep \/ Mined

MiningSpec == MiningInit /\ [][MiningNext]_miningVars

-----------------------------------------------------------------------------
(* What the formulas compute *)

CandidateValue(cand, m) ==
  IF cand.kind = "polynomial" THEN NewtonValue(cand.coefficients, m)
  ELSE RecurrenceValue(cand.coefficients, cand.seeds, m)

Nonnegative(s) == \A i \in DOMAIN s : s[i] >= 0

(* Slip: a negative coefficient loses its sign in the emitted text.        *)
UnsignedLeanValue(cand, m) ==
  RecurrenceValue([i \in DOMAIN cand.coefficients |->
                     Magnitude(cand.coefficients[i])], cand.seeds, m)

\* With a negative coefficient the emitted definition computes in Int and
\* returns its toNat; without one it computes in Nat.
LeanValue(cand, m) ==
  LET value == RecurrenceValue(cand.coefficients, cand.seeds, m)
  IN  IF Nonnegative(cand.coefficients) THEN value
      ELSE IF value < 0 THEN 0 ELSE value

-----------------------------------------------------------------------------
(* Properties *)

\* The two searches for a recurrence agree.  Where the training terms pin
\* the recurrence of the Berlekamp-Massey loop (twice its order or more of
\* them), elimination finds the same one if it is integral and finds none if
\* it is not: so no shorter recurrence fits, and the fallback of
\* find_bm_candidate never makes a candidate.
SearchesAgree ==
  BMDone /\ ~ searching /\ Len(Recurrence) \in 1 .. MaxOrder
    /\ Len(sequence) >= 2 * Len(Recurrence)
  => found =
       IF \A i \in DOMAIN Recurrence : Integral(Recurrence[i])
       THEN Recurrence ELSE <<>>

\* When both miners find a formula and the training terms outnumber the two
\* orders together, the formulas agree, on the trace and beyond it.
MinersAgree ==
  LET polynomial == PolynomialCandidate(trace, holdoutTerms, adversarial)
  IN  /\ candidate.kind = "bm_recurrence"
      /\ polynomial # None
      /\ Len(sequence) >=
           Len(candidate.coefficients) + Len(polynomial.coefficients)
      => \A m \in 0 .. Len(trace) + 2 :
           CandidateValue(polynomial, m) = CandidateValue(candidate, m)

\* The Lean definition emitted for a recurrence that passed its holdout
\* takes the value of every term of a trace of natural numbers, whether it
\* computes in Nat or, for a negative coefficient, in Int.
LeanReproducesTrace ==
  candidate.kind = "bm_recurrence" /\ candidate.holdoutPassed
    /\ Nonnegative(trace)
  => \A i \in DOMAIN trace : LeanValue(candidate, i - 1) = trace[i]
=============================================================================
