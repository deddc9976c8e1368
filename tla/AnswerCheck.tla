---------------------------- MODULE AnswerCheck ----------------------------
(***************************************************************************)
(* One request of the command line, from its JSON to its exit code:        *)
(* ProblemSpec with compile_answer_check, PairCountSpec and                *)
(* PairCertificate with compile_pair_certificate, and main(), which calls  *)
(* the checker once and closes it.                                         *)
(*                                                                         *)
(* The goal is what the generated Lean source makes Lean decide.  The      *)
(* checker keeps the promise of TrustedVerdict, which CheckerRunner is     *)
(* shown to implement; besides, run_source may raise: subprocess.run       *)
(* decodes Lean's output as text, and a UnicodeDecodeError is a ValueError.*)
(***************************************************************************)
EXTENDS Expressions, FiniteSetsExt

CONSTANTS
  ScalarSpecs, PairSpecs, Answers, Certificates,   \* the requests explored
  MaxBound,      \* 10**6
  MaxTerms,      \* 10000, for terms, pairs, an axis and a pair count
  AnswerLimit    \* 10**1000

PairKind == "count_pairs"

ASSUME AnswerAssumption ==
  /\ {MaxBound, MaxTerms, AnswerLimit} \subseteq Nat
  /\ ScalarSpecs \subseteq
       [kind : STRING \ {PairKind}, expression : Tree, start : Int, stop : Int]
  /\ PairSpecs \subseteq
       [kind : {PairKind}, expression : Tree,
        x_start : Int, x_stop : Int, y_start : Int, y_stop : Int]
  /\ Answers \subseteq Int
  /\ Certificates \subseteq Seq(Int \X Int)

VARIABLES
  submission,    \* the JSON object on stdin
  stage,         \* how far main() has come
  goal,          \* the case about the compiled goal, once there is one
  status,        \* the status printed
  exitCode

answerVars == <<submission, stage, goal, status, exitCode>>

None    == "none"
Running == -1
Promise == INSTANCE TrustedVerdict
             WITH Requests <- {"r"}, claim <- [r |-> goal], verdict <- [r |-> status]

Spec       == submission.specification
Candidate  == submission.answer
Predicate(kind) == kind \in {"count", "minimum", PairKind}

-----------------------------------------------------------------------------
(* Construction: ProblemSpec, PairCountSpec and PairCertificate            *)

Bounds(start, stop) ==
  /\ 0 <= start /\ start <= stop /\ stop <= MaxBound
  /\ stop - start <= MaxTerms

ExpressionAllowed(s, variables) ==
  /\ ~ TooComplex(s.expression)
  /\ Kind(s.expression, variables) = IF Predicate(s.kind) THEN "prop" ELSE "int"

SpecAllowed(s) ==
  /\ s.kind \in {"evaluate", "count", "sum", "minimum"}
  /\ Bounds(s.start, s.stop)
  /\ s.kind = "evaluate" => s.start = 0 /\ s.stop = 0
  /\ s.kind = "minimum" => s.start # s.stop
  /\ ExpressionAllowed(s, IF s.kind = "evaluate" THEN {} ELSE {"x"})

PairSpecAllowed(s) ==
  /\ Bounds(s.x_start, s.x_stop)
  /\ Bounds(s.y_start, s.y_stop)
  /\ (s.x_stop - s.x_start) * (s.y_stop - s.y_start) <= MaxTerms
  /\ ExpressionAllowed(s, {"x", "y"})

Before(p, q) == p[1] < q[1] \/ (p[1] = q[1] /\ p[2] < q[2])

\* tuple(sorted(set(pairs))) == pairs
SortedSet(pairs) == \A i \in 1 .. Len(pairs) - 1 : Before(pairs[i], pairs[i + 1])

CertificateAllowed(pairs, answer) ==
  /\ answer \in 0 .. MaxTerms
  /\ Len(pairs) <= MaxTerms
  /\ \A i \in DOMAIN pairs : {pairs[i][1], pairs[i][2]} \subseteq 0 .. MaxBound
  /\ SortedSet(pairs)

Constructed ==
  IF Spec.kind = PairKind
  THEN PairSpecAllowed(Spec) /\ CertificateAllowed(submission.pairs, Candidate)
  ELSE SpecAllowed(Spec)

-----------------------------------------------------------------------------
(* The goals                                                               *)

ListRange(k) == [i \in 1 .. k |-> i - 1]

\* The elements of the list that are in the set, in the list's order.
Filter(list, kept) ==
  FoldLeft(LAMBDA l, x : IF x \in kept THEN Append(l, x) ELSE l, <<>>, list)

LeanAt(s, x) == Value(s.expression, [x |-> x], "lean")

EvaluateGoal(s, ans) == Value(s.expression, <<>>, "lean") = ans

SumGoal(s, ans) ==
  FoldLeft(LAMBDA acc, i : acc + LeanAt(s, i + s.start), 0,
           ListRange(s.stop - s.start)) = ans

CountGoal(s, ans) ==
  Len(Filter(ListRange(s.stop - s.start), {i \in Nat : LeanAt(s, i + s.start)})) = ans

(* Slip: only the values below the length of the interval are compared.    *)
UnshiftedMinimum(s, ans) ==
  /\ s.start <= ans /\ ans < s.stop
  /\ LeanAt(s, ans)
  /\ \A i \in 0 .. s.stop - s.start - 1 : i < ans => ~ LeanAt(s, i)

MinimumGoal(s, ans) ==
  /\ s.start <= ans /\ ans < s.stop
  /\ LeanAt(s, ans)
  /\ \A i \in 0 .. s.stop - s.start - 1 :
       i + s.start < ans => ~ LeanAt(s, i + s.start)

\* A certificate travels as text, "x,y" joined by ";": a numeral is its value.
Comma     == -1
Semicolon == -2

PairsText(pairs) ==
  LET text[k \in 0 .. Len(pairs)] ==
        IF k = 0 THEN <<>>
        ELSE text[k - 1] \o (IF k = 1 THEN <<>> ELSE <<Semicolon>>)
               \o <<pairs[k][1], Comma, pairs[k][2]>>
  IN  text[Len(pairs)]

SplitOn(text, separator) ==
  FoldLeft(LAMBDA parts, t :
             IF t = separator THEN Append(parts, <<>>)
             ELSE [parts EXCEPT ![Len(parts)] = Append(@, t)],
           << <<>> >>, text)

Undecoded == <<>>
DecodePair(text) ==
  LET parts == SplitOn(text, Comma)
  IN  IF /\ Len(parts) = 2
         /\ \A i \in {1, 2} : Len(parts[i]) = 1 /\ parts[i][1] \in 0 .. MaxBound
      THEN parts[1] \o parts[2] ELSE Undecoded

DecodePairs(text) ==
  IF text = <<>> THEN <<>>
  ELSE LET parts == SplitOn(text, Semicolon)
       IN  [i \in DOMAIN parts |-> DecodePair(parts[i])]

ValidPairs(s) ==
  LET rows == [i \in 1 .. s.x_stop - s.x_start |->
                [j \in 1 .. s.y_stop - s.y_start |->
                  <<i - 1 + s.x_start, j - 1 + s.y_start>>]]
  IN  Filter(FlattenSeq(rows),
             {p \in Nat \X Nat : Value(s.expression, [x |-> p[1], y |-> p[2]], "lean")})

PairGoal(s, pairs, answer) ==
  LET claimed == DecodePairs(PairsText(pairs))
  IN  /\ \A i \in DOMAIN claimed : claimed[i] # Undecoded
      /\ claimed = ValidPairs(s)
      /\ Len(claimed) = answer

Goal == CASE Spec.kind = "evaluate" -> EvaluateGoal(Spec, Candidate)
          [] Spec.kind = "sum"      -> SumGoal(Spec, Candidate)
          [] Spec.kind = "count"    -> CountGoal(Spec, Candidate)
          [] Spec.kind = "minimum"  -> MinimumGoal(Spec, Candidate)
          [] Spec.kind = PairKind   -> PairGoal(Spec, submission.pairs, Candidate)

-----------------------------------------------------------------------------
(* main()                                                                  *)

AnswerInit ==
  /\ \/ submission \in [specification : ScalarSpecs, answer : Answers,
                         wellFormed : BOOLEAN]
     \/ submission \in [specification : PairSpecs, answer : Answers,
                         pairs : Certificates, wellFormed : {TRUE}]
  /\ stage = "parse" /\ goal = None /\ status = "pending"
  /\ exitCode = Running

Reply(s, code) == status' = s /\ exitCode' = code /\ stage' = "close"

\* Any ValueError, KeyError, TypeError or RecursionError ends here.
InvalidInput == Reply("invalid_input", 2)

Parse ==
  /\ stage = "parse"
  /\ IF submission.wellFormed
     THEN stage' = "construct" /\ UNCHANGED <<status, exitCode>>
     ELSE InvalidInput
  /\ UNCHANGED <<submission, goal>>

Construct ==
  /\ stage = "construct"
  /\ IF Constructed
     THEN stage' = "compile" /\ UNCHANGED <<status, exitCode>>
     ELSE InvalidInput
  /\ UNCHANGED <<submission, goal>>

AnswerAllowed == Spec.kind = PairKind \/ (0 <= Candidate /\ Candidate < AnswerLimit)

Compile ==
  /\ stage = "compile"
  /\ IF AnswerAllowed
     THEN /\ goal' = IF Goal THEN "true" ELSE "false"
          /\ stage' = "check"
          /\ UNCHANGED <<status, exitCode>>
     ELSE InvalidInput /\ UNCHANGED goal
  /\ UNCHANGED <<submission>>

Checked ==
  /\ stage = "check"
  /\ \E verdict \in Promise!Permitted(goal) :
       Reply(verdict, IF verdict = "checked_success" THEN 0 ELSE 1)
  /\ UNCHANGED <<submission, goal>>

OutputUndecodable ==
  /\ stage = "check"
  /\ InvalidInput
  /\ UNCHANGED <<submission, goal>>

CloseRunner ==   \* finally: whatever happened, runner.close()
  /\ stage = "close"
  /\ stage' = "exited"
  /\ UNCHANGED <<submission, goal, status, exitCode>>

AnswerNext ==
  Parse \/ Construct \/ Compile \/ Checked \/ OutputUndecodable \/ CloseRunner

AnswerSpec == AnswerInit /\ [][AnswerNext]_answerVars

-----------------------------------------------------------------------------
(* What a specification means, without reference to the order or the form  *)
(* in which Lean computes it                                               *)

Meant(s, x) == Value(s.expression, [x |-> x], "python")

Satisfying(s) == {x \in s.start .. s.stop - 1 : Meant(s, x)}

MeantPairs(s) ==
  {p \in (s.x_start .. s.x_stop - 1) \X (s.y_start .. s.y_stop - 1) :
     Value(s.expression, [x |-> p[1], y |-> p[2]], "python")}

Right ==
  CASE Spec.kind = "evaluate" -> Candidate = Value(Spec.expression, <<>>, "python")
    [] Spec.kind = "sum" ->
         Candidate = MapThenSumSet(LAMBDA x : Meant(Spec, x), Spec.start .. Spec.stop - 1)
    [] Spec.kind = "count" -> Candidate = Cardinality(Satisfying(Spec))
    [] Spec.kind = "minimum" ->
         Satisfying(Spec) # {} /\ Candidate = Min(Satisfying(Spec))
    [] Spec.kind = PairKind ->
         /\ ToSet(submission.pairs) = MeantPairs(Spec)
         /\ Candidate = Cardinality(MeantPairs(Spec))

\* An accepted expression computes in Lean what its text means in Python,
\* at every point of the interval: division only by a positive literal, and
\* subtraction of naturals that may go below zero.
AcceptedExpressionsAgree ==
  stage = "check" /\ Spec.kind # PairKind =>
    \A x \in Spec.start .. Spec.stop - 1 : LeanAt(Spec, x) = Meant(Spec, x)

\* The command exits 0 only for the right answer (for pairs, with the whole
\* relation listed), and reports a mathematical rejection only of a wrong
\* one.
VerdictMeansSpec ==
  /\ exitCode = 0 => Right
  /\ status = "mathematical_rejection" => ~ Right

\* Invalid input is reported before Lean is run (TECHNICAL_ARTICLE.md: the
\* command "does not invoke Lean for those requests").
InvalidInputBeforeLean == status = "invalid_input" => goal = None
=============================================================================
