---------------------------- MODULE Expressions ----------------------------
(***************************************************************************)
(* The expression language of specifications: what _expression accepts,    *)
(* what the Lean text it emits computes, and what the Python text means.   *)
(*                                                                         *)
(* An expression is the tree that ast.parse returns, as records with a     *)
(* field op.  The leaves are "num" (field n) and "var" (field name); the   *)
(* other nodes have args, a sequence.  A chain a < b <= c is one node with *)
(* three arguments and two ops.                                            *)
(***************************************************************************)
EXTENDS Integers, Sequences, FiniteSets, SequencesExt

CONSTANTS
  MaxLiteral, MaxExponent,   \* 10**12 and 16
  MaxNodes,                  \* 100
  MaxDepth                   \* how deep the parser lets expressions nest

ASSUME ExpressionAssumption == {MaxLiteral, MaxExponent, MaxNodes, MaxDepth} \subseteq Nat

Unary       == {"neg", "pos", "not"}
Arithmetic  == {"add", "sub", "mul", "floordiv", "mod", "pow"}
Comparisons == {"eq", "ne", "lt", "le", "gt", "ge"}
Relations   == Comparisons \cup {"in"}       \* "in" for any unsupported one
Various     == {"and", "or", "other"}        \* "other" for any other node

Num(k)         == [op |-> "num", n |-> k]
Var(v)         == [op |-> "var", name |-> v]
Node(o, as)    == [op |-> o, args |-> as]
Chain(os, as)  == [op |-> "compare", ops |-> os, args |-> as]

Leaves == [op : {"num"}, n : Nat] \cup [op : {"var"}, name : STRING]

Chains(S) == {t \in [op : {"compare"}, ops : Seq(Relations), args : Seq(S)] :
                Len(t.args) = Len(t.ops) + 1}

Branches(S) ==
  [op : Unary, args : [1 .. 1 -> S]] \cup [op : Arithmetic, args : [1 .. 2 -> S]]
    \cup [op : Various, args : Seq(S)] \cup Chains(S)

\* What ast.parse may return.
Tree ==
  LET nested[k \in 0 .. MaxDepth] ==
        IF k = 0 THEN Leaves ELSE nested[k - 1] \cup Branches(nested[k - 1])
  IN  nested[MaxDepth]

\* The number of nodes that ast.walk finds: a name has a context beside it,
\* an operation its operator, a chain one for each link.
Nodes[t \in Tree] ==
  CASE t.op = "num" -> 1
    [] t.op = "var" -> 2
    [] OTHER -> FoldLeft(LAMBDA total, e : total + Nodes[e],
                         IF t.op = "compare" THEN 1 + Len(t.ops) ELSE 2, t.args)

TooComplex(e) == 1 + Nodes[e] > MaxNodes

HasPower[t \in Tree] ==
  /\ t.op \notin {"num", "var"}
  /\ t.op = "pow" \/ \E i \in DOMAIN t.args : HasPower[t.args[i]]

-----------------------------------------------------------------------------
(* visit: the kind of an accepted expression, "refused" for any other      *)

(* Slip: a literal with a sign will do, too.                               *)
SignedDivisor(e) ==
  \/ e.args[2].op = "num" /\ e.args[2].n > 0
  \/ e.args[2].op = "neg" /\ e.args[2].args[1].op = "num" /\ e.args[2].args[1].n > 0

PositiveDivisor(e) == e.args[2].op = "num" /\ e.args[2].n > 0
SmallExponent(e)   == e.args[2].op = "num" /\ e.args[2].n \in 0 .. MaxExponent

\* What the operator asks of its operands' syntax.
OperandsAllowed(e) ==
  /\ e.op \in {"floordiv", "mod"} => PositiveDivisor(e)
  /\ e.op = "pow" => SmallExponent(e) /\ ~ HasPower[e.args[1]]

\* The kind of an expression whose arguments are of the kinds ks.
KindOf(e, ks, variables) ==
  LET All(k) == \A i \in DOMAIN ks : ks[i] = k
  IN  CASE e.op = "num" -> IF e.n <= MaxLiteral THEN "int" ELSE "refused"
        [] e.op = "var" -> IF e.name \in variables THEN "int" ELSE "refused"
        [] e.op \in {"neg", "pos"} /\ All("int") -> "int"
        [] e.op = "not" /\ All("prop") -> "prop"
        [] e.op \in Arithmetic /\ All("int") /\ OperandsAllowed(e) -> "int"
        [] e.op = "compare" /\ All("int") /\ Range(e.ops) \subseteq Comparisons -> "prop"
        [] e.op \in {"and", "or"} /\ All("prop") -> "prop"
        [] OTHER -> "refused"

Kind(e, variables) ==
  LET kind[t \in Tree] == KindOf(t, [i \in DOMAIN t.args |-> kind[t.args[i]]], variables)
  IN  kind[e]

-----------------------------------------------------------------------------
Compare(op, a, b) ==
  CASE op = "eq" -> a = b [] op = "ne" -> a # b
    [] op = "lt" -> a < b [] op = "le" -> a <= b
    [] op = "gt" -> a > b [] op = "ge" -> a >= b

Power(a, b) ==
  LET power[k \in 0 .. b] == IF k = 0 THEN 1 ELSE a * power[k - 1]
  IN  power[b]

\* Integer division of Python rounds down; that of Lean leaves a remainder
\* that is not negative, and x / 0 = 0.
PythonDiv(a, b) == IF b > 0 THEN a \div b ELSE (-a) \div (-b)
LeanDiv(a, b)   == IF b = 0 THEN 0 ELSE IF b > 0 THEN a \div b ELSE -(a \div (-b))
Div(language, a, b) == IF language = "lean" THEN LeanDiv(a, b) ELSE PythonDiv(a, b)

\* The value of an expression whose arguments have the values a, where the
\* variables have those of env: the Lean text casts each, a Nat, to Int.  A
\* chain holds if each two neighbours compare.
ValueOf(e, a, env, language) ==
  CASE e.op = "num" -> e.n
    [] e.op = "var" -> env[e.name]
    [] e.op = "neg" -> -a[1]
    [] e.op = "pos" -> a[1]
    [] e.op = "not" -> ~ a[1]
    [] e.op = "add" -> a[1] + a[2]
    [] e.op = "sub" -> a[1] - a[2]
    [] e.op = "mul" -> a[1] * a[2]
    [] e.op = "pow" -> Power(a[1], a[2])
    [] e.op = "floordiv" -> Div(language, a[1], a[2])
    [] e.op = "mod" -> a[1] - a[2] * Div(language, a[1], a[2])
    [] e.op = "compare" -> \A i \in DOMAIN e.ops : Compare(e.ops[i], a[i], a[i + 1])
    [] e.op = "and" -> \A i \in DOMAIN a : a[i]
    [] e.op = "or"  -> \E i \in DOMAIN a : a[i]

Value(e, env, language) ==
  LET value[t \in Tree] == ValueOf(t, [i \in DOMAIN t.args |-> value[t.args[i]]], env, language)
  IN  value[e]
=============================================================================
