--------------------------- MODULE MCAnswerCheck ---------------------------
(* Requests over short intervals, at and beyond the limits, with           *)
(* expressions of up to two operators, accepted or not.                    *)
EXTENDS AnswerCheck

Atoms == {Num(0), Num(3), Var("x"), Node("neg", <<Num(2)>>)}
X     == Var("x")
Binary(ops, left, right) == {Node(o, <<a, b>>) : o \in ops, a \in left, b \in right}
Links(ops, left, right)  == {Chain(<<o>>, <<a, b>>) : o \in ops, a \in left, b \in right}
Minus2 == Node("neg", <<Num(2)>>)
Square == Node("pow", <<X, Num(2)>>)

MCTerms == Atoms \cup {Node("neg", <<X>>), Node("pos", <<Num(2)>>), Num(9), Node("other", <<X>>),
                      Node("pow", <<X, Num(3)>>)}
             \cup Binary(Arithmetic, {X, Minus2}, {Minus2, Num(0), Num(2)})
             \cup Binary({"floordiv", "mod", "pow"}, {Node("sub", <<X, Num(3)>>), Square}, {Num(2), X})
             \cup {Node("add", <<X, Chain(<<"lt">>, <<X, X>>)>>),
                   Node("add", <<Square, Node("add", <<Square, X>>)>>)}   \* too complex

MCTests == Links(Comparisons \cup {"in"}, {X}, {Num(0), Num(2)})
             \cup Links({"lt", "eq"}, MCTerms, {Num(0)})
             \cup {Chain(<<"lt", "le">>, <<Num(0), X, Num(2)>>), Node("not", <<X>>),
                   Node("not", <<Chain(<<"eq">>, <<X, Num(1)>>)>>)}
             \cup Binary({"and", "or"}, {Chain(<<"lt">>, <<Num(0), X>>)},
                         {Chain(<<"ne">>, <<X, Num(2)>>), X})

MCIntervals == {<<0, 0>>, <<0, 3>>, <<1, 4>>, <<3, 5>>, <<2, 1>>, <<-1, 1>>, <<4, 6>>, <<0, 5>>}

MCScalarSpecs ==
  { [kind |-> k, expression |-> e, start |-> i[1], stop |-> i[2]] :
      k \in {"evaluate", "count", "sum", "minimum", "maximum"},
      e \in MCTerms \cup MCTests, i \in MCIntervals }

Y == Var("y")
MCPairSpecs ==
  { [kind |-> PairKind, expression |-> e,
     x_start |-> x[1], x_stop |-> x[2], y_start |-> y[1], y_stop |-> y[2]] :
      e \in {Chain(<<"lt">>, <<X, Y>>), Chain(<<"eq">>, <<Node("add", <<X, Y>>), Num(2)>>),
             Chain(<<"ne">>, <<X, X>>), Node("add", <<X, Y>>), Chain(<<"le">>, <<X, Var("z")>>)},
      x \in {<<0, 2>>, <<0, 3>>, <<1, 1>>, <<2, 1>>}, y \in {<<0, 2>>, <<1, 3>>} }

Pairs == {<<0, 1>>, <<0, 2>>, <<1, 1>>, <<1, 2>>, <<2, 0>>, <<0, 6>>}
MCCertificates == {<<>>} \cup [1 .. 1 -> Pairs] \cup [1 .. 2 -> Pairs] \cup [1 .. 3 -> Pairs]

MCAnswers == {-1, 0, 1, 2, 3, 5, 8}
=============================================================================
