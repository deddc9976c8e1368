---------------------------- MODULE AnswerCheckProofs ----------------------------
(***************************************************************************)
(* That the verdict on an answer means what the specification says.  A     *)
(* library of trees, folds, lists and texts comes first: an expression     *)
(* has one kind and one value (by induction over the levels of the tree),  *)
(* the List.range, filter and fold of the Lean goal compute the            *)
(* cardinality, the minimum and the sum of the set of the specification,   *)
(* and the text of a certificate splits into the pairs it was made of.     *)
(***************************************************************************)
EXTENDS AnswerCheck, WellFoundedInduction, FiniteSetTheorems, TLAPS

\* A set of naturals that is not empty has a least element.
LEMMA LeastNatural ==
  ASSUME NEW T, T \in SUBSET Nat, T # {}
  PROVE  \E m \in T : \A k \in T : m <= k
<1>1. PICK m \in T : \A k \in T : ~(<<k, m>> \in OpToRel(<, Nat))
  BY NatLessThanWellFounded, WFMin
<1>2. \A k \in T : ~(k < m)
  BY <1>1 DEF OpToRel
<1> QED
  BY <1>2

\* What holds at 0 and goes on from each number holds of all.
LEMMA Inductive ==
  ASSUME NEW S, 0 \in S, \A k \in Nat : k \in S => k + 1 \in S
  PROVE  Nat \subseteq S
<1> SUFFICES ASSUME NEW x \in Nat \ S PROVE FALSE
  OBVIOUS
<1>1. PICK m \in Nat \ S : \A k \in Nat \ S : m <= k
  BY LeastNatural
<1>2. m # 0 /\ m - 1 \in Nat
  BY <1>1
<1>3. m - 1 \in S
  BY <1>1, <1>2
<1> QED
  BY <1>1, <1>2, <1>3

-----------------------------------------------------------------------------
(* Trees.                                                                  *)
Level(f, k) == IF k = 0 THEN Leaves ELSE f[k - 1] \cup Branches(f[k - 1])

\* The levels of the tree, as far as any depth.
LEMMA LevelsExist == \A k \in Nat : \E f : f = [j \in 0 .. k |-> Level(f, j)]
<1> DEFINE S == {k \in Nat : \E f : f = [j \in 0 .. k |-> Level(f, j)]}
<1>1. 0 \in S
  <2> DEFINE f == [j \in 0 .. 0 |-> Leaves]
  <2>1. f = [j \in 0 .. 0 |-> Level(f, j)]
    BY DEF Level
  <2> QED
    BY <2>1
<1>2. ASSUME NEW k \in Nat, k \in S PROVE k + 1 \in S
  <2>1. PICK f : f = [j \in 0 .. k |-> Level(f, j)]
    BY <1>2
  <2> DEFINE g == [j \in 0 .. k + 1 |-> IF j = k + 1 THEN Level(f, k + 1) ELSE f[j]]
  <2>2. ASSUME NEW j \in 0 .. k + 1 PROVE g[j] = Level(g, j)
    <3>1. CASE j = 0
      BY <3>1, <2>1 DEF Level
    <3>2. CASE j # 0
      <4>1. g[j - 1] = f[j - 1]
        BY <3>2
      <4>2. Level(g, j) = Level(f, j)
        BY <3>2, <4>1 DEF Level
      <4>3. CASE j = k + 1
        BY <4>2, <4>3
      <4>4. CASE j # k + 1
        BY <4>2, <4>4, <2>1
      <4> QED
        BY <4>3, <4>4
    <3> QED
      BY <3>1, <3>2
  <2>3. g = [j \in 0 .. k + 1 |-> Level(g, j)]
    BY <2>2
  <2> HIDE DEF g
  <2> QED
    BY <2>3
<1> HIDE DEF S
<1>3. Nat \subseteq S
  BY <1>1, <1>2, Inductive
<1> QED
  BY <1>3 DEF S

\* Trees come in levels.
LEMMA TreeLevels ==
  \E f : /\ f[0] = Leaves
         /\ \A k \in 1 .. MaxDepth : f[k] = f[k - 1] \cup Branches(f[k - 1])
         /\ Tree = f[MaxDepth]
<1>1. MaxDepth \in Nat
  BY ExpressionAssumption
<1> DEFINE f == CHOOSE g : g = [j \in 0 .. MaxDepth |-> IF j = 0 THEN Leaves ELSE g[j - 1] \cup Branches(g[j - 1])]
<1>2. \E g : g = [j \in 0 .. MaxDepth |-> IF j = 0 THEN Leaves ELSE g[j - 1] \cup Branches(g[j - 1])]
  BY <1>1, LevelsExist DEF Level
<1>3. f = [j \in 0 .. MaxDepth |-> IF j = 0 THEN Leaves ELSE f[j - 1] \cup Branches(f[j - 1])]
  BY <1>2
<1>4. Tree = f[MaxDepth]
  BY DEF Tree
<1> HIDE DEF f
<1>5. f[0] = Leaves
  BY <1>1, <1>3
<1>6. ASSUME NEW k \in 1 .. MaxDepth PROVE f[k] = f[k - 1] \cup Branches(f[k - 1])
  BY <1>1, <1>3, k \in 0 .. MaxDepth, k # 0
<1> QED
  BY <1>4, <1>5, <1>6

\* More subtrees make more trees.
LEMMA BranchesGrow ==
  ASSUME NEW S, NEW T, S \subseteq T
  PROVE  Branches(S) \subseteq Branches(T)
<1>1. Seq(S) \subseteq Seq(T) /\ [1 .. 1 -> S] \subseteq [1 .. 1 -> T] /\ [1 .. 2 -> S] \subseteq [1 .. 2 -> T]
  OBVIOUS
<1>2. Chains(S) \subseteq Chains(T)
  BY <1>1 DEF Chains
<1>3. /\ [op : Unary, args : [1 .. 1 -> S]] \subseteq [op : Unary, args : [1 .. 1 -> T]]
      /\ [op : Arithmetic, args : [1 .. 2 -> S]] \subseteq [op : Arithmetic, args : [1 .. 2 -> T]]
      /\ [op : Various, args : Seq(S)] \subseteq [op : Various, args : Seq(T)]
  BY <1>1
<1> QED
  BY <1>2, <1>3 DEF Branches

Leaf(t) == t.op \in {"num", "var"}

\* What a branch has: an operation and arguments from the set.
LEMMA BranchParts ==
  ASSUME NEW S, NEW t \in Branches(S)
  PROVE  /\ ~ Leaf(t)
         /\ t.args \in Seq(S)
         /\ \A i \in DOMAIN t.args : t.args[i] \in S
<1>1. ASSUME NEW n \in Nat, NEW f \in [1 .. n -> S] PROVE f \in Seq(S)
  OBVIOUS
<1>2. CASE t \in [op : Unary, args : [1 .. 1 -> S]]
  BY <1>2, <1>1 DEF Leaf, Unary
<1>3. CASE t \in [op : Arithmetic, args : [1 .. 2 -> S]]
  BY <1>3, <1>1 DEF Leaf, Arithmetic
<1>4. CASE t \in [op : Various, args : Seq(S)]
  BY <1>4 DEF Leaf, Various
<1>5. CASE t \in Chains(S)
  BY <1>5 DEF Leaf, Chains
<1> QED
  BY <1>2, <1>3, <1>4, <1>5 DEF Branches

\* A leaf has no parts.
LEMMA LeavesAreLeaves == \A t \in Leaves : Leaf(t)
  BY DEF Leaves, Leaf

\* Each level holds the levels below it.
LEMMA LevelsWithin ==
  ASSUME NEW f, NEW m \in Nat, \A k \in 1 .. m : f[k] = f[k - 1] \cup Branches(f[k - 1])
  PROVE  \A k \in 0 .. m : f[k] \subseteq f[m]
<1> DEFINE U == {k \in Nat : k <= m => f[m - k] \subseteq f[m]}
<1>1. 0 \in U
  OBVIOUS
<1>2. ASSUME NEW k \in Nat, k \in U PROVE k + 1 \in U
  <2> SUFFICES ASSUME k + 1 <= m PROVE f[m - (k + 1)] \subseteq f[m]
    OBVIOUS
  <2>1. f[m - k] = f[m - k - 1] \cup Branches(f[m - k - 1]) /\ m - (k + 1) = m - k - 1
    OBVIOUS
  <2> QED
    BY <2>1, <1>2
<1>3. Nat \subseteq U
  <2> HIDE DEF U
  <2> QED
    BY <1>1, <1>2, Inductive
<1> SUFFICES ASSUME NEW k \in 0 .. m PROVE f[k] \subseteq f[m]
  OBVIOUS
<1>4. m - k \in U /\ m - (m - k) = k /\ m - k <= m
  BY <1>3
<1> QED
  BY <1>4

\* Up to a level, trees are leaves or have arguments of the level below.
LEMMA LevelInduction ==
  ASSUME NEW f, f[0] = Leaves, NEW m \in Nat,
         \A k \in 1 .. m : f[k] = f[k - 1] \cup Branches(f[k - 1]),
         NEW S, Leaves \subseteq S,
         \A t \in f[m] : t \in Branches(f[m]) /\ (\A i \in DOMAIN t.args : t.args[i] \in S) => t \in S
  PROVE  f[m] \subseteq S
<1> DEFINE V == {k \in Nat : k <= m => f[k] \subseteq S}
<1>1. 0 \in V
  OBVIOUS
<1>2. ASSUME NEW k \in Nat, k \in V PROVE k + 1 \in V
  <2> SUFFICES ASSUME k + 1 <= m, NEW t \in f[k + 1] PROVE t \in S
    OBVIOUS
  <2>1. f[k + 1] = f[k] \cup Branches(f[k]) /\ f[k] \subseteq S /\ f[k] \subseteq f[m] /\ t \in f[m]
    <3>1. k + 1 - 1 = k /\ k + 1 \in 1 .. m
      OBVIOUS
    <3> QED
      BY LevelsWithin, <1>2, <3>1
  <2>2. CASE t \in Branches(f[k])
    <3>1. t \in Branches(f[m])
      BY <2>1, <2>2, BranchesGrow
    <3> QED
      BY <2>1, <2>2, <3>1, BranchParts
  <2> QED
    BY <2>1, <2>2
<1>3. Nat \subseteq V
  <2> HIDE DEF V
  <2> QED
    BY <1>1, <1>2, Inductive
<1> QED
  BY <1>3

\* What holds of the leaves, and of a branch whose parts it holds of, holds of every tree.
LEMMA TreeInduction ==
  ASSUME NEW S, Leaves \subseteq S,
         \A t \in Tree : t \in Branches(Tree) /\ (\A i \in DOMAIN t.args : t.args[i] \in S) => t \in S
  PROVE  Tree \subseteq S
<1>1. PICK f : /\ f[0] = Leaves
               /\ \A k \in 1 .. MaxDepth : f[k] = f[k - 1] \cup Branches(f[k - 1])
               /\ Tree = f[MaxDepth]
  BY TreeLevels
<1>2. MaxDepth \in Nat
  BY ExpressionAssumption
<1> QED
  BY <1>1, <1>2, LevelInduction

\* A literal and a name are trees.
LEMMA LeavesAreTrees == Leaves \subseteq Tree
<1>1. PICK f : /\ f[0] = Leaves
               /\ \A k \in 1 .. MaxDepth : f[k] = f[k - 1] \cup Branches(f[k - 1])
               /\ Tree = f[MaxDepth]
  BY TreeLevels
<1>2. MaxDepth \in Nat
  BY ExpressionAssumption
<1>3. f[0] \subseteq f[MaxDepth]
  BY <1>1, <1>2, LevelsWithin
<1> QED
  BY <1>1, <1>3

\* A tree is a leaf, or a branch with trees for arguments.
LEMMA TreeParts == \A t \in Tree : t \in Leaves \/ t \in Branches(Tree)
<1> DEFINE S == {t \in Tree : t \in Leaves \/ t \in Branches(Tree)}
<1>1. Leaves \subseteq Tree
  BY LeavesAreTrees
<1>2. Leaves \subseteq S
  BY <1>1
<1>3. \A t \in Tree : t \in Branches(Tree) /\ (\A i \in DOMAIN t.args : t.args[i] \in S) => t \in S
  OBVIOUS
<1>4. Tree \subseteq S
  <2> HIDE DEF S
  <2> QED
    BY <1>2, <1>3, TreeInduction
<1> QED
  BY <1>4

IsKindTable(g, A, variables) == g = [t \in A |-> KindOf(t, [i \in DOMAIN t.args |-> g[t.args[i]]], variables)]

\* The kind of a leaf does not depend on parts.
LEMMA KindOfLeaf ==
  ASSUME NEW variables, NEW t \in Leaves, NEW a, NEW b
  PROVE  KindOf(t, a, variables) = KindOf(t, b, variables)
<1>1. t.op = "num" \/ t.op = "var"
  BY DEF Leaves
<1> QED
  BY <1>1 DEF KindOf

\* A table of kinds extends to the branches over its trees.
LEMMA KindExtends ==
  ASSUME NEW variables, NEW A, A \subseteq Leaves \cup Branches(A),
         NEW f, IsKindTable(f, A, variables)
  PROVE  \E g : IsKindTable(g, A \cup Branches(A), variables)
<1> DEFINE F(h, t) == KindOf(t, [i \in DOMAIN t.args |-> h[t.args[i]]], variables)
           g == [t \in A \cup Branches(A) |-> IF t \in A THEN f[t] ELSE F(f, t)]
<1>1. ASSUME NEW t \in A \cup Branches(A) PROVE g[t] = F(f, t)
  BY <1>1 DEF IsKindTable
<1>2. ASSUME NEW t \in A \cup Branches(A) PROVE F(g, t) = F(f, t)
  <2>1. CASE t \in Leaves
    BY <2>1, KindOfLeaf
  <2>2. CASE t \in Branches(A)
    <3>1. \A i \in DOMAIN t.args : t.args[i] \in A
      BY <2>2, BranchParts
    <3>2. \A i \in DOMAIN t.args : g[t.args[i]] = f[t.args[i]]
      BY <3>1
    <3> HIDE DEF g
    <3>3. [i \in DOMAIN t.args |-> g[t.args[i]]] = [i \in DOMAIN t.args |-> f[t.args[i]]]
      BY <3>2
    <3> QED
      BY <3>3
  <2> QED
    BY <2>1, <2>2
<1>3. g = [t \in A \cup Branches(A) |-> F(g, t)]
  BY <1>1, <1>2
<1>4. IsKindTable(g, A \cup Branches(A), variables)
  BY <1>3 DEF IsKindTable
<1> QED
  BY <1>4

\* The table of kinds of all trees exists.
LEMMA KindTableExists ==
  ASSUME NEW variables
  PROVE  \E g : IsKindTable(g, Tree, variables)
<1> DEFINE T(A) == \E g : IsKindTable(g, A, variables)
<1>1. PICK f : /\ f[0] = Leaves
               /\ \A k \in 1 .. MaxDepth : f[k] = f[k - 1] \cup Branches(f[k - 1])
               /\ Tree = f[MaxDepth]
  BY TreeLevels
<1>2. MaxDepth \in Nat
  BY ExpressionAssumption
<1> DEFINE S == {k \in Nat : k <= MaxDepth => f[k] \subseteq Leaves \cup Branches(f[k]) /\ T(f[k])}
<1>3. 0 \in S
  <2> DEFINE g == [t \in Leaves |-> KindOf(t, <<>>, variables)]
  <2>1. g = [t \in Leaves |-> KindOf(t, [i \in DOMAIN t.args |-> g[t.args[i]]], variables)]
    <3>1. \A t \in Leaves : \A a, b : KindOf(t, a, variables) = KindOf(t, b, variables)
      BY KindOfLeaf
    <3> QED
      BY <3>1
  <2>2. T(Leaves)
    BY <2>1 DEF IsKindTable
  <2> QED
    BY <1>1, <2>2
<1>4. ASSUME NEW k \in Nat, k \in S PROVE k + 1 \in S
  <2> SUFFICES ASSUME k + 1 <= MaxDepth
               PROVE  f[k + 1] \subseteq Leaves \cup Branches(f[k + 1]) /\ T(f[k + 1])
    OBVIOUS
  <2>1. f[k + 1] = f[k] \cup Branches(f[k])
    <3>1. k + 1 - 1 = k /\ k + 1 \in 1 .. MaxDepth
      BY <1>2
    <3> QED
      BY <1>1, <3>1
  <2>2. f[k] \subseteq Leaves \cup Branches(f[k]) /\ T(f[k])
    <3>1. k <= MaxDepth
      BY <1>2
    <3> HIDE DEF T
    <3> QED
      BY <1>4, <3>1
  <2>3. f[k + 1] \subseteq Leaves \cup Branches(f[k + 1])
    <3>1. Branches(f[k]) \subseteq Branches(f[k + 1])
      BY <2>1, BranchesGrow
    <3> QED
      BY <2>1, <2>2, <3>1
  <2>4. T(f[k] \cup Branches(f[k]))
    BY <2>2, KindExtends
  <2> QED
    BY <2>1, <2>3, <2>4
<1>5. Nat \subseteq S
  <2> HIDE DEF S
  <2> QED
    BY <1>3, <1>4, Inductive
<1> QED
  BY <1>1, <1>2, <1>5

\* The recursive definition is one by parts.
LEMMA KindByParts ==
  ASSUME NEW variables, NEW t \in Tree
  PROVE  Kind(t, variables) = KindOf(t, [i \in DOMAIN t.args |-> Kind(t.args[i], variables)], variables)
<1> DEFINE v == CHOOSE g : IsKindTable(g, Tree, variables)
<1>1. IsKindTable(v, Tree, variables)
  BY KindTableExists
<1>2. \A e : Kind(e, variables) = v[e]
  BY DEF Kind, IsKindTable
<1> HIDE DEF v
<1>3. v[t] = KindOf(t, [i \in DOMAIN t.args |-> v[t.args[i]]], variables)
  BY <1>1 DEF IsKindTable
<1>4. [i \in DOMAIN t.args |-> Kind(t.args[i], variables)] = [i \in DOMAIN t.args |-> v[t.args[i]]]
  BY <1>2
<1> QED
  BY <1>2, <1>3, <1>4

IsValueTable(g, A, env, language) == g = [t \in A |-> ValueOf(t, [i \in DOMAIN t.args |-> g[t.args[i]]], env, language)]

\* The value of a leaf does not depend on parts.
LEMMA ValueOfLeaf ==
  ASSUME NEW env, NEW language, NEW t \in Leaves, NEW a, NEW b
  PROVE  ValueOf(t, a, env, language) = ValueOf(t, b, env, language)
<1>1. t.op = "num" \/ t.op = "var"
  BY DEF Leaves
<1> QED
  BY <1>1 DEF ValueOf

\* A table of values extends to the branches over its trees.
LEMMA ValueExtends ==
  ASSUME NEW env, NEW language, NEW A, A \subseteq Leaves \cup Branches(A),
         NEW f, IsValueTable(f, A, env, language)
  PROVE  \E g : IsValueTable(g, A \cup Branches(A), env, language)
<1> DEFINE F(h, t) == ValueOf(t, [i \in DOMAIN t.args |-> h[t.args[i]]], env, language)
           g == [t \in A \cup Branches(A) |-> IF t \in A THEN f[t] ELSE F(f, t)]
<1>1. ASSUME NEW t \in A \cup Branches(A) PROVE g[t] = F(f, t)
  BY <1>1 DEF IsValueTable
<1>2. ASSUME NEW t \in A \cup Branches(A) PROVE F(g, t) = F(f, t)
  <2>1. CASE t \in Leaves
    BY <2>1, ValueOfLeaf
  <2>2. CASE t \in Branches(A)
    <3>1. \A i \in DOMAIN t.args : t.args[i] \in A
      BY <2>2, BranchParts
    <3>2. \A i \in DOMAIN t.args : g[t.args[i]] = f[t.args[i]]
      BY <3>1
    <3> HIDE DEF g
    <3>3. [i \in DOMAIN t.args |-> g[t.args[i]]] = [i \in DOMAIN t.args |-> f[t.args[i]]]
      BY <3>2
    <3> QED
      BY <3>3
  <2> QED
    BY <2>1, <2>2
<1>3. g = [t \in A \cup Branches(A) |-> F(g, t)]
  BY <1>1, <1>2
<1>4. IsValueTable(g, A \cup Branches(A), env, language)
  BY <1>3 DEF IsValueTable
<1> QED
  BY <1>4

\* The table of values of all trees exists.
LEMMA ValueTableExists ==
  ASSUME NEW env, NEW language
  PROVE  \E g : IsValueTable(g, Tree, env, language)
<1> DEFINE T(A) == \E g : IsValueTable(g, A, env, language)
<1>1. PICK f : /\ f[0] = Leaves
               /\ \A k \in 1 .. MaxDepth : f[k] = f[k - 1] \cup Branches(f[k - 1])
               /\ Tree = f[MaxDepth]
  BY TreeLevels
<1>2. MaxDepth \in Nat
  BY ExpressionAssumption
<1> DEFINE S == {k \in Nat : k <= MaxDepth => f[k] \subseteq Leaves \cup Branches(f[k]) /\ T(f[k])}
<1>3. 0 \in S
  <2> DEFINE g == [t \in Leaves |-> ValueOf(t, <<>>, env, language)]
  <2>1. g = [t \in Leaves |-> ValueOf(t, [i \in DOMAIN t.args |-> g[t.args[i]]], env, language)]
    <3>1. \A t \in Leaves : \A a, b : ValueOf(t, a, env, language) = ValueOf(t, b, env, language)
      BY ValueOfLeaf
    <3> QED
      BY <3>1
  <2>2. T(Leaves)
    BY <2>1 DEF IsValueTable
  <2> QED
    BY <1>1, <2>2
<1>4. ASSUME NEW k \in Nat, k \in S PROVE k + 1 \in S
  <2> SUFFICES ASSUME k + 1 <= MaxDepth
               PROVE  f[k + 1] \subseteq Leaves \cup Branches(f[k + 1]) /\ T(f[k + 1])
    OBVIOUS
  <2>1. f[k + 1] = f[k] \cup Branches(f[k])
    <3>1. k + 1 - 1 = k /\ k + 1 \in 1 .. MaxDepth
      BY <1>2
    <3> QED
      BY <1>1, <3>1
  <2>2. f[k] \subseteq Leaves \cup Branches(f[k]) /\ T(f[k])
    <3>1. k <= MaxDepth
      BY <1>2
    <3> HIDE DEF T
    <3> QED
      BY <1>4, <3>1
  <2>3. f[k + 1] \subseteq Leaves \cup Branches(f[k + 1])
    <3>1. Branches(f[k]) \subseteq Branches(f[k + 1])
      BY <2>1, BranchesGrow
    <3> QED
      BY <2>1, <2>2, <3>1
  <2>4. T(f[k] \cup Branches(f[k]))
    BY <2>2, ValueExtends
  <2> QED
    BY <2>1, <2>3, <2>4
<1>5. Nat \subseteq S
  <2> HIDE DEF S
  <2> QED
    BY <1>3, <1>4, Inductive
<1> QED
  BY <1>1, <1>2, <1>5

\* The recursive definition is one by parts.
LEMMA ValueByParts ==
  ASSUME NEW env, NEW language, NEW t \in Tree
  PROVE  Value(t, env, language) = ValueOf(t, [i \in DOMAIN t.args |-> Value(t.args[i], env, language)], env, language)
<1> DEFINE v == CHOOSE g : IsValueTable(g, Tree, env, language)
<1>1. IsValueTable(v, Tree, env, language)
  BY ValueTableExists
<1>2. \A e : Value(e, env, language) = v[e]
  BY DEF Value, IsValueTable
<1> HIDE DEF v
<1>3. v[t] = ValueOf(t, [i \in DOMAIN t.args |-> v[t.args[i]]], env, language)
  BY <1>1 DEF IsValueTable
<1>4. [i \in DOMAIN t.args |-> Value(t.args[i], env, language)] = [i \in DOMAIN t.args |-> v[t.args[i]]]
  BY <1>2
<1> QED
  BY <1>2, <1>3, <1>4

\* A power of an integer to a natural number is an integer.
LEMMA PowerType == \A a \in Int : \A b \in Nat : Power(a, b) \in Int
<1> SUFFICES ASSUME NEW a \in Int, NEW b \in Nat PROVE Power(a, b) \in Int
  OBVIOUS
<1> DEFINE step(f, k) == IF k = 0 THEN 1 ELSE a * f[k - 1]
           E(k) == \E f \in [0 .. k -> Int] : f = [j \in 0 .. k |-> step(f, j)]
           S == {k \in Nat : E(k)}
<1>1. 0 \in S
  <2> DEFINE f == [j \in 0 .. 0 |-> 1]
  <2>1. f = [j \in 0 .. 0 |-> step(f, j)] /\ f \in [0 .. 0 -> Int]
    OBVIOUS
  <2> QED
    BY <2>1
<1>2. ASSUME NEW k \in Nat, k \in S PROVE k + 1 \in S
  <2>1. PICK f \in [0 .. k -> Int] : f = [j \in 0 .. k |-> step(f, j)]
    BY <1>2
  <2> DEFINE g == [j \in 0 .. k + 1 |-> IF j = k + 1 THEN a * f[k] ELSE f[j]]
  <2>2. ASSUME NEW j \in 0 .. k + 1 PROVE g[j] = step(g, j) /\ g[j] \in Int
    <3>1. CASE j = k + 1
      <4>1. j # 0 /\ j - 1 = k /\ g[k] = f[k] /\ f[k] \in Int /\ g[j] = a * f[k]
        BY <3>1
      <4>2. a * f[k] \in Int
        BY <4>1
      <4> QED
        BY <4>1, <4>2
    <3>2. CASE j # k + 1 /\ j = 0
      BY <3>2, <2>1
    <3>3. CASE j # k + 1 /\ j # 0
      <4>1. j \in 0 .. k /\ j - 1 \in 0 .. k /\ g[j] = f[j] /\ g[j - 1] = f[j - 1]
        BY <3>3
      <4>2. f[j] = a * f[j - 1] /\ f[j] \in Int
        BY <2>1, <3>3, <4>1
      <4> QED
        BY <3>3, <4>1, <4>2
    <3> QED
      BY <3>1, <3>2, <3>3
  <2>3. g = [j \in 0 .. k + 1 |-> step(g, j)] /\ g \in [0 .. k + 1 -> Int]
    BY <2>2
  <2> HIDE DEF g, step
  <2>4. E(k + 1)
    BY <2>3
  <2> HIDE DEF E
  <2> QED
    BY <2>4
<1>3. Nat \subseteq S
  <2> HIDE DEF S
  <2> QED
    BY <1>1, <1>2, Inductive
<1>4. PICK f \in [0 .. b -> Int] : f = [j \in 0 .. b |-> step(f, j)]
  BY <1>3
<1> DEFINE p == CHOOSE g : g = [j \in 0 .. b |-> IF j = 0 THEN 1 ELSE a * g[j - 1]]
<1>5. p = [j \in 0 .. b |-> IF j = 0 THEN 1 ELSE a * p[j - 1]]
  BY <1>4
<1>6. Power(a, b) = p[b]
  BY DEF Power
<1> HIDE DEF p
<1> DEFINE P == {k \in Nat : k <= b => p[k] \in Int}
<1>7. 0 \in P
  BY <1>5
<1>8. ASSUME NEW k \in Nat, k \in P PROVE k + 1 \in P
  <2> SUFFICES ASSUME k + 1 <= b PROVE p[k + 1] \in Int
    OBVIOUS
  <2>1. p[k + 1] = a * p[k]
    <3>1. k + 1 \in 0 .. b /\ k + 1 # 0 /\ k + 1 - 1 = k
      OBVIOUS
    <3> QED
      BY <1>5, <3>1
  <2>2. p[k] \in Int
    BY <1>8
  <2> QED
    BY <2>1, <2>2
<1>9. Nat \subseteq P
  <2> HIDE DEF P
  <2> QED
    BY <1>7, <1>8, Inductive
<1> QED
  BY <1>6, <1>9

-----------------------------------------------------------------------------
(* Accepted expressions.                                                   *)

\* A kind's values.
OfKind(k, v) == (k = "int" => v \in Int) /\ (k = "prop" => v \in BOOLEAN)

Accepted(k) == k = "int" \/ k = "prop"

\* Divisors and exponents are literals.
LEMMA LiteralValue ==
  ASSUME NEW t \in Tree, t.op = "num", NEW env, NEW language
  PROVE  Value(t, env, language) = t.n
<1>1. ValueOf(t, [i \in DOMAIN t.args |-> Value(t.args[i], env, language)], env, language) = t.n
  BY DEF ValueOf
<1> QED
  BY <1>1, ValueByParts

\* An accepted operation has accepted operands.
LEMMA AcceptedOperands ==
  ASSUME NEW t \in Branches(Tree), NEW ks, DOMAIN ks = DOMAIN t.args, NEW variables,
         Accepted(KindOf(t, ks, variables))
  PROVE  \A i \in DOMAIN t.args : Accepted(ks[i])
<1>1. ~ Leaf(t)
  BY BranchParts
<1> QED
  BY <1>1 DEF KindOf, Accepted, Leaf

\* The values of the arguments fit their kinds.
Fit(ks, a) == DOMAIN a = DOMAIN ks /\ \A i \in DOMAIN ks : OfKind(ks[i], a[i])

\* A literal divisor or exponent is the value of the second operand.
LiteralOperands(t, a) ==
  t.op \in Arithmetic /\ t.args[2].op = "num" => a[2] = t.args[2].n

\* An operator has as many operands as it takes.
LEMMA Lengths ==
  ASSUME NEW t \in Branches(Tree)
  PROVE  /\ t.op \in Unary => DOMAIN t.args = 1 .. 1
         /\ t.op \in Arithmetic => DOMAIN t.args = 1 .. 2
         /\ t.op = "compare" => t.ops \in Seq(Relations) /\ DOMAIN t.args = 1 .. Len(t.ops) + 1
<1>1. CASE t \in [op : Unary, args : [1 .. 1 -> Tree]]
  BY <1>1 DEF Unary, Arithmetic
<1>2. CASE t \in [op : Arithmetic, args : [1 .. 2 -> Tree]]
  BY <1>2 DEF Unary, Arithmetic
<1>3. CASE t \in [op : Various, args : Seq(Tree)]
  BY <1>3 DEF Various, Unary, Arithmetic
<1>4. CASE t \in Chains(Tree)
  <2>1. t.op = "compare" /\ t.ops \in Seq(Relations) /\ t.args \in Seq(Tree) /\ Len(t.args) = Len(t.ops) + 1
    BY <1>4 DEF Chains
  <2> QED
    BY <2>1 DEF Unary, Arithmetic
<1> QED
  BY <1>1, <1>2, <1>3, <1>4 DEF Branches

\* Whole division is the same in both languages where the divisor is positive.
LEMMA DivAgrees ==
  ASSUME NEW a \in Int, NEW b \in Int, b > 0
  PROVE  Div("lean", a, b) = Div("python", a, b) /\ Div("python", a, b) \in Int
  BY DEF Div, LeanDiv, PythonDiv

\* The operation of an accepted branch means the same in both languages, and
\* yields a value of its kind.
LEMMA BranchAgrees ==
  ASSUME NEW t \in Branches(Tree), NEW variables, NEW env,
         NEW ks, DOMAIN ks = DOMAIN t.args, NEW a, Fit(ks, a), LiteralOperands(t, a),
         Accepted(KindOf(t, ks, variables))
  PROVE  /\ ValueOf(t, a, env, "lean") = ValueOf(t, a, env, "python")
         /\ OfKind(KindOf(t, ks, variables), ValueOf(t, a, env, "python"))
<1> DEFINE k == KindOf(t, ks, variables)
           All(s) == \A i \in DOMAIN ks : ks[i] = s
<1>1. ~ Leaf(t)
  BY BranchParts
<1>2. \/ t.op \in {"neg", "pos"} /\ All("int") /\ k = "int"
      \/ t.op = "not" /\ All("prop") /\ k = "prop"
      \/ t.op \in Arithmetic /\ All("int") /\ OperandsAllowed(t) /\ k = "int"
      \/ t.op = "compare" /\ All("int") /\ Range(t.ops) \subseteq Comparisons /\ k = "prop"
      \/ t.op \in {"and", "or"} /\ All("prop") /\ k = "prop"
  BY <1>1 DEF KindOf, Accepted, Leaf
<1>3. All("int") => \A i \in DOMAIN t.args : a[i] \in Int
  BY DEF Fit, OfKind
<1>4. All("prop") => \A i \in DOMAIN t.args : a[i] \in BOOLEAN
  BY DEF Fit, OfKind
<1> DEFINE l == ValueOf(t, a, env, "lean")
           p == ValueOf(t, a, env, "python")
<1> SUFFICES l = p /\ (k = "int" => p \in Int) /\ (k = "prop" => p \in BOOLEAN)
  BY DEF OfKind
<1>5. CASE t.op \in {"neg", "pos"} /\ All("int") /\ k = "int"
  <2>1. a[1] \in Int
    BY <1>3, <1>5, Lengths DEF Unary
  <2>2. l = p /\ (p = -a[1] \/ p = a[1])
    BY <1>5 DEF ValueOf
  <2> HIDE DEF l, p
  <2> QED
    BY <1>5, <2>1, <2>2
<1>6. CASE t.op = "not" /\ All("prop") /\ k = "prop"
  <2>1. l = (~ a[1])
    BY <1>6, Zenon DEF ValueOf
  <2>2. p = (~ a[1])
    BY <1>6, Zenon DEF ValueOf
  <2>3. p \in BOOLEAN
    <3> HIDE DEF p
    <3> QED
      BY <2>2
  <2>4. l = p
    <3> HIDE DEF l, p
    <3> QED
      BY <2>1, <2>2
  <2>5. k # "int"
    BY <1>6
  <2> HIDE DEF l, p, k, All
  <2> QED
    BY <2>3, <2>4, <2>5
<1>7. CASE t.op \in Arithmetic /\ All("int") /\ OperandsAllowed(t) /\ k = "int"
  <2>1. a[1] \in Int /\ a[2] \in Int
    BY <1>3, <1>7, Lengths DEF Arithmetic
  <2>2. CASE t.op \in {"add", "sub", "mul"}
    <3>1. l = p /\ (p = a[1] + a[2] \/ p = a[1] - a[2] \/ p = a[1] * a[2])
      BY <2>2 DEF ValueOf
    <3> HIDE DEF l, p
    <3>2. p \in Int
      BY <2>1, <3>1
    <3> QED
      BY <1>7, <3>1, <3>2
  <2>3. CASE t.op \in {"floordiv", "mod"}
    <3>1. a[2] > 0
      BY <1>7, <2>3 DEF OperandsAllowed, PositiveDivisor, LiteralOperands
    <3> DEFINE d == Div("lean", a[1], a[2])
    <3>2. d = Div("python", a[1], a[2]) /\ d \in Int
      BY <2>1, <3>1, DivAgrees
    <3>3. CASE t.op = "floordiv"
      BY <1>7, <3>2, <3>3 DEF ValueOf
    <3>4. CASE t.op = "mod"
      <4>1. l = a[1] - a[2] * Div("lean", a[1], a[2]) /\ p = a[1] - a[2] * Div("python", a[1], a[2])
        BY <3>4 DEF ValueOf
      <4> HIDE DEF d, l, p
      <4>2. l = a[1] - a[2] * d /\ p = a[1] - a[2] * d
        BY <4>1, <3>2 DEF d
      <4> QED
        BY <1>7, <4>2, <2>1, <3>2
    <3> QED
      BY <2>3, <3>3, <3>4
  <2>4. CASE t.op = "pow"
    <3>1. a[2] \in Nat
      <4>1. MaxExponent \in Nat
        BY ExpressionAssumption
      <4> QED
        BY <1>7, <2>4, <4>1 DEF OperandsAllowed, SmallExponent, LiteralOperands
    <3>2. Power(a[1], a[2]) \in Int
      BY <2>1, <3>1, PowerType
    <3> QED
      BY <1>7, <2>4, <3>2 DEF ValueOf
  <2> QED
    BY <1>7, <2>2, <2>3, <2>4 DEF Arithmetic
<1>8. CASE t.op = "compare" /\ All("int") /\ Range(t.ops) \subseteq Comparisons /\ k = "prop"
  BY <1>8 DEF ValueOf
<1>9. CASE t.op \in {"and", "or"} /\ All("prop") /\ k = "prop"
  BY <1>9 DEF ValueOf
<1> QED
  BY <1>2, <1>5, <1>6, <1>7, <1>8, <1>9

Integers(env, variables) == \A v \in variables : env[v] \in Int

Agrees(t, env, variables) ==
  Accepted(Kind(t, variables)) =>
    /\ Value(t, env, "lean") = Value(t, env, "python")
    /\ OfKind(Kind(t, variables), Value(t, env, "python"))

\* A literal is of the kind of numbers.
LEMMA KindOfNumber ==
  ASSUME NEW t, t.op = "num", NEW ks, NEW variables, KindOf(t, ks, variables) # "refused"
  PROVE  KindOf(t, ks, variables) = "int"
  BY DEF KindOf

\* A name is of the kind of numbers when it is a variable.
LEMMA KindOfName ==
  ASSUME NEW t, t.op = "var", NEW ks, NEW variables
  PROVE  KindOf(t, ks, variables) = IF t.name \in variables THEN "int" ELSE "refused"
  BY DEF KindOf, Arithmetic

\* An accepted leaf has one value in Python and in Lean.
LEMMA LeafAgrees ==
  ASSUME NEW t \in Tree, t \in Leaves, NEW variables, NEW env, Integers(env, variables)
  PROVE  Agrees(t, env, variables)
<1>1. \A language : Value(t, env, language) = IF t.op = "num" THEN t.n ELSE env[t.name]
  <2> SUFFICES ASSUME NEW language
               PROVE  Value(t, env, language) = IF t.op = "num" THEN t.n ELSE env[t.name]
    OBVIOUS
  <2> DEFINE a == [i \in DOMAIN t.args |-> Value(t.args[i], env, language)]
  <2>1. ValueOf(t, a, env, language) = IF t.op = "num" THEN t.n ELSE env[t.name]
    <3> HIDE DEF a
    <3> QED
      BY DEF ValueOf, Leaves
  <2> QED
    BY <2>1, ValueByParts
<1> DEFINE ks == [i \in DOMAIN t.args |-> Kind(t.args[i], variables)]
<1>2. Kind(t, variables) = KindOf(t, ks, variables)
  BY KindByParts
<1> HIDE DEF ks
<1>3. Accepted(Kind(t, variables)) =>
        Kind(t, variables) = "int" /\ (t.op = "num" => t.n \in Nat) /\ (t.op # "num" => t.name \in variables)
  <2>1. CASE t.op = "num"
    <3>1. Accepted(Kind(t, variables)) => Kind(t, variables) = "int"
      BY <1>2, <2>1, KindOfNumber DEF Accepted
    <3> QED
      BY <2>1, <3>1 DEF Leaves
  <2>2. CASE t.op = "var"
    <3>1. Accepted(Kind(t, variables)) => Kind(t, variables) = "int" /\ t.name \in variables
      <4>1. Kind(t, variables) = IF t.name \in variables THEN "int" ELSE "refused"
        BY <1>2, <2>2, KindOfName
      <4> QED
        BY <4>1 DEF Accepted
    <3> QED
      BY <2>2, <3>1 DEF Leaves
  <2> QED
    BY <2>1, <2>2 DEF Leaves
<1> QED
  BY <1>1, <1>3 DEF Agrees, OfKind, Integers

\* The parts of an accepted branch agree when each does.
LEMMA PartsAgree ==
  ASSUME NEW t \in Tree, t \in Branches(Tree), NEW variables, NEW env,
         \A i \in DOMAIN t.args : Agrees(t.args[i], env, variables)
  PROVE  Agrees(t, env, variables)
<1> DEFINE ks == [i \in DOMAIN t.args |-> Kind(t.args[i], variables)]
           l == [i \in DOMAIN t.args |-> Value(t.args[i], env, "lean")]
           p == [i \in DOMAIN t.args |-> Value(t.args[i], env, "python")]
<1> SUFFICES ASSUME Accepted(Kind(t, variables))
             PROVE  /\ Value(t, env, "lean") = Value(t, env, "python")
                    /\ OfKind(Kind(t, variables), Value(t, env, "python"))
  BY DEF Agrees
<1>1. Kind(t, variables) = KindOf(t, ks, variables)
  BY KindByParts
<1>2. Value(t, env, "lean") = ValueOf(t, l, env, "lean") /\ Value(t, env, "python") = ValueOf(t, p, env, "python")
  BY ValueByParts
<1>3. \A i \in DOMAIN t.args : ks[i] = Kind(t.args[i], variables)
  OBVIOUS
<1>4. DOMAIN ks = DOMAIN t.args
  OBVIOUS
<1>5. \A i \in DOMAIN t.args : Accepted(ks[i])
  BY <1>1, <1>4, AcceptedOperands
<1>6. \A i \in DOMAIN t.args : /\ Value(t.args[i], env, "lean") = Value(t.args[i], env, "python")
                               /\ OfKind(ks[i], Value(t.args[i], env, "python"))
  BY <1>3, <1>5 DEF Agrees
<1>7. l = p
  BY <1>6
<1>8. Fit(ks, p)
  BY <1>6 DEF Fit
<1>9. LiteralOperands(t, p)
  <2> SUFFICES ASSUME t.op \in Arithmetic, t.args[2].op = "num" PROVE p[2] = t.args[2].n
    BY DEF LiteralOperands
  <2>1. 2 \in DOMAIN t.args /\ t.args[2] \in Tree
    BY Lengths, BranchParts
  <2> QED
    BY <2>1, LiteralValue
<1> HIDE DEF ks, l, p
<1> QED
  BY <1>1, <1>2, <1>4, <1>7, <1>8, <1>9, BranchAgrees

\* An accepted expression means in Lean what it means in Python.
LEMMA AcceptedAgree ==
  ASSUME NEW variables, NEW env, Integers(env, variables)
  PROVE  \A t \in Tree : Agrees(t, env, variables)
<1> DEFINE S == {t \in Tree : Agrees(t, env, variables)}
<1>1. Leaves \subseteq S
  <2>1. Leaves \subseteq Tree
    BY LeavesAreTrees
  <2> QED
    BY <2>1, LeafAgrees
<1>2. \A t \in Tree : t \in Branches(Tree) /\ (\A i \in DOMAIN t.args : t.args[i] \in S) => t \in S
  BY PartsAgree
<1>3. Tree \subseteq S
  <2> HIDE DEF S
  <2> QED
    BY <1>1, <1>2, TreeInduction
<1> QED
  BY <1>3

IsTable(g, D, base, op, c) ==
  \A s \in SUBSET D : g[s] = IF s = {} THEN base ELSE op[c[s]][g[s \ {c[s]}]]

Chooses(c, D) == \A s \in SUBSET D : s # {} => c[s] \in s

\* What a fold over the subsets of a finite set needs to have a value: each
\* nonempty subset s has an element c[s] to come last, and op stays in V.
LEMMA FoldExists ==
  ASSUME NEW D, IsFiniteSet(D), NEW V, NEW base \in V, NEW op \in [D -> [V -> V]],
         NEW c, Chooses(c, D)
  PROVE  \E g \in [SUBSET D -> V] : IsTable(g, D, base, op, c)
<1> DEFINE Small(k) == {s \in SUBSET D : Cardinality(s) <= k}
           Step(g, s) == IF s = {} THEN base ELSE op[c[s]][g[s \ {c[s]}]]
           E(k) == \E g \in [Small(k) -> V] : \A s \in Small(k) : g[s] = Step(g, s)
           S == {k \in Nat : E(k)}
<1>1. ASSUME NEW s \in SUBSET D PROVE IsFiniteSet(s) /\ Cardinality(s) \in Nat /\ Cardinality(s) <= Cardinality(D)
  BY FS_Subset, FS_CardinalityType
<1>2. ASSUME NEW s \in SUBSET D, s # {}
      PROVE  c[s] \in D /\ s \ {c[s]} \in SUBSET D /\ Cardinality(s \ {c[s]}) = Cardinality(s) - 1
  BY <1>1, <1>2, FS_RemoveElement DEF Chooses
<1>3. 0 \in S
  <2>1. ASSUME NEW s \in Small(0) PROVE s = {}
    BY <1>1, FS_EmptySet
  <2> DEFINE g == [s \in Small(0) |-> base]
  <2>2. g \in [Small(0) -> V] /\ \A s \in Small(0) : g[s] = Step(g, s)
    BY <2>1
  <2> QED
    BY <2>2
<1>4. ASSUME NEW k \in Nat, k \in S PROVE k + 1 \in S
  <2>1. PICK f \in [Small(k) -> V] : \A s \in Small(k) : f[s] = Step(f, s)
    BY <1>4
  <2> DEFINE g == [s \in Small(k + 1) |-> Step(f, s)]
  <2>2. ASSUME NEW s \in Small(k + 1), s # {} PROVE s \ {c[s]} \in Small(k) /\ c[s] \in D
    BY <1>1, <1>2, <2>2
  <2>3. ASSUME NEW s \in Small(k) PROVE s \in Small(k + 1)
    BY <1>1
  <2>4. ASSUME NEW s \in Small(k + 1) PROVE g[s] \in V
    <3>1. CASE s = {}
      BY <3>1
    <3>2. CASE s # {}
      <4>1. c[s] \in D /\ f[s \ {c[s]}] \in V
        BY <2>2, <3>2
      <4>2. \A x \in D : \A v \in V : op[x][v] \in V
        OBVIOUS
      <4>3. op[c[s]][f[s \ {c[s]}]] \in V
        BY <4>1, <4>2, Zenon
      <4> QED
        BY <3>2, <4>3
    <3> QED
      BY <3>1, <3>2
  <2>5. ASSUME NEW s \in Small(k) PROVE g[s] = f[s]
    BY <2>1, <2>3
  <2>6. ASSUME NEW s \in Small(k + 1) PROVE g[s] = Step(g, s)
    <3>1. CASE s = {}
      BY <3>1
    <3>2. CASE s # {}
      <4>1. g[s \ {c[s]}] = f[s \ {c[s]}]
        BY <2>2, <2>5, <3>2
      <4> QED
        BY <3>2, <4>1
    <3> QED
      BY <3>1, <3>2
  <2>7. g \in [Small(k + 1) -> V]
    BY <2>4
  <2> HIDE DEF g, Small, Step
  <2> QED
    BY <2>6, <2>7
<1>5. Nat \subseteq S
  <2> HIDE DEF S
  <2> QED
    BY <1>3, <1>4, Inductive
<1>6. Cardinality(D) \in Nat /\ Small(Cardinality(D)) = SUBSET D
  BY <1>1, FS_CardinalityType
<1>7. E(Cardinality(D))
  BY <1>5, <1>6
<1>8. PICK g \in [SUBSET D -> V] : \A s \in SUBSET D : g[s] = Step(g, s)
  BY <1>6, <1>7
<1>9. IsTable(g, D, base, op, c)
  BY <1>8 DEF IsTable
<1> QED
  BY <1>9

\* The greatest element of a set of positions.
LEMMA MaxOfPositions ==
  ASSUME NEW n \in Nat, NEW s \in SUBSET (1 .. n), s # {}
  PROVE  Max(s) \in s /\ \A x \in s : Max(s) >= x
<1> DEFINE T == {n - x : x \in s}
<1>1. T \in SUBSET Nat /\ T # {}
  <2>1. \A x \in s : x \in Int /\ n - x \in Nat
    OBVIOUS
  <2> QED
    BY <2>1
<1>2. PICK m \in T : \A k \in T : m <= k
  BY <1>1, LeastNatural
<1>3. PICK x \in s : m = n - x
  BY <1>2
<1>4. ASSUME NEW y \in s PROVE x >= y
  <2>1. n - y \in T
    OBVIOUS
  <2>2. x \in Int /\ y \in Int /\ n - x <= n - y
    <3> HIDE DEF T
    <3> QED
      BY <1>2, <1>3, <2>1
  <2> QED
    BY <2>2
<1> QED
  BY <1>3, <1>4 DEF Max

\* The last position of an initial segment is its largest.
LEMMA MaxOfSegment ==
  ASSUME NEW k \in Nat, k # 0
  PROVE  1 .. k # {} /\ Max(1 .. k) = k /\ (1 .. k) \ {k} = 1 .. k - 1
<1>1. 1 .. k # {} /\ k \in 1 .. k
  OBVIOUS
<1>2. Max(1 .. k) = k
  <2>1. Max(1 .. k) \in 1 .. k /\ \A x \in 1 .. k : Max(1 .. k) >= x
    BY <1>1, MaxOfPositions
  <2> QED
    BY <1>1, <2>1
<1> QED
  BY <1>1, <1>2

\* Two folds that go on alike are equal.
LEMMA SameFold ==
  ASSUME NEW n \in Nat, NEW F, NEW G, F[0] = G[0],
         \A k \in 1 .. n : F[k - 1] = G[k - 1] => F[k] = G[k]
  PROVE  F[n] = G[n]
<1> DEFINE S == {k \in Nat : k <= n => F[k] = G[k]}
<1>1. 0 \in S
  OBVIOUS
<1>2. ASSUME NEW k \in Nat, k \in S PROVE k + 1 \in S
  <2> SUFFICES ASSUME k + 1 <= n PROVE F[k + 1] = G[k + 1]
    OBVIOUS
  <2>1. k + 1 \in 1 .. n /\ (k + 1) - 1 = k
    OBVIOUS
  <2> QED
    BY <1>2, <2>1
<1>3. Nat \subseteq S
  <2> HIDE DEF S
  <2> QED
    BY <1>1, <1>2, Inductive
<1> QED
  BY <1>3

\* Folds by the functions op of the elements and what came before.
IsFold(g, n, base, op) ==
  \A s \in SUBSET (1 .. n) : g[s] = IF s = {} THEN base ELSE op[Max(s)][g[s \ {Max(s)}]]

\* A fold over a sequence goes position by position.
LEMMA FoldOfPositions ==
  ASSUME NEW n \in Nat, NEW V, NEW base \in V, NEW op \in [1 .. n -> [V -> V]]
  PROVE  \E g \in [SUBSET (1 .. n) -> V] : IsFold(g, n, base, op)
<1> DEFINE c == [s \in SUBSET (1 .. n) |-> Max(s)]
<1>1. \A s \in SUBSET (1 .. n) : c[s] = Max(s)
  OBVIOUS
<1>2. \A s \in SUBSET (1 .. n) : s # {} => c[s] \in s
  BY <1>1, MaxOfPositions
<1>3. IsFiniteSet(1 .. n)
  BY FS_Interval
<1> HIDE DEF c
<1>4. Chooses(c, 1 .. n)
  BY <1>2 DEF Chooses
<1>5. PICK g \in [SUBSET (1 .. n) -> V] : IsTable(g, 1 .. n, base, op, c)
  BY <1>3, <1>4, FoldExists
<1>6. IsFold(g, n, base, op)
  BY <1>1, <1>5 DEF IsFold, IsTable
<1> QED
  BY <1>6

FilterStep(l, x, kept) == IF x \in kept THEN Append(l, x) ELSE l

IsFilterFold(g, list, kept) ==
  g = [s \in SUBSET DOMAIN list |->
         IF s = {} THEN <<>> ELSE FilterStep(g[s \ {Max(s)}], list[Max(s)], kept)]

\* A filter computed one element at a time.
LEMMA FilterFold ==
  ASSUME NEW T, NEW list \in Seq(T), NEW kept
  PROVE  \E g : IsFilterFold(g, list, kept) /\ Filter(list, kept) = g[DOMAIN list]
<1> DEFINE n == Len(list)
           op == [i \in 1 .. n |-> [l \in Seq(T) |-> FilterStep(l, list[i], kept)]]
<1>1. n \in Nat /\ DOMAIN list = 1 .. n /\ \A i \in 1 .. n : list[i] \in T
  OBVIOUS
<1>2. \A l \in Seq(T), x \in T : FilterStep(l, x, kept) \in Seq(T)
  BY DEF FilterStep
<1>3. op \in [1 .. n -> [Seq(T) -> Seq(T)]] /\ <<>> \in Seq(T)
  BY <1>1, <1>2
<1>4. \A i \in 1 .. n, l \in Seq(T) : op[i][l] = FilterStep(l, list[i], kept)
  OBVIOUS
<1> HIDE DEF op, n
<1>5. PICK f \in [SUBSET (1 .. n) -> Seq(T)] : IsFold(f, n, <<>>, op)
  BY <1>1, <1>3, FoldOfPositions
<1>6. ASSUME NEW s \in SUBSET (1 .. n), s # {}
      PROVE  f[s] = FilterStep(f[s \ {Max(s)}], list[Max(s)], kept)
  <2>1. Max(s) \in 1 .. n /\ f[s \ {Max(s)}] \in Seq(T)
    BY <1>1, <1>6, MaxOfPositions
  <2>2. f[s] = op[Max(s)][f[s \ {Max(s)}]]
    BY <1>5, <1>6 DEF IsFold
  <2> QED
    BY <1>4, <2>1, <2>2
<1>7. f[{}] = <<>>
  BY <1>5 DEF IsFold
<1>8. IsFilterFold(f, list, kept)
  BY <1>1, <1>6, <1>7 DEF IsFilterFold
<1> DEFINE g == CHOOSE h : IsFilterFold(h, list, kept)
<1>9. IsFilterFold(g, list, kept)
  BY <1>8
<1>10. Filter(list, kept) = g[DOMAIN list]
  BY DEF Filter, FoldLeft, MapThenFoldSet, IsFilterFold, FilterStep
<1> QED
  BY <1>9, <1>10

\* A filter of nothing is empty.
LEMMA FilterEmpty == \A kept : Filter(<<>>, kept) = <<>>
<1> SUFFICES ASSUME NEW kept PROVE Filter(<<>>, kept) = <<>>
  OBVIOUS
<1>1. <<>> \in Seq({}) /\ DOMAIN <<>> = {}
  OBVIOUS
<1>2. PICK g : IsFilterFold(g, <<>>, kept) /\ Filter(<<>>, kept) = g[DOMAIN <<>>]
  BY <1>1, FilterFold
<1> QED
  BY <1>1, <1>2 DEF IsFilterFold

\* A filter keeps a new last element or drops it.
LEMMA FilterAppend ==
  ASSUME NEW T, NEW list \in Seq(T), NEW x \in T, NEW kept
  PROVE  Filter(Append(list, x), kept) = FilterStep(Filter(list, kept), x, kept)
<1> DEFINE n == Len(list)
           longer == Append(list, x)
<1>1. /\ n \in Nat /\ DOMAIN list = 1 .. n /\ DOMAIN longer = 1 .. n + 1
      /\ longer \in Seq(T) /\ longer[n + 1] = x /\ \A i \in 1 .. n : longer[i] = list[i]
  OBVIOUS
<1> HIDE DEF n, longer
<1>2. PICK g : IsFilterFold(g, list, kept) /\ Filter(list, kept) = g[DOMAIN list]
  BY FilterFold
<1>3. PICK h : IsFilterFold(h, longer, kept) /\ Filter(longer, kept) = h[DOMAIN longer]
  BY <1>1, FilterFold
<1> DEFINE G == [k \in 0 .. n |-> g[1 .. k]]
           H == [k \in 0 .. n |-> h[1 .. k]]
<1>4. 1 .. 0 = {} /\ g[1 .. 0] = <<>> /\ h[1 .. 0] = <<>>
  BY <1>1, <1>2, <1>3 DEF IsFilterFold
<1>5. ASSUME NEW k \in 1 .. n PROVE g[1 .. k] = FilterStep(g[1 .. k - 1], list[k], kept)
  <2>1. 1 .. k # {} /\ Max(1 .. k) = k /\ (1 .. k) \ {k} = 1 .. k - 1
    <3>1. k \in Nat /\ k # 0
      BY <1>1
    <3> QED
      BY <3>1, MaxOfSegment
  <2>2. 1 .. k \in SUBSET DOMAIN list
    BY <1>1
  <2> QED
    BY <1>2, <2>1, <2>2 DEF IsFilterFold
<1>6. ASSUME NEW k \in 1 .. n + 1 PROVE h[1 .. k] = FilterStep(h[1 .. k - 1], longer[k], kept)
  <2>1. 1 .. k # {} /\ Max(1 .. k) = k /\ (1 .. k) \ {k} = 1 .. k - 1
    <3>1. k \in Nat /\ k # 0
      BY <1>1
    <3> QED
      BY <3>1, MaxOfSegment
  <2>2. 1 .. k \in SUBSET DOMAIN longer
    BY <1>1
  <2> QED
    BY <1>3, <2>1, <2>2 DEF IsFilterFold
<1>7. \A k \in 0 .. n : G[k] = g[1 .. k] /\ H[k] = h[1 .. k]
  OBVIOUS
<1>8. ASSUME NEW k \in 1 .. n, G[k - 1] = H[k - 1] PROVE G[k] = H[k]
  <2>1. k \in 1 .. n + 1 /\ k - 1 \in 0 .. n /\ k \in 0 .. n /\ longer[k] = list[k]
    BY <1>1
  <2> HIDE DEF G, H
  <2> QED
    BY <1>5, <1>6, <1>7, <1>8, <2>1
<1>9. G[n] = H[n] /\ G[n] = g[1 .. n] /\ H[n] = h[1 .. n]
  <2>1. G[0] = H[0] /\ n \in 0 .. n
    BY <1>1, <1>4
  <2>2. G[n] = H[n]
    <3> HIDE DEF G, H
    <3> QED
      BY <1>1, <1>8, <2>1, SameFold
  <2> QED
    BY <2>1, <2>2
<1>10. h[1 .. n + 1] = FilterStep(h[1 .. n], x, kept)
  <2>1. n + 1 \in 1 .. n + 1 /\ n + 1 - 1 = n
    BY <1>1
  <2> QED
    BY <1>1, <1>6, <2>1
<1> QED
  BY <1>1, <1>2, <1>3, <1>9, <1>10 DEF longer

SplitStep(parts, t, separator) ==
  IF t = separator THEN Append(parts, <<>>)
  ELSE [parts EXCEPT ![Len(parts)] = Append(@, t)]

IsSplitFold(g, list, separator) ==
  g = [s \in SUBSET DOMAIN list |->
         IF s = {} THEN << <<>> >> ELSE SplitStep(g[s \ {Max(s)}], list[Max(s)], separator)]

Parts(T) == Seq(Seq(T)) \ {<<>>}

\* A step of the split keeps a sequence of texts.
LEMMA SplitStepType ==
  ASSUME NEW T, NEW parts \in Parts(T), NEW x \in T, NEW separator
  PROVE  SplitStep(parts, x, separator) \in Parts(T)
<1>1. parts \in Seq(Seq(T)) /\ Len(parts) \in Nat /\ Len(parts) # 0 /\ Len(parts) \in 1 .. Len(parts)
  BY DEF Parts
<1>2. <<>> \in Seq(T) /\ Append(parts[Len(parts)], x) \in Seq(T)
  BY <1>1
<1>3. Append(parts, <<>>) \in Seq(Seq(T)) /\ Append(parts, <<>>) # <<>>
  BY <1>1, <1>2
<1>4. [parts EXCEPT ![Len(parts)] = Append(@, x)] \in Seq(Seq(T))
  BY <1>1, <1>2
<1>5. Len([parts EXCEPT ![Len(parts)] = Append(@, x)]) = Len(parts)
  BY <1>1
<1> QED
  BY <1>1, <1>3, <1>4, <1>5 DEF SplitStep, Parts

\* A split computed one character at a time.
LEMMA SplitFold ==
  ASSUME NEW T, NEW list \in Seq(T), NEW separator
  PROVE  \E g : IsSplitFold(g, list, separator) /\ SplitOn(list, separator) = g[DOMAIN list]
<1> DEFINE n == Len(list)
           op == [i \in 1 .. n |-> [l \in Parts(T) |-> SplitStep(l, list[i], separator)]]
<1>1. n \in Nat /\ DOMAIN list = 1 .. n /\ \A i \in 1 .. n : list[i] \in T
  OBVIOUS
<1>2. \A l \in Parts(T), x \in T : SplitStep(l, x, separator) \in Parts(T)
  BY SplitStepType
<1>3. op \in [1 .. n -> [Parts(T) -> Parts(T)]] /\ << <<>> >> \in Parts(T)
  <2>1. op \in [1 .. n -> [Parts(T) -> Parts(T)]]
    BY <1>1, <1>2
  <2>2. << <<>> >> \in Parts(T)
    BY DEF Parts
  <2> QED
    BY <2>1, <2>2
<1>4. \A i \in 1 .. n, l \in Parts(T) : op[i][l] = SplitStep(l, list[i], separator)
  OBVIOUS
<1> HIDE DEF op, n
<1>5. PICK f \in [SUBSET (1 .. n) -> Parts(T)] : IsFold(f, n, << <<>> >>, op)
  BY <1>1, <1>3, FoldOfPositions
<1>6. ASSUME NEW s \in SUBSET (1 .. n), s # {}
      PROVE  f[s] = SplitStep(f[s \ {Max(s)}], list[Max(s)], separator)
  <2>1. Max(s) \in 1 .. n /\ f[s \ {Max(s)}] \in Parts(T)
    BY <1>1, <1>6, MaxOfPositions
  <2>2. f[s] = op[Max(s)][f[s \ {Max(s)}]]
    BY <1>5, <1>6 DEF IsFold
  <2> QED
    BY <1>4, <2>1, <2>2
<1>7. f[{}] = << <<>> >>
  BY <1>5 DEF IsFold
<1>8. IsSplitFold(f, list, separator)
  BY <1>1, <1>6, <1>7 DEF IsSplitFold
<1> DEFINE g == CHOOSE h : IsSplitFold(h, list, separator)
<1>9. IsSplitFold(g, list, separator)
  BY <1>8
<1>10. SplitOn(list, separator) = g[DOMAIN list]
  BY DEF SplitOn, FoldLeft, MapThenFoldSet, IsSplitFold, SplitStep
<1> QED
  BY <1>9, <1>10

\* The empty text is one empty part.
LEMMA SplitEmpty == \A separator : SplitOn(<<>>, separator) = << <<>> >>
<1> SUFFICES ASSUME NEW separator PROVE SplitOn(<<>>, separator) = << <<>> >>
  OBVIOUS
<1>1. <<>> \in Seq({}) /\ DOMAIN <<>> = {}
  OBVIOUS
<1>2. PICK g : IsSplitFold(g, <<>>, separator) /\ SplitOn(<<>>, separator) = g[DOMAIN <<>>]
  BY <1>1, SplitFold
<1> QED
  BY <1>1, <1>2 DEF IsSplitFold

\* A new last character ends the last part or joins it.
LEMMA SplitAppend ==
  ASSUME NEW T, NEW list \in Seq(T), NEW x \in T, NEW separator
  PROVE  SplitOn(Append(list, x), separator) = SplitStep(SplitOn(list, separator), x, separator)
<1> DEFINE n == Len(list)
           longer == Append(list, x)
<1>1. /\ n \in Nat /\ DOMAIN list = 1 .. n /\ DOMAIN longer = 1 .. n + 1
      /\ longer \in Seq(T) /\ longer[n + 1] = x /\ \A i \in 1 .. n : longer[i] = list[i]
  OBVIOUS
<1> HIDE DEF n, longer
<1>2. PICK g : IsSplitFold(g, list, separator) /\ SplitOn(list, separator) = g[DOMAIN list]
  BY SplitFold
<1>3. PICK h : IsSplitFold(h, longer, separator) /\ SplitOn(longer, separator) = h[DOMAIN longer]
  BY <1>1, SplitFold
<1> DEFINE G == [k \in 0 .. n |-> g[1 .. k]]
           H == [k \in 0 .. n |-> h[1 .. k]]
<1>4. 1 .. 0 = {} /\ g[1 .. 0] = << <<>> >> /\ h[1 .. 0] = << <<>> >>
  BY <1>1, <1>2, <1>3 DEF IsSplitFold
<1>5. ASSUME NEW k \in 1 .. n PROVE g[1 .. k] = SplitStep(g[1 .. k - 1], list[k], separator)
  <2>1. 1 .. k # {} /\ Max(1 .. k) = k /\ (1 .. k) \ {k} = 1 .. k - 1
    <3>1. k \in Nat /\ k # 0
      BY <1>1
    <3> QED
      BY <3>1, MaxOfSegment
  <2>2. 1 .. k \in SUBSET DOMAIN list
    BY <1>1
  <2> QED
    BY <1>2, <2>1, <2>2 DEF IsSplitFold
<1>6. ASSUME NEW k \in 1 .. n + 1 PROVE h[1 .. k] = SplitStep(h[1 .. k - 1], longer[k], separator)
  <2>1. 1 .. k # {} /\ Max(1 .. k) = k /\ (1 .. k) \ {k} = 1 .. k - 1
    <3>1. k \in Nat /\ k # 0
      BY <1>1
    <3> QED
      BY <3>1, MaxOfSegment
  <2>2. 1 .. k \in SUBSET DOMAIN longer
    BY <1>1
  <2> QED
    BY <1>3, <2>1, <2>2 DEF IsSplitFold
<1>7. \A k \in 0 .. n : G[k] = g[1 .. k] /\ H[k] = h[1 .. k]
  OBVIOUS
<1>8. ASSUME NEW k \in 1 .. n, G[k - 1] = H[k - 1] PROVE G[k] = H[k]
  <2>1. k \in 1 .. n + 1 /\ k - 1 \in 0 .. n /\ k \in 0 .. n /\ longer[k] = list[k]
    BY <1>1
  <2> HIDE DEF G, H
  <2> QED
    BY <1>5, <1>6, <1>7, <1>8, <2>1
<1>9. G[n] = H[n] /\ G[n] = g[1 .. n] /\ H[n] = h[1 .. n]
  <2>1. G[0] = H[0] /\ n \in 0 .. n
    BY <1>1, <1>4
  <2>2. G[n] = H[n]
    <3> HIDE DEF G, H
    <3> QED
      BY <1>1, <1>8, <2>1, SameFold
  <2> QED
    BY <2>1, <2>2
<1>10. h[1 .. n + 1] = SplitStep(h[1 .. n], x, separator)
  <2>1. n + 1 \in 1 .. n + 1 /\ n + 1 - 1 = n
    BY <1>1
  <2> QED
    BY <1>1, <1>6, <2>1
<1> QED
  BY <1>1, <1>2, <1>3, <1>9, <1>10 DEF longer

SumStep(total, i, q) == total + LeanAt(q, i + q.start)

SumOver(list, q) ==
  FoldLeft(LAMBDA acc, i : acc + LeanAt(q, i + q.start), 0, list)

IsSumFold(g, list, q) ==
  g = [s \in SUBSET DOMAIN list |->
         IF s = {} THEN 0 ELSE SumStep(g[s \ {Max(s)}], list[Max(s)], q)]

Summable(T, q) == \A i \in T : LeanAt(q, i + q.start) \in Int

\* A sum computed one element at a time.
LEMMA SumFold ==
  ASSUME NEW T, NEW list \in Seq(T), NEW q, Summable(T, q)
  PROVE  \E g : IsSumFold(g, list, q) /\ SumOver(list, q) = g[DOMAIN list]
<1> DEFINE n == Len(list)
           op == [i \in 1 .. n |-> [l \in Int |-> SumStep(l, list[i], q)]]
<1>1. n \in Nat /\ DOMAIN list = 1 .. n /\ \A i \in 1 .. n : list[i] \in T
  OBVIOUS
<1>2. \A l \in Int, x \in T : SumStep(l, x, q) \in Int
  BY DEF SumStep, Summable
<1>3. op \in [1 .. n -> [Int -> Int]] /\ 0 \in Int
  BY <1>1, <1>2
<1>4. \A i \in 1 .. n, l \in Int : op[i][l] = SumStep(l, list[i], q)
  OBVIOUS
<1> HIDE DEF op, n
<1>5. PICK f \in [SUBSET (1 .. n) -> Int] : IsFold(f, n, 0, op)
  BY <1>1, <1>3, FoldOfPositions
<1>6. ASSUME NEW s \in SUBSET (1 .. n), s # {}
      PROVE  f[s] = SumStep(f[s \ {Max(s)}], list[Max(s)], q)
  <2>1. Max(s) \in 1 .. n /\ f[s \ {Max(s)}] \in Int
    BY <1>1, <1>6, MaxOfPositions
  <2>2. f[s] = op[Max(s)][f[s \ {Max(s)}]]
    BY <1>5, <1>6 DEF IsFold
  <2> QED
    BY <1>4, <2>1, <2>2
<1>7. f[{}] = 0
  BY <1>5 DEF IsFold
<1>8. IsSumFold(f, list, q)
  BY <1>1, <1>6, <1>7 DEF IsSumFold
<1> DEFINE g == CHOOSE h : IsSumFold(h, list, q)
<1>9. IsSumFold(g, list, q)
  BY <1>8
<1>10. SumOver(list, q) = g[DOMAIN list]
  BY DEF SumOver, FoldLeft, MapThenFoldSet, IsSumFold, SumStep
<1> QED
  BY <1>9, <1>10

\* The sum of nothing.
LEMMA SumEmpty == \A q : SumOver(<<>>, q) = 0
<1> SUFFICES ASSUME NEW q PROVE SumOver(<<>>, q) = 0
  OBVIOUS
<1>1. <<>> \in Seq({}) /\ DOMAIN <<>> = {} /\ Summable({}, q)
  BY DEF Summable
<1>2. PICK g : IsSumFold(g, <<>>, q) /\ SumOver(<<>>, q) = g[DOMAIN <<>>]
  BY <1>1, SumFold
<1> QED
  BY <1>1, <1>2 DEF IsSumFold

\* A new last element adds its value to the sum.
LEMMA SumAppend ==
  ASSUME NEW T, NEW list \in Seq(T), NEW q, NEW x \in T, Summable(T, q)
  PROVE  SumOver(Append(list, x), q) = SumStep(SumOver(list, q), x, q)
<1> DEFINE n == Len(list)
           longer == Append(list, x)
<1>1. /\ n \in Nat /\ DOMAIN list = 1 .. n /\ DOMAIN longer = 1 .. n + 1
      /\ longer \in Seq(T) /\ longer[n + 1] = x /\ \A i \in 1 .. n : longer[i] = list[i]
  OBVIOUS
<1> HIDE DEF n, longer
<1>2. PICK g : IsSumFold(g, list, q) /\ SumOver(list, q) = g[DOMAIN list]
  BY SumFold
<1>3. PICK h : IsSumFold(h, longer, q) /\ SumOver(longer, q) = h[DOMAIN longer]
  BY <1>1, SumFold
<1> DEFINE G == [k \in 0 .. n |-> g[1 .. k]]
           H == [k \in 0 .. n |-> h[1 .. k]]
<1>4. 1 .. 0 = {} /\ g[1 .. 0] = 0 /\ h[1 .. 0] = 0
  BY <1>1, <1>2, <1>3 DEF IsSumFold
<1>5. ASSUME NEW k \in 1 .. n PROVE g[1 .. k] = SumStep(g[1 .. k - 1], list[k], q)
  <2>1. 1 .. k # {} /\ Max(1 .. k) = k /\ (1 .. k) \ {k} = 1 .. k - 1
    <3>1. k \in Nat /\ k # 0
      BY <1>1
    <3> QED
      BY <3>1, MaxOfSegment
  <2>2. 1 .. k \in SUBSET DOMAIN list
    BY <1>1
  <2> QED
    BY <1>2, <2>1, <2>2 DEF IsSumFold
<1>6. ASSUME NEW k \in 1 .. n + 1 PROVE h[1 .. k] = SumStep(h[1 .. k - 1], longer[k], q)
  <2>1. 1 .. k # {} /\ Max(1 .. k) = k /\ (1 .. k) \ {k} = 1 .. k - 1
    <3>1. k \in Nat /\ k # 0
      BY <1>1
    <3> QED
      BY <3>1, MaxOfSegment
  <2>2. 1 .. k \in SUBSET DOMAIN longer
    BY <1>1
  <2> QED
    BY <1>3, <2>1, <2>2 DEF IsSumFold
<1>7. \A k \in 0 .. n : G[k] = g[1 .. k] /\ H[k] = h[1 .. k]
  OBVIOUS
<1>8. ASSUME NEW k \in 1 .. n, G[k - 1] = H[k - 1] PROVE G[k] = H[k]
  <2>1. k \in 1 .. n + 1 /\ k - 1 \in 0 .. n /\ k \in 0 .. n /\ longer[k] = list[k]
    BY <1>1
  <2> HIDE DEF G, H
  <2> QED
    BY <1>5, <1>6, <1>7, <1>8, <2>1
<1>9. G[n] = H[n] /\ G[n] = g[1 .. n] /\ H[n] = h[1 .. n]
  <2>1. G[0] = H[0] /\ n \in 0 .. n
    BY <1>1, <1>4
  <2>2. G[n] = H[n]
    <3> HIDE DEF G, H
    <3> QED
      BY <1>1, <1>8, <2>1, SameFold
  <2> QED
    BY <2>1, <2>2
<1>10. h[1 .. n + 1] = SumStep(h[1 .. n], x, q)
  <2>1. n + 1 \in 1 .. n + 1 /\ n + 1 - 1 = n
    BY <1>1
  <2> QED
    BY <1>1, <1>6, <2>1
<1> QED
  BY <1>1, <1>2, <1>3, <1>9, <1>10 DEF longer

TotalOver(D, q) == MapThenSumSet(LAMBDA x : Meant(q, x), D)

First(s) == CHOOSE x \in s : TRUE

IsTotal(g, D, q) ==
  g = [s \in SUBSET D |-> IF s = {} THEN 0 ELSE Meant(q, First(s)) + g[s \ {First(s)}]]

Whole(D, q) == \A x \in D : Meant(q, x) \in Int

\* The total over any finite set of values exists.
LEMMA TotalExists ==
  ASSUME NEW D, IsFiniteSet(D), NEW q, Whole(D, q)
  PROVE  \E g : IsTotal(g, D, q) /\ TotalOver(D, q) = g[D]
<1> DEFINE c == [s \in SUBSET D |-> First(s)]
           op == [x \in D |-> [v \in Int |-> Meant(q, x) + v]]
<1>1. \A s \in SUBSET D : s # {} => First(s) \in s
  BY DEF First
<1>2. Chooses(c, D)
  BY <1>1 DEF Chooses
<1>3. op \in [D -> [Int -> Int]]
  BY DEF Whole
<1>4. \A x \in D, v \in Int : op[x][v] = Meant(q, x) + v
  OBVIOUS
<1>5. \A s \in SUBSET D : c[s] = First(s)
  OBVIOUS
<1> HIDE DEF c, op
<1>6. PICK f \in [SUBSET D -> Int] : IsTable(f, D, 0, op, c)
  BY <1>2, <1>3, FoldExists, 0 \in Int
<1>7. ASSUME NEW s \in SUBSET D, s # {}
      PROVE  f[s] = Meant(q, First(s)) + f[s \ {First(s)}]
  <2>1. First(s) \in D /\ f[s \ {First(s)}] \in Int
    BY <1>1, <1>7
  <2>2. f[s] = op[First(s)][f[s \ {First(s)}]]
    BY <1>5, <1>6, <1>7 DEF IsTable
  <2> QED
    BY <1>4, <2>1, <2>2
<1>8. f[{}] = 0
  BY <1>6 DEF IsTable
<1>9. IsTotal(f, D, q)
  BY <1>7, <1>8 DEF IsTotal
<1> DEFINE g == CHOOSE h : IsTotal(h, D, q)
<1>10. IsTotal(g, D, q)
  BY <1>9
<1>11. TotalOver(D, q) = g[D]
  BY DEF TotalOver, MapThenSumSet, MapThenFoldSet, IsTotal, First
<1> QED
  BY <1>10, <1>11

\* A total of integers is an integer.
LEMMA TotalType ==
  ASSUME NEW D, IsFiniteSet(D), NEW q, Whole(D, q), NEW g, IsTotal(g, D, q)
  PROVE  \A s \in SUBSET D : g[s] \in Int
<1> DEFINE S == {k \in Nat : \A s \in SUBSET D : Cardinality(s) <= k => g[s] \in Int}
<1>1. ASSUME NEW s \in SUBSET D PROVE IsFiniteSet(s) /\ Cardinality(s) \in Nat
  BY FS_Subset, FS_CardinalityType
<1>2. g[{}] = 0
  BY DEF IsTotal
<1>3. 0 \in S
  <2>1. ASSUME NEW s \in SUBSET D, Cardinality(s) <= 0 PROVE s = {}
    BY <1>1, <2>1, FS_EmptySet
  <2> QED
    BY <1>2, <2>1
<1>4. ASSUME NEW k \in Nat, k \in S PROVE k + 1 \in S
  <2> SUFFICES ASSUME NEW s \in SUBSET D, Cardinality(s) <= k + 1 PROVE g[s] \in Int
    OBVIOUS
  <2>1. CASE s = {}
    BY <1>2, <2>1
  <2>2. CASE s # {}
    <3>1. First(s) \in s
      BY <2>2 DEF First
    <3>2. Cardinality(s \ {First(s)}) <= k
      BY <1>1, <3>1, FS_RemoveElement
    <3>3. g[s \ {First(s)}] \in Int
      BY <1>4, <3>2
    <3>4. g[s] = Meant(q, First(s)) + g[s \ {First(s)}]
      BY <2>2 DEF IsTotal
    <3>5. Meant(q, First(s)) \in Int
      BY <3>1 DEF Whole
    <3> QED
      BY <3>3, <3>4, <3>5
  <2> QED
    BY <2>1, <2>2
<1>5. Nat \subseteq S
  <2> HIDE DEF S
  <2> QED
    BY <1>3, <1>4, Inductive
<1> SUFFICES ASSUME NEW s \in SUBSET D PROVE g[s] \in Int
  OBVIOUS
<1> QED
  BY <1>1, <1>5

\* A total is the same in every order.
LEMMA TotalAnyOrder ==
  ASSUME NEW D, IsFiniteSet(D), NEW q, Whole(D, q), NEW g, IsTotal(g, D, q)
  PROVE  \A s \in SUBSET D : \A x \in s : g[s] = Meant(q, x) + g[s \ {x}]
<1> DEFINE P(s) == \A x \in s : g[s] = Meant(q, x) + g[s \ {x}]
           S == {k \in Nat : \A s \in SUBSET D : Cardinality(s) <= k => P(s)}
<1>1. ASSUME NEW s \in SUBSET D PROVE IsFiniteSet(s) /\ Cardinality(s) \in Nat
  BY FS_Subset, FS_CardinalityType
<1>2. 0 \in S
  <2>1. ASSUME NEW s \in SUBSET D, Cardinality(s) <= 0 PROVE s = {}
    BY <1>1, <2>1, FS_EmptySet
  <2> QED
    BY <2>1
<1>3. \A s \in SUBSET D : g[s] \in Int
  BY TotalType
<1>4. ASSUME NEW k \in Nat, k \in S PROVE k + 1 \in S
  <2> SUFFICES ASSUME NEW s \in SUBSET D, Cardinality(s) <= k + 1, NEW x \in s
               PROVE  g[s] = Meant(q, x) + g[s \ {x}]
    OBVIOUS
  <2> DEFINE c == First(s)
  <2>1. c \in s
    BY DEF First
  <2>2. g[s] = Meant(q, c) + g[s \ {c}]
    BY DEF IsTotal
  <2> HIDE DEF c
  <2>3. ASSUME x # c PROVE g[s] = Meant(q, x) + g[s \ {x}]
    <3>1. Cardinality(s \ {c}) <= k /\ Cardinality(s \ {x}) <= k
      BY <1>1, <2>1, FS_RemoveElement
    <3>2. P(s \ {c}) /\ P(s \ {x})
      BY <1>4, <3>1
    <3>3. g[s \ {c}] = Meant(q, x) + g[(s \ {c}) \ {x}]
      BY <2>3, <3>2
    <3>4. g[s \ {x}] = Meant(q, c) + g[(s \ {x}) \ {c}]
      BY <2>1, <2>3, <3>2
    <3>5. (s \ {c}) \ {x} = (s \ {x}) \ {c}
      OBVIOUS
    <3>6. Meant(q, x) \in Int /\ Meant(q, c) \in Int /\ g[(s \ {c}) \ {x}] \in Int
      BY <1>3, <2>1 DEF Whole
    <3> DEFINE a == Meant(q, x)
               b == Meant(q, c)
               d == g[(s \ {c}) \ {x}]
    <3>7. g[s] = b + (a + d) /\ g[s \ {x}] = b + d
      BY <2>2, <3>3, <3>4, <3>5
    <3> HIDE DEF a, b, d
    <3> QED
      BY <3>6, <3>7 DEF a, b, d
  <2> QED
    BY <2>2, <2>3
<1>5. Nat \subseteq S
  <2> HIDE DEF S
  <2> QED
    BY <1>2, <1>4, Inductive
<1> SUFFICES ASSUME NEW s \in SUBSET D PROVE P(s)
  OBVIOUS
<1> HIDE DEF P
<1> QED
  BY <1>1, <1>5

\* List.range (n + 1) is List.range n with n at its end.
LEMMA ListRangeGrows ==
  ASSUME NEW k \in Nat
  PROVE  /\ ListRange(k) \in Seq(Nat) /\ ListRange(k) \in Seq(0 .. k - 1)
         /\ ListRange(k + 1) = Append(ListRange(k), k)
<1>1. ListRange(k) \in Seq(0 .. k - 1)
  BY DEF ListRange
<1>2. ListRange(k) \in Seq(Nat)
  BY DEF ListRange
<1>3. ListRange(k + 1) = Append(ListRange(k), k)
  BY DEF ListRange
<1> QED
  BY <1>1, <1>2, <1>3

\* List.range 0 is empty.
LEMMA ListRangeEmpty == ListRange(0) = <<>>
  BY DEF ListRange

\* The sum that Lean folds is the total.
LEMMA SumIsTotal ==
  ASSUME NEW q, q.start \in Int, q.stop \in Int, q.start <= q.stop,
         \A x \in q.start .. q.stop - 1 : LeanAt(q, x) = Meant(q, x) /\ Meant(q, x) \in Int
  PROVE  SumOver(ListRange(q.stop - q.start), q) = TotalOver(q.start .. q.stop - 1, q)
<1> DEFINE a == q.start
           n == q.stop - q.start
           D == a .. q.stop - 1
<1>1. IsFiniteSet(D) /\ Whole(D, q) /\ n \in Nat /\ a \in Int /\ q.stop = a + n
  <2>1. IsFiniteSet(D)
    BY FS_Interval
  <2>2. Whole(D, q)
    BY DEF Whole
  <2>3. n \in Nat /\ a \in Int /\ q.stop = a + n
    OBVIOUS
  <2> QED
    BY <2>1, <2>2, <2>3
<1>2. PICK g : IsTotal(g, D, q) /\ TotalOver(D, q) = g[D]
  <2> HIDE DEF D
  <2> QED
    BY <1>1, TotalExists
<1> DEFINE S == {k \in Nat : k <= n => SumOver(ListRange(k), q) = g[a .. a + k - 1]}
<1>3. 0 \in S
  <2>1. a .. a + 0 - 1 = {} /\ g[{}] = 0
    BY <1>1, <1>2 DEF IsTotal
  <2> QED
    BY <2>1, ListRangeEmpty, SumEmpty
<1>4. ASSUME NEW k \in Nat, k \in S PROVE k + 1 \in S
  <2> SUFFICES ASSUME k + 1 <= n
               PROVE  SumOver(ListRange(k + 1), q) = g[a .. a + (k + 1) - 1]
    OBVIOUS
  <2>1. Summable(0 .. k, q)
    <3>1. ASSUME NEW i \in 0 .. k PROVE LeanAt(q, i + a) \in Int
      <4>1. i + a \in a .. q.stop - 1
        BY <1>1
      <4> QED
        BY <4>1
    <3> QED
      BY <3>1 DEF Summable
  <2>2. ListRange(k) \in Seq(0 .. k)
    BY DEF ListRange
  <2>3. SumOver(ListRange(k + 1), q) = SumOver(ListRange(k), q) + LeanAt(q, k + a)
    <3>1. ListRange(k + 1) = Append(ListRange(k), k)
      BY ListRangeGrows
    <3>2. SumOver(Append(ListRange(k), k), q) = SumStep(SumOver(ListRange(k), q), k, q)
      BY <2>1, <2>2, SumAppend, k \in 0 .. k
    <3> QED
      BY <3>1, <3>2 DEF SumStep
  <2> DEFINE s == a .. a + k
  <2>4. s \in SUBSET D /\ k + a \in s /\ s \ {k + a} = a .. a + k - 1 /\ k + a \in D
    <3>1. D = a .. a + n - 1
      BY <1>1
    <3>2. k + a \in s
      BY <1>1
    <3>3. s \in SUBSET D
      BY <1>1, <3>1
    <3> HIDE DEF D, n
    <3>4. s \ {k + a} = a .. a + k - 1
      BY <1>1
    <3> QED
      BY <3>2, <3>3, <3>4
  <2>5. g[s] = Meant(q, k + a) + g[s \ {k + a}]
    <3> HIDE DEF D, s
    <3> QED
      BY <1>1, <1>2, <2>4, TotalAnyOrder
  <2>6. g[s \ {k + a}] \in Int /\ LeanAt(q, k + a) = Meant(q, k + a) /\ Meant(q, k + a) \in Int
    <3>1. g[s \ {k + a}] \in Int
      <4>1. s \ {k + a} \in SUBSET D
        BY <2>4
      <4> HIDE DEF D, s
      <4> QED
        BY <1>1, <1>2, <4>1, TotalType
    <3>2. k + a \in q.start .. q.stop - 1
      BY <2>4
    <3> QED
      BY <3>1, <3>2
  <2>7. SumOver(ListRange(k), q) = g[s \ {k + a}]
    <3>1. k <= n
      BY <1>1
    <3>2. SumOver(ListRange(k), q) = g[a .. a + k - 1]
      BY <1>4, <3>1
    <3> QED
      BY <2>4, <3>2
  <2>8. a + (k + 1) - 1 = a + k
    BY <1>1
  <2> HIDE DEF a, n, D
  <2> QED
    BY <2>3, <2>5, <2>6, <2>7, <2>8
<1>5. n \in S
  <2> HIDE DEF S
  <2>1. Nat \subseteq S
    BY <1>3, <1>4, Inductive
  <2> QED
    BY <1>1, <2>1
<1>6. D = a .. a + n - 1
  BY <1>1
<1> QED
  BY <1>2, <1>5, <1>6

\* How many of the first naturals a filter keeps.
LEMMA FilterCounts ==
  ASSUME NEW kept, NEW n \in Nat
  PROVE  /\ Filter(ListRange(n), kept) \in Seq(Nat)
         /\ IsFiniteSet({i \in 0 .. n - 1 : i \in kept})
         /\ Len(Filter(ListRange(n), kept)) = Cardinality({i \in 0 .. n - 1 : i \in kept})
<1> DEFINE K(k) == {i \in 0 .. k - 1 : i \in kept}
           F(k) == Filter(ListRange(k), kept)
           P(k) == F(k) \in Seq(Nat) /\ IsFiniteSet(K(k)) /\ Len(F(k)) = Cardinality(K(k))
           S == {k \in Nat : P(k)}
<1>1. 0 \in S
  <2>1. K(0) = {} /\ F(0) = <<>>
    BY ListRangeEmpty, FilterEmpty
  <2>2. <<>> \in Seq(Nat) /\ Len(<<>>) = 0
    OBVIOUS
  <2> HIDE DEF K, F
  <2> QED
    BY <2>1, <2>2, FS_EmptySet
<1>2. ASSUME NEW k \in Nat, k \in S PROVE k + 1 \in S
  <2>1. F(k + 1) = FilterStep(F(k), k, kept)
    BY ListRangeGrows, FilterAppend
  <2>2. k \notin K(k) /\ K(k + 1) = IF k \in kept THEN K(k) \cup {k} ELSE K(k)
    <3>1. 0 .. k + 1 - 1 = (0 .. k - 1) \cup {k} /\ k \notin 0 .. k - 1
      OBVIOUS
    <3> QED
      BY <3>1
  <2> HIDE DEF K, F
  <2>3. CASE k \in kept
    <3>1. F(k + 1) = Append(F(k), k) /\ K(k + 1) = K(k) \cup {k} /\ P(k)
      BY <1>2, <2>1, <2>2, <2>3 DEF FilterStep
    <3>2. IsFiniteSet(K(k + 1)) /\ Cardinality(K(k + 1)) = Cardinality(K(k)) + 1
      BY <2>2, <3>1, FS_AddElement
    <3>3. Append(F(k), k) \in Seq(Nat) /\ Len(Append(F(k), k)) = Len(F(k)) + 1
      BY <3>1
    <3> QED
      BY <3>1, <3>2, <3>3
  <2>4. CASE k \notin kept
    <3>1. F(k + 1) = F(k) /\ K(k + 1) = K(k) /\ P(k)
      BY <1>2, <2>1, <2>2, <2>4 DEF FilterStep
    <3> QED
      BY <3>1
  <2> QED
    BY <2>3, <2>4
<1>3. Nat \subseteq S
  <2> HIDE DEF S
  <2> QED
    BY <1>1, <1>2, Inductive
<1>4. P(n)
  BY <1>3
<1> QED
  BY <1>4

\* Counting from the start of the interval counts as many.
LEMMA ShiftedCardinality ==
  ASSUME NEW S \in SUBSET Int, IsFiniteSet(S), NEW a \in Int
  PROVE  Cardinality({i + a : i \in S}) = Cardinality(S)
<1> DEFINE T == {i + a : i \in S}
           f == [i \in S |-> i + a]
<1>1. f \in [S -> T] /\ \A x \in S : f[x] = x + a /\ x \in Int
  OBVIOUS
<1>2. \A x, y \in S : f[x] = f[y] => x = y
  BY <1>1
<1>3. \A t \in T : \E x \in S : f[x] = t
  BY <1>1
<1> HIDE DEF f, T
<1>4. f \in Bijection(S, T)
  BY <1>1, <1>2, <1>3 DEF Bijection, Injection, Surjection, IsInjective
<1>5. ExistsBijection(S, T)
  BY <1>4 DEF ExistsBijection
<1> QED
  BY <1>5, FS_Bijection DEF T

\* The length of the filtered range is the cardinality of the set.
LEMMA CountIsCardinality ==
  ASSUME NEW q, NEW answer, q.start \in Int, q.stop \in Int, q.start <= q.stop,
         \A x \in q.start .. q.stop - 1 : LeanAt(q, x) = Meant(q, x)
  PROVE  CountGoal(q, answer) <=> answer = Cardinality(Satisfying(q))
<1> DEFINE n == q.stop - q.start
           kept == {i \in Nat : LeanAt(q, i + q.start)}
           K == {i \in 0 .. n - 1 : i \in kept}
<1>1. n \in Nat
  OBVIOUS
<1>2. Len(Filter(ListRange(n), kept)) = Cardinality(K) /\ IsFiniteSet(K)
  BY <1>1, FilterCounts
<1>3. {i + q.start : i \in K} = Satisfying(q)
  <2>1. ASSUME NEW i \in K PROVE i + q.start \in Satisfying(q)
    <3>1. i + q.start \in q.start .. q.stop - 1 /\ LeanAt(q, i + q.start)
      BY <1>1
    <3> QED
      BY <3>1 DEF Satisfying
  <2>2. ASSUME NEW x \in Satisfying(q) PROVE x - q.start \in K /\ x = (x - q.start) + q.start
    <3>1. x \in q.start .. q.stop - 1 /\ LeanAt(q, x)
      BY DEF Satisfying
    <3>2. x = (x - q.start) + q.start /\ x - q.start \in 0 .. n - 1 /\ x - q.start \in Nat
      BY <3>1
    <3>3. LeanAt(q, (x - q.start) + q.start)
      BY <3>1, <3>2
    <3> QED
      BY <3>2, <3>3
  <2> HIDE DEF K
  <2> QED
    BY <2>1, <2>2
<1>4. K \in SUBSET Int
  OBVIOUS
<1>5. Cardinality(Satisfying(q)) = Cardinality(K)
  <2> HIDE DEF K
  <2> QED
    BY <1>2, <1>3, <1>4, ShiftedCardinality
<1>6. CountGoal(q, answer) <=> Len(Filter(ListRange(n), kept)) = answer
  BY DEF CountGoal
<1> HIDE DEF n, kept, K
<1> QED
  BY <1>2, <1>5, <1>6

\* A set of numbers of an interval has a minimum.
LEMMA MinOfInterval ==
  ASSUME NEW a \in Int, NEW b \in Int, NEW S \in SUBSET (a .. b), S # {}
  PROVE  Min(S) \in S /\ \A y \in S : Min(S) <= y
<1> DEFINE T == {x - a : x \in S}
<1>1. T \in SUBSET Nat /\ T # {}
  <2>1. \A x \in S : x \in Int /\ x - a \in Nat
    OBVIOUS
  <2> QED
    BY <2>1
<1>2. PICK m \in T : \A k \in T : m <= k
  BY <1>1, LeastNatural
<1>3. PICK x \in S : m = x - a
  BY <1>2
<1>4. ASSUME NEW y \in S PROVE x <= y
  <2>1. y - a \in T
    OBVIOUS
  <2>2. x \in Int /\ y \in Int /\ x - a <= y - a
    <3> HIDE DEF T
    <3> QED
      BY <1>2, <1>3, <2>1
  <2> QED
    BY <2>2
<1> QED
  BY <1>3, <1>4 DEF Min

\* The goal of a minimum says that the answer is the least satisfying value.
LEMMA MinimumIsLeast ==
  ASSUME NEW q, NEW answer \in Int, q.start \in Int, q.stop \in Int, q.start <= q.stop,
         \A x \in q.start .. q.stop - 1 : LeanAt(q, x) = Meant(q, x)
  PROVE  MinimumGoal(q, answer) <=> Satisfying(q) # {} /\ answer = Min(Satisfying(q))
<1> DEFINE D == q.start .. q.stop - 1
           n == q.stop - q.start
<1>1. \A x \in D : x \in Satisfying(q) <=> LeanAt(q, x)
  BY DEF Satisfying
<1>2. Satisfying(q) \in SUBSET D
  BY DEF Satisfying
<1>3. Satisfying(q) # {} => Min(Satisfying(q)) \in Satisfying(q) /\ \A y \in Satisfying(q) : Min(Satisfying(q)) <= y
  <2>1. q.stop - 1 \in Int /\ Satisfying(q) \in SUBSET (q.start .. q.stop - 1)
    BY <1>2
  <2> QED
    BY <2>1, MinOfInterval
<1>4. ASSUME MinimumGoal(q, answer) PROVE Satisfying(q) # {} /\ answer = Min(Satisfying(q))
  <2>1. answer \in D /\ LeanAt(q, answer)
    BY <1>4 DEF MinimumGoal
  <2>2. answer \in Satisfying(q)
    BY <1>1, <2>1
  <2> DEFINE m == Min(Satisfying(q))
  <2>3. m \in Satisfying(q) /\ m <= answer /\ m \in D
    BY <1>2, <1>3, <2>2
  <2> HIDE DEF m
  <2>4. ~ (m < answer)
    <3> SUFFICES ASSUME m < answer PROVE FALSE
      OBVIOUS
    <3>1. m - q.start \in 0 .. n - 1 /\ (m - q.start) + q.start = m
      BY <2>3
    <3>2. ~ LeanAt(q, (m - q.start) + q.start)
      BY <1>4, <3>1 DEF MinimumGoal
    <3>3. LeanAt(q, m)
      BY <1>1, <2>3
    <3> QED
      BY <3>1, <3>2, <3>3
  <2>5. answer = m
    BY <2>1, <2>3, <2>4
  <2> QED
    BY <2>2, <2>5 DEF m
<1>5. ASSUME Satisfying(q) # {}, answer = Min(Satisfying(q)) PROVE MinimumGoal(q, answer)
  <2>1. answer \in Satisfying(q) /\ answer \in D
    BY <1>2, <1>3, <1>5
  <2>2. LeanAt(q, answer)
    BY <1>1, <2>1
  <2>3. ASSUME NEW i \in 0 .. n - 1, i + q.start < answer PROVE ~ LeanAt(q, i + q.start)
    <3>1. i + q.start \in D /\ ~ (answer <= i + q.start)
      BY <2>1, <2>3
    <3>2. i + q.start \notin Satisfying(q)
      BY <1>3, <1>5, <3>1
    <3> QED
      BY <1>1, <3>1, <3>2
  <2>4. q.start <= answer /\ answer < q.stop
    BY <2>1
  <2> QED
    BY <2>2, <2>3, <2>4 DEF MinimumGoal
<1> QED
  BY <1>4, <1>5

Points == Int \X Int

Increasing(l) == \A i, j \in DOMAIN l : i < j => Before(l[i], l[j])

\* The lexicographic order is strict and total.
LEMMA BeforeIsOrder ==
  /\ \A p \in Points : ~ Before(p, p)
  /\ \A p, q, r \in Points : Before(p, q) /\ Before(q, r) => Before(p, r)
<1>1. \A p \in Points : p[1] \in Int /\ p[2] \in Int
  BY DEF Points
<1> QED
  BY <1>1 DEF Before

\* A sequence sorted by neighbours is sorted throughout.
LEMMA SortedIncreases ==
  ASSUME NEW l \in Seq(Points), SortedSet(l)
  PROVE  Increasing(l)
<1> DEFINE n == Len(l)
           S == {k \in Nat : \A i \in 1 .. n : i + k + 1 <= n => Before(l[i], l[i + k + 1])}
<1>1. n \in Nat /\ DOMAIN l = 1 .. n /\ \A i \in 1 .. n : l[i] \in Points
  OBVIOUS
<1>2. \A i \in 1 .. n - 1 : Before(l[i], l[i + 1])
  BY DEF SortedSet
<1>3. 0 \in S
  <2> SUFFICES ASSUME NEW i \in 1 .. n, i + 0 + 1 <= n PROVE Before(l[i], l[i + 0 + 1])
    OBVIOUS
  <2>1. i \in 1 .. n - 1 /\ i + 0 + 1 = i + 1
    BY <1>1
  <2> QED
    BY <1>2, <2>1
<1>4. ASSUME NEW k \in Nat, k \in S PROVE k + 1 \in S
  <2> SUFFICES ASSUME NEW i \in 1 .. n, i + (k + 1) + 1 <= n PROVE Before(l[i], l[i + (k + 1) + 1])
    OBVIOUS
  <2>1. /\ i + k + 1 <= n /\ i + k + 1 \in 1 .. n - 1 /\ i + (k + 1) + 1 \in 1 .. n
        /\ (i + k + 1) + 1 = i + (k + 1) + 1
    BY <1>1
  <2>2. Before(l[i], l[i + k + 1])
    BY <1>4, <2>1
  <2>3. Before(l[i + k + 1], l[i + (k + 1) + 1])
    BY <1>2, <2>1
  <2>4. l[i] \in Points /\ l[i + k + 1] \in Points /\ l[i + (k + 1) + 1] \in Points
    BY <1>1, <2>1
  <2> QED
    BY <2>2, <2>3, <2>4, BeforeIsOrder
<1>5. Nat \subseteq S
  <2> HIDE DEF S
  <2> QED
    BY <1>3, <1>4, Inductive
<1> SUFFICES ASSUME NEW i \in 1 .. n, NEW j \in 1 .. n, i < j PROVE Before(l[i], l[j])
  BY <1>1 DEF Increasing
<1>6. j - i - 1 \in Nat /\ i + (j - i - 1) + 1 = j
  BY <1>1
<1>7. j - i - 1 \in S
  <2> HIDE DEF S
  <2> QED
    BY <1>5, <1>6
<1> QED
  BY <1>1, <1>6, <1>7

\* Two increasing sequences, one before the other.
LEMMA IncreasingConcat ==
  ASSUME NEW a \in Seq(Points), NEW b \in Seq(Points), Increasing(a), Increasing(b),
         \A p \in ToSet(a), q \in ToSet(b) : Before(p, q)
  PROVE  /\ a \o b \in Seq(Points)
         /\ Increasing(a \o b)
         /\ ToSet(a \o b) = ToSet(a) \cup ToSet(b)
<1> DEFINE m == Len(a)
           n == Len(b)
           c == a \o b
<1>1. /\ m \in Nat /\ n \in Nat /\ DOMAIN a = 1 .. m /\ DOMAIN b = 1 .. n /\ DOMAIN c = 1 .. m + n
      /\ c \in Seq(Points)
      /\ \A i \in 1 .. m : c[i] = a[i]
      /\ \A i \in m + 1 .. m + n : c[i] = b[i - m]
  OBVIOUS
<1> HIDE DEF m, n, c
<1>2. ASSUME NEW i \in 1 .. m + n, i > m PROVE i \in m + 1 .. m + n /\ i - m \in 1 .. n
  BY <1>1, <1>2
<1>3. ASSUME NEW i \in 1 .. m + n, NEW j \in 1 .. m + n, i < j PROVE Before(c[i], c[j])
  <2>1. CASE j <= m
    <3>1. i \in 1 .. m /\ j \in 1 .. m
      BY <1>1, <1>3, <2>1
    <3> QED
      BY <1>1, <1>3, <3>1 DEF Increasing
  <2>2. CASE i <= m /\ j > m
    <3>1. i \in 1 .. m /\ c[j] = b[j - m] /\ j - m \in 1 .. n
      BY <1>1, <1>2, <2>2
    <3>2. c[i] \in ToSet(a) /\ c[j] \in ToSet(b)
      BY <1>1, <3>1 DEF ToSet
    <3> QED
      BY <3>2
  <2>3. CASE i > m
    <3>1. c[i] = b[i - m] /\ c[j] = b[j - m] /\ i - m \in 1 .. n /\ j - m \in 1 .. n /\ i - m < j - m
      BY <1>1, <1>2, <1>3, <2>3
    <3> QED
      BY <1>1, <3>1 DEF Increasing
  <2> QED
    BY <1>1, <2>1, <2>2, <2>3
<1>4. Increasing(c)
  BY <1>1, <1>3 DEF Increasing
<1>5. ToSet(c) \subseteq ToSet(a) \cup ToSet(b)
  <2> SUFFICES ASSUME NEW i \in 1 .. m + n PROVE c[i] \in ToSet(a) \cup ToSet(b)
    BY <1>1 DEF ToSet
  <2>1. CASE i <= m
    <3>1. i \in 1 .. m
      BY <1>1, <2>1
    <3> QED
      BY <1>1, <3>1 DEF ToSet
  <2>2. CASE i > m
    BY <1>1, <1>2, <2>2 DEF ToSet
  <2> QED
    BY <1>1, <2>1, <2>2
<1>6. ToSet(a) \subseteq ToSet(c)
  <2> SUFFICES ASSUME NEW i \in 1 .. m PROVE a[i] \in ToSet(c)
    BY <1>1 DEF ToSet
  <2>1. i \in 1 .. m + n /\ c[i] = a[i]
    BY <1>1
  <2> QED
    BY <1>1, <2>1 DEF ToSet
<1>7. ToSet(b) \subseteq ToSet(c)
  <2> SUFFICES ASSUME NEW i \in 1 .. n PROVE b[i] \in ToSet(c)
    BY <1>1 DEF ToSet
  <2>1. m + i \in 1 .. m + n /\ c[m + i] = b[i]
    <3>1. m + i \in m + 1 .. m + n /\ m + i \in 1 .. m + n /\ (m + i) - m = i
      BY <1>1
    <3> QED
      BY <1>1, <3>1
  <2> QED
    BY <1>1, <2>1 DEF ToSet
<1> QED
  BY <1>1, <1>4, <1>5, <1>6, <1>7 DEF c

\* An increasing sequence and a later pair.
LEMMA IncreasingAppend ==
  ASSUME NEW a \in Seq(Points), NEW p \in Points, Increasing(a), \A q \in ToSet(a) : Before(q, p)
  PROVE  /\ Append(a, p) \in Seq(Points)
         /\ Increasing(Append(a, p))
         /\ ToSet(Append(a, p)) = ToSet(a) \cup {p}
<1> DEFINE b == <<p>>
<1>1. Append(a, p) = a \o b /\ b \in Seq(Points) /\ DOMAIN b = {1} /\ b[1] = p
  OBVIOUS
<1> HIDE DEF b
<1>2. Increasing(b)
  BY <1>1 DEF Increasing
<1>3. ToSet(b) = {p}
  BY <1>1 DEF ToSet
<1>4. \A q \in ToSet(a), r \in ToSet(b) : Before(q, r)
  BY <1>3
<1> QED
  BY <1>1, <1>2, <1>3, <1>4, IncreasingConcat

\* What a filter keeps of an increasing list.
LEMMA FilterIncreases ==
  ASSUME NEW l \in Seq(Points), Increasing(l), NEW kept
  PROVE  /\ Filter(l, kept) \in Seq(Points)
         /\ Increasing(Filter(l, kept))
         /\ ToSet(Filter(l, kept)) = ToSet(l) \cap kept
<1> DEFINE n == Len(l)
           Upto(k) == [i \in 1 .. k |-> l[i]]
           F(k) == Filter(Upto(k), kept)
           P(k) == /\ F(k) \in Seq(Points) /\ Increasing(F(k))
                   /\ ToSet(F(k)) = {l[i] : i \in 1 .. k} \cap kept
           S == {k \in Nat : k <= n => P(k)}
<1>1. n \in Nat /\ DOMAIN l = 1 .. n /\ \A i \in 1 .. n : l[i] \in Points
  OBVIOUS
<1>2. 0 \in S
  <2>1. Upto(0) = <<>> /\ F(0) = <<>>
    BY FilterEmpty
  <2>2. <<>> \in Seq(Points) /\ Increasing(<<>>) /\ ToSet(<<>>) = {}
    BY DEF Increasing, ToSet
  <2>3. {l[i] : i \in 1 .. 0} = {}
    OBVIOUS
  <2> HIDE DEF F, Upto
  <2> QED
    BY <2>1, <2>2, <2>3
<1>3. ASSUME NEW k \in Nat, k \in S PROVE k + 1 \in S
  <2> SUFFICES ASSUME k + 1 <= n PROVE P(k + 1)
    OBVIOUS
  <2> DEFINE p == l[k + 1]
  <2>1. p \in Points /\ Upto(k) \in Seq(Points) /\ Upto(k + 1) = Append(Upto(k), p) /\ k <= n
    <3>1. k + 1 \in 1 .. n /\ k <= n /\ \A i \in 1 .. k : i \in 1 .. n /\ l[i] \in Points
      BY <1>1
    <3>2. Upto(k) \in Seq(Points)
      BY <3>1
    <3>3. Upto(k + 1) = Append(Upto(k), p)
      OBVIOUS
    <3> QED
      BY <1>1, <3>1, <3>2, <3>3
  <2>2. F(k + 1) = FilterStep(F(k), p, kept) /\ P(k)
    <3> HIDE DEF Upto, p
    <3>1. F(k + 1) = FilterStep(F(k), p, kept)
      BY <2>1, FilterAppend
    <3> HIDE DEF F
    <3> QED
      BY <1>3, <2>1, <3>1
  <2>3. {l[i] : i \in 1 .. k + 1} = {l[i] : i \in 1 .. k} \cup {p}
    <3>1. 1 .. k + 1 = (1 .. k) \cup {k + 1}
      OBVIOUS
    <3> QED
      BY <3>1
  <2>4. \A q \in {l[i] : i \in 1 .. k} : Before(q, p)
    <3>1. \A i \in 1 .. k : i \in 1 .. n /\ k + 1 \in 1 .. n /\ i < k + 1
      BY <1>1
    <3> QED
      BY <1>1, <3>1 DEF Increasing
  <2>5. CASE p \in kept
    <3>1. F(k + 1) = Append(F(k), p)
      BY <2>2, <2>5 DEF FilterStep
    <3>2. \A q \in ToSet(F(k)) : Before(q, p)
      BY <2>2, <2>4
    <3> DEFINE f == F(k)
    <3>3. /\ Append(f, p) \in Seq(Points) /\ Increasing(Append(f, p))
          /\ ToSet(Append(f, p)) = ToSet(f) \cup {p}
      <4>1. f \in Seq(Points) /\ Increasing(f) /\ p \in Points /\ \A q \in ToSet(f) : Before(q, p)
        BY <2>1, <2>2, <3>2
      <4> HIDE DEF f, p
      <4> QED
        BY <4>1, IncreasingAppend
    <3> HIDE DEF F, p
    <3> QED
      BY <2>2, <2>3, <2>5, <3>1, <3>3
  <2>6. CASE p \notin kept
    <3>1. F(k + 1) = F(k)
      BY <2>2, <2>6 DEF FilterStep
    <3> HIDE DEF F, p
    <3> QED
      BY <2>2, <2>3, <2>6, <3>1
  <2> QED
    BY <2>5, <2>6
<1>4. P(n)
  <2> HIDE DEF P
  <2>1. Nat \subseteq S
    <3> HIDE DEF S
    <3> QED
      BY <1>2, <1>3, Inductive
  <2> QED
    BY <1>1, <2>1
<1>5. Upto(n) = l
  BY <1>1
<1>6. ToSet(l) = {l[i] : i \in 1 .. n}
  BY <1>1 DEF ToSet
<1> HIDE DEF n, Upto
<1> QED
  BY <1>4, <1>5, <1>6

\* An increasing list repeats nothing.
LEMMA IncreasingCardinality ==
  ASSUME NEW l \in Seq(Points), Increasing(l)
  PROVE  Cardinality(ToSet(l)) = Len(l)
<1> DEFINE n == Len(l)
<1>1. n \in Nat /\ DOMAIN l = 1 .. n /\ \A i \in 1 .. n : l[i] \in Points
  OBVIOUS
<1>2. l \in [1 .. n -> ToSet(l)]
  BY <1>1 DEF ToSet
<1>3. ASSUME NEW i \in 1 .. n, NEW j \in 1 .. n, l[i] = l[j] PROVE i = j
  <2>1. ~ (i < j) /\ ~ (j < i)
    BY <1>1, <1>3, BeforeIsOrder DEF Increasing
  <2> QED
    BY <1>1, <2>1
<1>4. \A t \in ToSet(l) : \E i \in 1 .. n : l[i] = t
  BY <1>1 DEF ToSet
<1>5. l \in Bijection(1 .. n, ToSet(l))
  BY <1>1, <1>2, <1>3, <1>4 DEF Bijection, Injection, Surjection, IsInjective
<1>6. ExistsBijection(1 .. n, ToSet(l))
  BY <1>5 DEF ExistsBijection
<1>7. IsFiniteSet(1 .. n) /\ Cardinality(1 .. n) = n
  <2> HIDE DEF n
  <2>1. Cardinality(1 .. n) = IF 1 > n THEN 0 ELSE n - 1 + 1
    BY <1>1, FS_Interval
  <2>2. IsFiniteSet(1 .. n)
    BY <1>1, FS_Interval
  <2> QED
    BY <1>1, <2>1, <2>2
<1> HIDE DEF n
<1> QED
  BY <1>6, <1>7, FS_Bijection DEF n

\* The first element in which two increasing lists with the same members
\* differ would be missing from one of them.
LEMMA NoFirstDifference ==
  ASSUME NEW a \in Seq(Points), NEW b \in Seq(Points), Increasing(a), Increasing(b),
         ToSet(a) = ToSet(b),
         NEW i \in 1 .. Len(a), \A j \in 1 .. Len(a) : j < i => j <= Len(b) /\ a[j] = b[j]
  PROVE  i <= Len(b) /\ a[i] = b[i]
<1> DEFINE m == Len(a)
           n == Len(b)
<1>1. /\ m \in Nat /\ DOMAIN a = 1 .. m /\ \A j \in 1 .. m : a[j] \in Points
      /\ n \in Nat /\ DOMAIN b = 1 .. n /\ \A j \in 1 .. n : b[j] \in Points
      /\ i \in 1 .. m
      /\ \A j \in 1 .. m : j < i => j <= n /\ a[j] = b[j]
  OBVIOUS
<1> HIDE DEF m, n
<1>2. a[i] \in ToSet(b)
  BY <1>1 DEF ToSet
<1>3. PICK k \in 1 .. n : b[k] = a[i]
  BY <1>1, <1>2 DEF ToSet
<1>4. ~ (k < i)
  <2> SUFFICES ASSUME k < i PROVE FALSE
    OBVIOUS
  <2>1. k \in 1 .. m /\ a[k] = b[k] /\ a[k] = a[i]
    BY <1>1, <1>3
  <2>2. Before(a[k], a[i])
    BY <1>1, <2>1 DEF Increasing
  <2> QED
    BY <1>1, <2>1, <2>2, BeforeIsOrder
<1>5. i \in 1 .. n
  BY <1>1, <1>3, <1>4
<1>6. k = i
  <2> SUFFICES ASSUME k > i PROVE FALSE
    BY <1>1, <1>3, <1>4
  <2>1. Before(b[i], a[i])
    BY <1>1, <1>3, <1>5 DEF Increasing
  <2>2. b[i] \in ToSet(a)
    BY <1>1, <1>5 DEF ToSet
  <2>3. PICK h \in 1 .. m : a[h] = b[i]
    BY <1>1, <2>2 DEF ToSet
  <2>4. h < i
    <3>1. ~ (i < h)
      <4> SUFFICES ASSUME i < h PROVE FALSE
        OBVIOUS
      <4>1. Before(a[i], b[i])
        BY <1>1, <2>3 DEF Increasing
      <4>2. a[i] \in Points /\ b[i] \in Points
        BY <1>1, <1>5
      <4> QED
        BY <2>1, <4>1, <4>2, BeforeIsOrder
    <3>2. h # i
      <4> SUFFICES ASSUME h = i PROVE FALSE
        OBVIOUS
      <4>1. Before(a[i], a[i]) /\ a[i] \in Points
        BY <1>1, <2>1, <2>3
      <4> QED
        BY <4>1, BeforeIsOrder
    <3> QED
      BY <1>1, <2>3, <3>1, <3>2
  <2>5. a[h] = b[h] /\ h \in 1 .. n /\ Before(b[h], b[i])
    BY <1>1, <1>5, <2>3, <2>4 DEF Increasing
  <2>6. Before(b[i], b[i]) /\ b[i] \in Points
    BY <1>1, <1>5, <2>3, <2>5
  <2> QED
    BY <2>6, BeforeIsOrder
<1> QED
  BY <1>1, <1>3, <1>5, <1>6 DEF n

\* Increasing sequences of the same pairs agree position by position.
LEMMA IncreasingPrefix ==
  ASSUME NEW a \in Seq(Points), NEW b \in Seq(Points), Increasing(a), Increasing(b),
         ToSet(a) = ToSet(b)
  PROVE  \A i \in 1 .. Len(a) : i <= Len(b) /\ a[i] = b[i]
<1> DEFINE Same(i) == i <= Len(b) /\ a[i] = b[i]
           S == {k \in Nat : \A i \in 1 .. Len(a) : i <= k => Same(i)}
<1>1. 0 \in S
  OBVIOUS
<1>2. ASSUME NEW k \in Nat, k \in S PROVE k + 1 \in S
  <2> SUFFICES ASSUME NEW i \in 1 .. Len(a), i <= k + 1 PROVE Same(i)
    OBVIOUS
  <2>1. \A j \in 1 .. Len(a) : j < i => j <= Len(b) /\ a[j] = b[j]
    <3>1. \A j \in 1 .. Len(a) : j < i => j <= k
      OBVIOUS
    <3> QED
      BY <1>2, <3>1
  <2> QED
    BY <2>1, NoFirstDifference
<1>3. Nat \subseteq S
  <2> HIDE DEF S
  <2> QED
    BY <1>1, <1>2, Inductive
<1>4. Len(a) \in S
  <2> HIDE DEF S
  <2> QED
    BY <1>3
<1> QED
  BY <1>4

\* Increasing lists with the same members are equal.
LEMMA SameIncreasing ==
  ASSUME NEW a \in Seq(Points), NEW b \in Seq(Points), Increasing(a), Increasing(b),
         ToSet(a) = ToSet(b)
  PROVE  a = b
<1>1. \A i \in 1 .. Len(a) : i <= Len(b) /\ a[i] = b[i]
  BY IncreasingPrefix
<1>2. \A i \in 1 .. Len(b) : i <= Len(a) /\ a[i] = b[i]
  BY IncreasingPrefix
<1>3. Len(a) = Len(b)
  <2>1. Len(a) \in Nat /\ Len(b) \in Nat
    OBVIOUS
  <2>2. Len(a) # 0 => Len(a) <= Len(b)
    BY <1>1, <2>1
  <2>3. Len(b) # 0 => Len(b) <= Len(a)
    BY <1>2, <2>1
  <2> QED
    BY <2>1, <2>2, <2>3
<1> QED
  BY <1>1, <1>3

-----------------------------------------------------------------------------
(* The rectangle that Lean lists.                                          *)

IsFlat(g, seqs) ==
  g = [i \in 1 .. Len(seqs) |-> IF i = 1 THEN seqs[i] ELSE g[i - 1] \o seqs[i]]

\* The concatenation of any number of sequences exists.
LEMMA FlatExists ==
  ASSUME NEW seqs, Len(seqs) \in Nat
  PROVE  \E g : IsFlat(g, seqs)
<1> DEFINE n == Len(seqs)
           Step(g, i) == IF i = 1 THEN seqs[i] ELSE g[i - 1] \o seqs[i]
           E(k) == \E g : g = [i \in 1 .. k |-> Step(g, i)]
           S == {k \in Nat : E(k)}
<1>1. 0 \in S
  <2> DEFINE g == [i \in 1 .. 0 |-> seqs[i]]
  <2>1. g = [i \in 1 .. 0 |-> Step(g, i)]
    OBVIOUS
  <2> HIDE DEF g
  <2> QED
    BY <2>1
<1>2. ASSUME NEW k \in Nat, k \in S PROVE k + 1 \in S
  <2>1. PICK f : f = [i \in 1 .. k |-> Step(f, i)]
    BY <1>2
  <2> DEFINE g == [i \in 1 .. k + 1 |-> IF i = k + 1 THEN Step(f, k + 1) ELSE f[i]]
  <2>2. ASSUME NEW i \in 1 .. k + 1 PROVE g[i] = Step(g, i)
    <3>1. i # 1 => g[i - 1] = f[i - 1]
      OBVIOUS
    <3>2. Step(g, i) = Step(f, i)
      BY <3>1
    <3>3. i # k + 1 => f[i] = Step(f, i)
      <4> HIDE DEF Step
      <4> QED
        BY <2>1
    <3> HIDE DEF Step
    <3> QED
      BY <3>2, <3>3
  <2>3. g = [i \in 1 .. k + 1 |-> Step(g, i)]
    BY <2>2
  <2> HIDE DEF g, Step
  <2>4. E(k + 1)
    BY <2>3
  <2> HIDE DEF E
  <2> QED
    BY <2>4
<1>3. Nat \subseteq S
  <2> HIDE DEF S
  <2> QED
    BY <1>1, <1>2, Inductive
<1>4. E(n)
  BY <1>3
<1> QED
  BY <1>4 DEF IsFlat

\* A concatenation goes on one sequence at a time.
LEMMA FlattenBySteps ==
  ASSUME NEW seqs, Len(seqs) \in Nat
  PROVE  /\ Len(seqs) = 0 => FlattenSeq(seqs) = seqs
         /\ \E g : IsFlat(g, seqs) /\ (Len(seqs) # 0 => FlattenSeq(seqs) = g[Len(seqs)])
<1> DEFINE g == CHOOSE h : IsFlat(h, seqs)
<1>1. IsFlat(g, seqs)
  BY FlatExists
<1>2. Len(seqs) # 0 => FlattenSeq(seqs) = g[Len(seqs)]
  BY DEF FlattenSeq, IsFlat
<1>3. Len(seqs) = 0 => FlattenSeq(seqs) = seqs
  BY DEF FlattenSeq
<1> QED
  BY <1>1, <1>2, <1>3

Column(x, a, n) == [j \in 1 .. n |-> <<x, j - 1 + a>>]

\* A column of the rectangle, pair by pair.
LEMMA ColumnParts ==
  ASSUME NEW x \in Int, NEW a \in Int, NEW n \in Nat
  PROVE  /\ Column(x, a, n) \in Seq(Points)
         /\ Increasing(Column(x, a, n))
         /\ ToSet(Column(x, a, n)) = {x} \X (a .. a + n - 1)
<1> DEFINE c == Column(x, a, n)
<1>1. DOMAIN c = 1 .. n /\ \A j \in 1 .. n : c[j] = <<x, j - 1 + a>>
  BY DEF Column
<1>2. \A j \in 1 .. n : c[j] \in Points
  <2> SUFFICES ASSUME NEW j \in 1 .. n PROVE c[j] \in Int \X Int
    BY DEF Points
  <2> DEFINE y == j - 1 + a
  <2>1. y \in Int /\ c[j] = <<x, y>>
    BY <1>1
  <2> HIDE DEF y, c
  <2> QED
    BY <2>1
<1>3. c \in Seq(Points)
  BY <1>2 DEF Column
<1> HIDE DEF c
<1>4. Increasing(c)
  <2> SUFFICES ASSUME NEW i \in 1 .. n, NEW j \in 1 .. n, i < j PROVE Before(c[i], c[j])
    BY <1>1 DEF Increasing
  <2>1. c[i][1] = x /\ c[j][1] = x /\ c[i][2] = i - 1 + a /\ c[j][2] = j - 1 + a
    BY <1>1
  <2> QED
    BY <2>1 DEF Before
<1>5. ToSet(c) \subseteq {x} \X (a .. a + n - 1)
  <2> SUFFICES ASSUME NEW j \in 1 .. n PROVE c[j] \in {x} \X (a .. a + n - 1)
    BY <1>1 DEF ToSet
  <2> DEFINE y == j - 1 + a
  <2>1. y \in a .. a + n - 1 /\ c[j] = <<x, y>>
    BY <1>1
  <2> HIDE DEF y
  <2> QED
    BY <2>1
<1>6. {x} \X (a .. a + n - 1) \subseteq ToSet(c)
  <2> SUFFICES ASSUME NEW y \in a .. a + n - 1 PROVE <<x, y>> \in ToSet(c)
    OBVIOUS
  <2>1. y - a + 1 \in 1 .. n /\ (y - a + 1) - 1 + a = y
    OBVIOUS
  <2>2. c[y - a + 1] = <<x, y>>
    BY <1>1, <2>1
  <2> QED
    BY <1>1, <2>1, <2>2 DEF ToSet
<1> QED
  BY <1>3, <1>4, <1>5, <1>6 DEF c

Rows(x, m, a, n) == [i \in 1 .. m |-> Column(i - 1 + x, a, n)]

Lists(l, x, m, a, n) ==
  /\ l \in Seq(Points) /\ Increasing(l)
  /\ ToSet(l) = (x .. x + m - 1) \X (a .. a + n - 1)

\* The rows one after the other list the rectangle in order.
LEMMA RectangleListed ==
  ASSUME NEW x \in Int, NEW m \in Nat, NEW a \in Int, NEW n \in Nat
  PROVE  Lists(FlattenSeq(Rows(x, m, a, n)), x, m, a, n)
<1> DEFINE rows == Rows(x, m, a, n)
           Listed(l, k) == /\ l \in Seq(Points) /\ Increasing(l)
                           /\ ToSet(l) = (x .. x + k - 1) \X (a .. a + n - 1)
<1>1. Len(rows) = m /\ \A i \in 1 .. m : rows[i] = Column(i - 1 + x, a, n)
  BY DEF Rows
<1>2. ASSUME NEW i \in 1 .. m
      PROVE  /\ rows[i] \in Seq(Points) /\ Increasing(rows[i])
             /\ ToSet(rows[i]) = {i - 1 + x} \X (a .. a + n - 1)
  <2>1. i - 1 + x \in Int
    OBVIOUS
  <2>2. rows[i] = Column(i - 1 + x, a, n)
    BY <1>1
  <2> HIDE DEF rows
  <2> DEFINE y == i - 1 + x
  <2>3. y \in Int /\ rows[i] = Column(y, a, n)
    BY <2>1, <2>2
  <2>4. rows[i] \in Seq(Points) /\ Increasing(rows[i]) /\ ToSet(rows[i]) = {y} \X (a .. a + n - 1)
    <3> HIDE DEF y
    <3> QED
      BY <2>3, ColumnParts
  <2> QED
    BY <2>4
<1>3. CASE m = 0
  <2>1. rows = <<>> /\ FlattenSeq(rows) = rows
    <3>1. rows = <<>>
      BY <1>3 DEF Rows
    <3>2. FlattenSeq(rows) = rows
      <4> HIDE DEF rows
      <4> QED
        BY <1>1, <1>3, FlattenBySteps
    <3> QED
      BY <3>1, <3>2
  <2>2. <<>> \in Seq(Points) /\ Increasing(<<>>) /\ ToSet(<<>>) = {}
    BY DEF Increasing, ToSet
  <2>3. x .. x + m - 1 = {}
    BY <1>3
  <2> HIDE DEF rows
  <2> QED
    BY <2>1, <2>2, <2>3 DEF rows, Lists
<1>4. CASE m # 0
  <2>1. PICK g : IsFlat(g, rows) /\ FlattenSeq(rows) = g[m]
    <3> HIDE DEF rows
    <3> QED
      BY <1>1, <1>4, FlattenBySteps
  <2>2. g[1] = rows[1] /\ \A i \in 2 .. m : g[i] = g[i - 1] \o rows[i]
    <3> HIDE DEF rows
    <3>1. g = [i \in 1 .. m |-> IF i = 1 THEN rows[i] ELSE g[i - 1] \o rows[i]]
      BY <1>1, <2>1 DEF IsFlat
    <3>2. 1 \in 1 .. m /\ \A i \in 2 .. m : i \in 1 .. m /\ i # 1
      BY <1>4
    <3>3. \A i \in 1 .. m : g[i] = IF i = 1 THEN rows[i] ELSE g[i - 1] \o rows[i]
      BY <3>1, Zenon
    <3> QED
      BY <3>2, <3>3
  <2> HIDE DEF rows
  <2> DEFINE S == {k \in Nat : k + 1 <= m => Listed(g[k + 1], k + 1)}
  <2>3. 0 \in S
    <3>1. 0 + 1 = 1 /\ 1 - 1 + x = x /\ x .. x + 1 - 1 = {x} /\ 1 \in 1 .. m
      BY <1>4
    <3> QED
      BY <1>2, <2>2, <3>1
  <2>4. ASSUME NEW k \in Nat, k \in S PROVE k + 1 \in S
    <3> SUFFICES ASSUME (k + 1) + 1 <= m PROVE Listed(g[(k + 1) + 1], (k + 1) + 1)
      OBVIOUS
    <3> DEFINE b == rows[(k + 1) + 1]
               f == g[k + 1]
    <3>1. (k + 1) + 1 \in 2 .. m /\ k + 1 <= m /\ ((k + 1) + 1) - 1 = k + 1 /\ (k + 1) + 1 \in 1 .. m
      OBVIOUS
    <3>2. g[(k + 1) + 1] = f \o b /\ Listed(f, k + 1)
      BY <2>2, <2>4, <3>1
    <3>3. /\ b \in Seq(Points) /\ Increasing(b)
          /\ ToSet(b) = {k + 1 + x} \X (a .. a + n - 1)
      BY <1>2, <3>1
    <3> HIDE DEF b, f
    <3>4. ASSUME NEW p \in ToSet(f), NEW q \in ToSet(b) PROVE Before(p, q)
      <4>1. p[1] \in x .. x + (k + 1) - 1 /\ q[1] = k + 1 + x
        BY <3>2, <3>3
      <4> QED
        BY <4>1 DEF Before
    <3>5. f \o b \in Seq(Points) /\ Increasing(f \o b) /\ ToSet(f \o b) = ToSet(f) \cup ToSet(b)
      BY <3>2, <3>3, <3>4, IncreasingConcat
    <3>6. x .. x + ((k + 1) + 1) - 1 = (x .. x + (k + 1) - 1) \cup {k + 1 + x}
      OBVIOUS
    <3>7. ToSet(f \o b) = (x .. x + ((k + 1) + 1) - 1) \X (a .. a + n - 1)
      BY <3>2, <3>3, <3>5, <3>6
    <3> QED
      BY <3>2, <3>5, <3>7
  <2>5. Nat \subseteq S
    <3> HIDE DEF S
    <3> QED
      BY <2>3, <2>4, Inductive
  <2>6. m - 1 \in S /\ (m - 1) + 1 = m
    <3> HIDE DEF S
    <3> QED
      BY <1>4, <2>5, m - 1 \in Nat
  <2>7. Listed(g[m], m)
    BY <2>6
  <2> QED
    BY <2>1, <2>7 DEF rows, Lists
<1> QED
  BY <1>3, <1>4

\* The pairs that Lean lists are those of the relation, in order.
LEMMA ValidPairsListed ==
  ASSUME NEW q, q.x_start \in Nat, q.x_stop \in Nat, q.y_start \in Nat, q.y_stop \in Nat,
         q.x_start <= q.x_stop, q.y_start <= q.y_stop,
         \A p \in (q.x_start .. q.x_stop - 1) \X (q.y_start .. q.y_stop - 1) :
           Value(q.expression, [x |-> p[1], y |-> p[2]], "lean")
             = Value(q.expression, [x |-> p[1], y |-> p[2]], "python")
  PROVE  /\ ValidPairs(q) \in Seq(Points)
         /\ Increasing(ValidPairs(q))
         /\ ToSet(ValidPairs(q)) = MeantPairs(q)
<1> DEFINE x == q.x_start
           m == q.x_stop - q.x_start
           a == q.y_start
           n == q.y_stop - q.y_start
           kept == {p \in Nat \X Nat : Value(q.expression, [x |-> p[1], y |-> p[2]], "lean")}
           flat == FlattenSeq(Rows(x, m, a, n))
<1>1. x \in Int /\ m \in Nat /\ a \in Int /\ n \in Nat /\ x + m - 1 = q.x_stop - 1 /\ a + n - 1 = q.y_stop - 1
  OBVIOUS
<1>2. ValidPairs(q) = Filter(flat, kept)
  BY DEF ValidPairs, Rows, Column
<1>3. flat \in Seq(Points) /\ Increasing(flat) /\ ToSet(flat) = (x .. x + m - 1) \X (a .. a + n - 1)
  <2>1. Lists(flat, x, m, a, n)
    BY <1>1, RectangleListed
  <2> HIDE DEF flat, x, m, a, n
  <2> QED
    BY <2>1 DEF Lists
<1>4. /\ Filter(flat, kept) \in Seq(Points) /\ Increasing(Filter(flat, kept))
      /\ ToSet(Filter(flat, kept)) = ToSet(flat) \cap kept
  <2> HIDE DEF flat, kept
  <2> QED
    BY <1>3, FilterIncreases
<1>5. ((q.x_start .. q.x_stop - 1) \X (q.y_start .. q.y_stop - 1)) \cap kept = MeantPairs(q)
  <2>1. (q.x_start .. q.x_stop - 1) \X (q.y_start .. q.y_stop - 1) \subseteq Nat \X Nat
    OBVIOUS
  <2> QED
    BY <2>1 DEF MeantPairs
<1>6. ToSet(Filter(flat, kept)) = MeantPairs(q)
  <2> HIDE DEF flat, kept
  <2> QED
    BY <1>1, <1>3, <1>4, <1>5
<1> QED
  BY <1>2, <1>4, <1>6

\* Sequences of the same length and elements are equal.

\* Two sequences of one length and one element at each position are one.
LEMMA SameElements ==
  ASSUME NEW S, NEW a \in Seq(S), NEW b \in Seq(S), Len(a) = Len(b), \A i \in 1 .. Len(a) : a[i] = b[i]
  PROVE  a = b
  OBVIOUS

\* The positions of a sequence with a new last element.
LEMMA AppendParts ==
  ASSUME NEW S, NEW s \in Seq(S), NEW e \in S
  PROVE  /\ Append(s, e) \in Seq(S) /\ Len(s) \in Nat /\ Len(Append(s, e)) = Len(s) + 1
         /\ \A i \in 1 .. Len(s) : Append(s, e)[i] = s[i]
         /\ Append(s, e)[Len(s) + 1] = e
  OBVIOUS

\* The positions of two sequences in a row.
LEMMA ConcatParts ==
  ASSUME NEW S, NEW s \in Seq(S), NEW t \in Seq(S)
  PROVE  /\ s \o t \in Seq(S) /\ Len(s) \in Nat /\ Len(t) \in Nat /\ Len(s \o t) = Len(s) + Len(t)
         /\ \A i \in 1 .. Len(s) : (s \o t)[i] = s[i]
         /\ \A i \in 1 .. Len(t) : (s \o t)[Len(s) + i] = t[i]
  OBVIOUS

\* A pair as appended elements.
LEMMA TwoAppended ==
  ASSUME NEW S, NEW x \in S, NEW y \in S PROVE Append(<<x>>, y) = <<x, y>>
<1> DEFINE s == <<x>>
           v == <<x, y>>
<1>1. s \in Seq(S) /\ Len(s) = 1 /\ s[1] = x
  OBVIOUS
<1>2. v \in Seq(S) /\ Len(v) = 2 /\ v[1] = x /\ v[2] = y
  OBVIOUS
<1> HIDE DEF s, v
<1> DEFINE u == Append(s, y)
<1>3. u \in Seq(S) /\ Len(u) = 2 /\ u[1] = x /\ u[2] = y
  <2>1. u \in Seq(S) /\ Len(u) = Len(s) + 1 /\ (\A i \in 1 .. Len(s) : u[i] = s[i]) /\ u[Len(s) + 1] = y
    BY <1>1, AppendParts, ZenonT(40)
  <2> HIDE DEF u
  <2> QED
    BY <1>1, <2>1
<1> HIDE DEF u
<1>4. \A i \in 1 .. 2 : i = 1 \/ i = 2
  OBVIOUS
<1>5. u = v
  BY <1>2, <1>3, <1>4, SameElements
<1> QED
  BY <1>5 DEF s, u, v

\* A triple as appended elements.
LEMMA ThreeAppended ==
  ASSUME NEW S, NEW x \in S, NEW y \in S, NEW z \in S PROVE Append(<<x, y>>, z) = <<x, y, z>>
<1> DEFINE s == <<x, y>>
           v == <<x, y, z>>
<1>1. s \in Seq(S) /\ Len(s) = 2 /\ s[1] = x /\ s[2] = y
  OBVIOUS
<1>2. v \in Seq(S) /\ Len(v) = 3 /\ v[1] = x /\ v[2] = y /\ v[3] = z
  OBVIOUS
<1> HIDE DEF s, v
<1> DEFINE u == Append(s, z)
<1>3. u \in Seq(S) /\ Len(u) = 3 /\ u[1] = x /\ u[2] = y /\ u[3] = z
  <2>1. u \in Seq(S) /\ Len(u) = Len(s) + 1 /\ (\A i \in 1 .. Len(s) : u[i] = s[i]) /\ u[Len(s) + 1] = z
    <3>1. s \in Seq(S)
      BY <1>1
    <3> QED
      BY <3>1, AppendParts
  <2> HIDE DEF u
  <2> QED
    BY <1>1, <2>1
<1> HIDE DEF u
<1>4. \A i \in 1 .. 3 : i = 1 \/ i = 2 \/ i = 3
  OBVIOUS
<1>5. u = v
  BY <1>2, <1>3, <1>4, SameElements
<1> QED
  BY <1>5 DEF s, u, v

\* Two one-element sequences in a row.
LEMMA Joined ==
  ASSUME NEW S, NEW x \in S, NEW y \in S PROVE <<x>> \o <<y>> = <<x, y>>
<1> DEFINE s == <<x>>
           t == <<y>>
           v == <<x, y>>
<1>1. s \in Seq(S) /\ Len(s) = 1 /\ s[1] = x /\ t \in Seq(S) /\ Len(t) = 1 /\ t[1] = y
  OBVIOUS
<1>2. v \in Seq(S) /\ Len(v) = 2 /\ v[1] = x /\ v[2] = y
  OBVIOUS
<1> HIDE DEF s, t, v
<1> DEFINE u == s \o t
<1>3. u \in Seq(S) /\ Len(u) = 2 /\ u[1] = x /\ u[2] = y
  <2>1. /\ u \in Seq(S) /\ Len(u) = Len(s) + Len(t)
        /\ \A i \in 1 .. Len(s) : u[i] = s[i]
        /\ \A i \in 1 .. Len(t) : u[Len(s) + i] = t[i]
    BY <1>1, ConcatParts
  <2>2. 1 \in 1 .. Len(s) /\ 1 \in 1 .. Len(t) /\ Len(s) + 1 = 2
    BY <1>1
  <2> HIDE DEF u
  <2> QED
    BY <1>1, <2>1, <2>2
<1> HIDE DEF u
<1>4. \A i \in 1 .. 2 : i = 1 \/ i = 2
  OBVIOUS
<1>5. u = v
  BY <1>2, <1>3, <1>4, SameElements
<1> QED
  BY <1>5 DEF s, t, u, v

\* A character that is no separator joins the last part.
LEMMA SplitAppendsToLast ==
  ASSUME NEW parts \in Seq(Seq(Int)), NEW last \in Seq(Int), NEW t \in Int, NEW separator, t # separator
  PROVE  SplitStep(Append(parts, last), t, separator) = Append(parts, Append(last, t))
<1> DEFINE p == Append(parts, last)
           r == Append(parts, Append(last, t))
           e == [p EXCEPT ![Len(p)] = Append(@, t)]
           n == Len(parts)
<1>1. n \in Nat /\ Append(last, t) \in Seq(Int)
  OBVIOUS
<1>2. /\ DOMAIN p = 1 .. n + 1 /\ DOMAIN r = 1 .. n + 1 /\ Len(p) = n + 1
      /\ p[n + 1] = last /\ r[n + 1] = Append(last, t)
      /\ \A i \in 1 .. n : p[i] = r[i]
      /\ p \in Seq(Seq(Int)) /\ r \in Seq(Seq(Int))
  BY <1>1
<1>3. SplitStep(p, t, separator) = e
  BY DEF SplitStep
<1> HIDE DEF p, r, n
<1>4. e = [i \in 1 .. n + 1 |-> IF i = n + 1 THEN Append(p[i], t) ELSE p[i]]
  BY <1>1, <1>2
<1>5. r = [i \in 1 .. n + 1 |-> r[i]]
  BY <1>2
<1>6. \A i \in 1 .. n + 1 : r[i] = IF i = n + 1 THEN Append(p[i], t) ELSE p[i]
  BY <1>1, <1>2
<1>7. e = r
  BY <1>4, <1>5, <1>6
<1> QED
  BY <1>3, <1>7 DEF p, r

\* The text splits in these parts and, so far, a last one.
Ends(text, separator, parts, last) == SplitOn(text, separator) = Append(parts, last)

\* A text without separators joins the last part.
LEMMA SplitFurther ==
  ASSUME NEW text \in Seq(Int), NEW parts \in Seq(Seq(Int)), NEW last \in Seq(Int), NEW separator,
         Ends(text, separator, parts, last),
         NEW t \in Int, t # separator
  PROVE  Ends(Append(text, t), separator, parts, Append(last, t)) /\ Append(text, t) \in Seq(Int)
<1>1. SplitOn(Append(text, t), separator) = SplitStep(SplitOn(text, separator), t, separator)
  BY SplitAppend
<1>2. SplitStep(Append(parts, last), t, separator) = Append(parts, Append(last, t))
  BY SplitAppendsToLast
<1>3. Append(text, t) \in Seq(Int)
  OBVIOUS
<1> QED
  BY <1>1, <1>2, <1>3 DEF Ends

\* A separator begins a part.
LEMMA SplitHere ==
  ASSUME NEW text \in Seq(Int), NEW separator \in Int
  PROVE  SplitOn(Append(text, separator), separator) = Append(SplitOn(text, separator), <<>>)
  BY SplitAppend DEF SplitStep

\* The comma and the semicolon are two characters.
LEMMA Separators == Comma \in Int /\ Semicolon \in Int /\ Comma # Semicolon
                    /\ Comma \notin Nat /\ Semicolon \notin Nat
  BY DEF Comma, Semicolon

\* The text of one pair is decoded to the pair.
LEMMA PairDecoded ==
  ASSUME NEW a \in 0 .. MaxBound, NEW b \in 0 .. MaxBound
  PROVE  DecodePair(<<a, Comma, b>>) = <<a, b>>
<1>1. a \in Int /\ b \in Int /\ a # Comma /\ b # Comma
  BY Separators, AnswerAssumption
<1>2. <<>> \in Seq(Int) /\ <<>> \in Seq(Seq(Int)) /\ Ends(<<>>, Comma, <<>>, <<>>)
  BY SplitEmpty DEF Ends
<1>3. SplitOn(<<a>>, Comma) = << <<a>> >> /\ <<a>> \in Seq(Int)
  <2>1. Ends(Append(<<>>, a), Comma, <<>>, Append(<<>>, a)) /\ Append(<<>>, a) \in Seq(Int)
    BY <1>1, <1>2, SplitFurther, Separators
  <2>2. Append(<<>>, a) = <<a>> /\ Append(<<>>, <<a>>) = << <<a>> >>
    OBVIOUS
  <2> QED
    BY <2>1, <2>2, Zenon DEF Ends
<1>4. SplitOn(<<a, Comma>>, Comma) = << <<a>>, <<>> >> /\ <<a, Comma>> \in Seq(Int)
  <2>1. SplitOn(Append(<<a>>, Comma), Comma) = Append(<< <<a>> >>, <<>>)
    <3>1. SplitOn(Append(<<a>>, Comma), Comma) = Append(SplitOn(<<a>>, Comma), <<>>)
      BY <1>3, SplitHere, Separators
    <3> QED
      BY <1>3, <3>1, Zenon
  <2>2. Append(<<a>>, Comma) = <<a, Comma>>
    BY <1>1, TwoAppended, Separators
  <2>3. Append(<< <<a>> >>, <<>>) = << <<a>>, <<>> >>
    BY <1>2, <1>3, TwoAppended
  <2>4. <<a, Comma>> \in Seq(Int)
    BY <1>1, Separators
  <2> QED
    BY <2>1, <2>2, <2>3, <2>4, Zenon
<1>5. SplitOn(<<a, Comma, b>>, Comma) = << <<a>>, <<b>> >>
  <2>1. << <<a>> >> \in Seq(Seq(Int)) /\ Append(<<>>, b) = <<b>> /\ <<b>> \in Seq(Int)
    BY <1>1
  <2>2. Ends(<<a, Comma>>, Comma, << <<a>> >>, <<>>)
    <3>1. Append(<< <<a>> >>, <<>>) = << <<a>>, <<>> >>
      BY <1>2, <1>3, TwoAppended
    <3> QED
      BY <1>4, <3>1, Zenon DEF Ends
  <2>3. SplitOn(Append(<<a, Comma>>, b), Comma) = Append(<< <<a>> >>, Append(<<>>, b))
    <3> DEFINE text == <<a, Comma>>
               first == << <<a>> >>
    <3>1. text \in Seq(Int) /\ first \in Seq(Seq(Int)) /\ Ends(text, Comma, first, <<>>)
      BY <1>4, <2>1, <2>2, Zenon
    <3> HIDE DEF text, first
    <3>2. Ends(Append(text, b), Comma, first, Append(<<>>, b))
      BY <1>1, <1>2, <3>1, SplitFurther, Separators
    <3> QED
      BY <3>2 DEF Ends, text, first
  <2>4. Append(<<a, Comma>>, b) = <<a, Comma, b>>
    BY <1>1, ThreeAppended, Separators
  <2>5. Append(<< <<a>> >>, <<b>>) = << <<a>>, <<b>> >>
    BY <1>3, <2>1, TwoAppended
  <2> QED
    BY <2>1, <2>3, <2>4, <2>5, Zenon
<1> DEFINE parts == << <<a>>, <<b>> >>
<1>6. Len(parts) = 2 /\ parts[1] = <<a>> /\ parts[2] = <<b>>
  OBVIOUS
<1>7. Len(<<a>>) = 1 /\ Len(<<b>>) = 1 /\ <<a>>[1] = a /\ <<b>>[1] = b
  OBVIOUS
<1>8. <<a>> \o <<b>> = <<a, b>>
  BY <1>1, Joined
<1> HIDE DEF parts
<1>9. SplitOn(<<a, Comma, b>>, Comma) = parts
  BY <1>5 DEF parts
<1>10. /\ Len(parts) = 2
       /\ \A i \in {1, 2} : Len(parts[i]) = 1 /\ parts[i][1] \in 0 .. MaxBound
  BY <1>6, <1>7
<1>11. DecodePair(<<a, Comma, b>>) = parts[1] \o parts[2]
  BY <1>9, <1>10 DEF DecodePair
<1> QED
  BY <1>6, <1>8, <1>11, Zenon

Triple(p) == <<p[1], Comma, p[2]>>

Link(k) == IF k = 1 THEN <<>> ELSE <<Semicolon>>

IsText(g, pairs) ==
  g = [k \in 0 .. Len(pairs) |->
         IF k = 0 THEN <<>> ELSE g[k - 1] \o Link(k) \o Triple(pairs[k])]

\* The text of a list of pairs exists.
LEMMA TextExists ==
  ASSUME NEW pairs, Len(pairs) \in Nat
  PROVE  \E g : IsText(g, pairs)
<1> DEFINE n == Len(pairs)
           Step(g, i) == IF i = 0 THEN <<>> ELSE g[i - 1] \o Link(i) \o Triple(pairs[i])
           E(k) == \E g : g = [i \in 0 .. k |-> Step(g, i)]
           S == {k \in Nat : E(k)}
<1>1. 0 \in S
  <2> DEFINE g == [i \in 0 .. 0 |-> <<>>]
  <2>1. g = [i \in 0 .. 0 |-> Step(g, i)]
    OBVIOUS
  <2> HIDE DEF g
  <2> QED
    BY <2>1
<1>2. ASSUME NEW k \in Nat, k \in S PROVE k + 1 \in S
  <2>1. PICK f : f = [i \in 0 .. k |-> Step(f, i)]
    BY <1>2
  <2> DEFINE g == [i \in 0 .. k + 1 |-> IF i = k + 1 THEN Step(f, k + 1) ELSE f[i]]
  <2>2. ASSUME NEW i \in 0 .. k + 1 PROVE g[i] = Step(g, i)
    <3>1. i # 0 => g[i - 1] = f[i - 1]
      OBVIOUS
    <3>2. Step(g, i) = Step(f, i)
      BY <3>1
    <3>3. i # k + 1 => f[i] = Step(f, i)
      <4> HIDE DEF Step
      <4> QED
        BY <2>1
    <3> HIDE DEF Step
    <3> QED
      BY <3>2, <3>3
  <2>3. g = [i \in 0 .. k + 1 |-> Step(g, i)]
    BY <2>2
  <2> HIDE DEF g, Step
  <2>4. E(k + 1)
    BY <2>3
  <2> HIDE DEF E
  <2> QED
    BY <2>4
<1>3. Nat \subseteq S
  <2> HIDE DEF S
  <2> QED
    BY <1>1, <1>2, Inductive
<1>4. E(n)
  BY <1>3
<1> QED
  BY <1>4 DEF IsText

Digits(pairs) == \A i \in DOMAIN pairs : {pairs[i][1], pairs[i][2]} \subseteq 0 .. MaxBound

\* One more pair in the text is one more part.
LEMMA TripleSplit ==
  ASSUME NEW text \in Seq(Int), NEW parts \in Seq(Seq(Int)), Ends(text, Semicolon, parts, <<>>),
         NEW p, p[1] \in 0 .. MaxBound, p[2] \in 0 .. MaxBound
  PROVE  /\ text \o Triple(p) \in Seq(Int)
         /\ text \o Triple(p) # <<>>
         /\ SplitOn(text \o Triple(p), Semicolon) = Append(parts, Triple(p))
<1> DEFINE a == p[1]
           b == p[2]
<1>1. a \in Int /\ b \in Int /\ Comma \in Int /\ a # Semicolon /\ b # Semicolon /\ Comma # Semicolon
  BY Separators, AnswerAssumption
<1> HIDE DEF a, b
<1>2. text \o <<a, Comma, b>> = Append(Append(Append(text, a), Comma), b)
  BY <1>1
<1>3. <<>> \in Seq(Int) /\ <<a>> \in Seq(Int) /\ <<a, Comma>> \in Seq(Int)
  BY <1>1
<1>4. Append(<<>>, a) = <<a>> /\ Append(<<a>>, Comma) = <<a, Comma>> /\ Append(<<a, Comma>>, b) = <<a, Comma, b>>
  <2>1. Append(<<>>, a) = <<a>>
    OBVIOUS
  <2>2. Append(<<a>>, Comma) = <<a, Comma>>
    BY <1>1, TwoAppended
  <2>3. Append(<<a, Comma>>, b) = <<a, Comma, b>>
    BY <1>1, ThreeAppended
  <2> QED
    BY <2>1, <2>2, <2>3, Zenon
<1>5. Ends(Append(text, a), Semicolon, parts, <<a>>) /\ Append(text, a) \in Seq(Int)
  <2>1. Ends(Append(text, a), Semicolon, parts, Append(<<>>, a)) /\ Append(text, a) \in Seq(Int)
    BY <1>1, <1>3, SplitFurther
  <2> QED
    BY <1>4, <2>1, Zenon
<1> DEFINE u == Append(text, a)
           v == Append(u, Comma)
<1>6. Ends(v, Semicolon, parts, <<a, Comma>>) /\ v \in Seq(Int)
  <2> HIDE DEF u
  <2>1. Ends(v, Semicolon, parts, Append(<<a>>, Comma)) /\ v \in Seq(Int)
    <3> DEFINE one == <<a>>
    <3>1. one \in Seq(Int) /\ u \in Seq(Int) /\ Ends(u, Semicolon, parts, one)
      BY <1>3, <1>5 DEF u
    <3> HIDE DEF one
    <3> QED
      BY <1>1, <3>1, SplitFurther DEF one
  <2> QED
    BY <1>4, <2>1, Zenon
<1>7. Ends(Append(v, b), Semicolon, parts, <<a, Comma, b>>) /\ Append(v, b) \in Seq(Int)
  <2> HIDE DEF v
  <2>1. Ends(Append(v, b), Semicolon, parts, Append(<<a, Comma>>, b)) /\ Append(v, b) \in Seq(Int)
    BY <1>1, <1>3, <1>6, SplitFurther
  <2> QED
    BY <1>4, <2>1, Zenon
<1>8. Append(v, b) # <<>>
  <2> HIDE DEF v
  <2>1. v \in Seq(Int) /\ b \in Int
    BY <1>1, <1>6
  <2>2. Len(Append(v, b)) = Len(v) + 1 /\ Len(v) \in Nat
    BY <2>1, AppendParts
  <2>3. Len(Append(v, b)) # 0
    BY <2>2
  <2>4. Len(<<>>) = 0
    OBVIOUS
  <2> QED
    BY <2>3, <2>4, Zenon
<1> HIDE DEF v
<1>9. text \o <<a, Comma, b>> = Append(v, b)
  BY <1>2 DEF u, v
<1>10. /\ text \o <<a, Comma, b>> \in Seq(Int) /\ text \o <<a, Comma, b>> # <<>>
       /\ SplitOn(text \o <<a, Comma, b>>, Semicolon) = Append(parts, <<a, Comma, b>>)
  BY <1>7, <1>8, <1>9, Zenon DEF Ends
<1> QED
  BY <1>10, Zenon DEF Triple, a, b

Triples(pairs, k) == [i \in 1 .. k |-> Triple(pairs[i])]

\* The parts between the separators are those of the pairs.
LEMMA TriplesParts ==
  ASSUME NEW pairs \in Seq(Points), Digits(pairs), NEW k \in Nat, k <= Len(pairs)
  PROVE  /\ Triples(pairs, k) \in Seq(Seq(Int))
         /\ Triples(pairs, 0) = <<>>
         /\ k + 1 <= Len(pairs) => Triples(pairs, k + 1) = Append(Triples(pairs, k), Triple(pairs[k + 1]))
<1>1. ASSUME NEW i \in 1 .. Len(pairs) PROVE Triple(pairs[i]) \in Seq(Int)
  <2> DEFINE a == pairs[i][1]
             b == pairs[i][2]
  <2>1. a \in Int /\ b \in Int
    BY AnswerAssumption DEF Digits
  <2> HIDE DEF a, b
  <2>2. <<a, Comma, b>> \in Seq(Int)
    BY <2>1, Separators
  <2> QED
    BY <2>2 DEF Triple, a, b
<1>2. Triples(pairs, k) \in Seq(Seq(Int))
  <2>1. \A i \in 1 .. k : i \in 1 .. Len(pairs)
    OBVIOUS
  <2> QED
    BY <1>1, <2>1 DEF Triples
<1>3. Triples(pairs, 0) = <<>>
  BY DEF Triples
<1>4. ASSUME k + 1 <= Len(pairs)
      PROVE  Triples(pairs, k + 1) = Append(Triples(pairs, k), Triple(pairs[k + 1]))
  BY DEF Triples
<1> QED
  BY <1>2, <1>3, <1>4

\* The text of a certificate splits into the texts of its pairs.
LEMMA TextSplits ==
  ASSUME NEW pairs \in Seq(Points), Digits(pairs), NEW g, IsText(g, pairs)
  PROVE  \A k \in 1 .. Len(pairs) :
           g[k] \in Seq(Int) /\ g[k] # <<>> /\ SplitOn(g[k], Semicolon) = Triples(pairs, k)
<1> DEFINE n == Len(pairs)
           Good(k) == g[k] \in Seq(Int) /\ g[k] # <<>> /\ SplitOn(g[k], Semicolon) = Triples(pairs, k)
           S == {k \in Nat : k + 1 <= n => Good(k + 1)}
<1>1. n \in Nat /\ \A i \in 1 .. n : pairs[i][1] \in 0 .. MaxBound /\ pairs[i][2] \in 0 .. MaxBound
  BY DEF Digits
<1>2. ASSUME NEW k \in 1 .. n PROVE g[k] = g[k - 1] \o Link(k) \o Triple(pairs[k])
  <2>1. k \in 0 .. Len(pairs) /\ k # 0
    BY <1>1
  <2>2. g = [j \in 0 .. Len(pairs) |-> IF j = 0 THEN <<>> ELSE g[j - 1] \o Link(j) \o Triple(pairs[j])]
    BY DEF IsText
  <2>3. \A j \in 0 .. Len(pairs) : g[j] = IF j = 0 THEN <<>> ELSE g[j - 1] \o Link(j) \o Triple(pairs[j])
    BY <2>2, Zenon
  <2> QED
    BY <2>1, <2>3, Zenon
<1>3. g[0] = <<>>
  BY <1>1 DEF IsText
<1>4. 0 \in S
  <2> SUFFICES ASSUME 0 + 1 <= n PROVE Good(1)
    OBVIOUS
  <2>1. 1 \in 1 .. n /\ 1 - 1 = 0
    BY <1>1
  <2>2. <<>> \in Seq(Int) /\ <<>> \in Seq(Seq(Int)) /\ Ends(<<>>, Semicolon, <<>>, <<>>)
    BY SplitEmpty DEF Ends
  <2>3. g[1] = (<<>> \o <<>>) \o Triple(pairs[1])
    BY <1>2, <1>3, <2>1 DEF Link
  <2>4. <<>> \o <<>> = <<>>
    OBVIOUS
  <2>5. g[1] = <<>> \o Triple(pairs[1])
    BY <2>3, <2>4, Zenon
  <2>6. /\ <<>> \o Triple(pairs[1]) \in Seq(Int)
        /\ <<>> \o Triple(pairs[1]) # <<>>
        /\ SplitOn(<<>> \o Triple(pairs[1]), Semicolon) = Append(<<>>, Triple(pairs[1]))
    BY <1>1, <2>1, <2>2, TripleSplit
  <2>7. Triples(pairs, 1) = Append(<<>>, Triple(pairs[1]))
    <3>1. 0 \in Nat /\ 0 <= Len(pairs) /\ 0 + 1 = 1 /\ 1 <= Len(pairs)
      BY <1>1, <2>1
    <3> QED
      BY <3>1, TriplesParts
  <2> QED
    BY <2>5, <2>6, <2>7, Zenon
<1>5. ASSUME NEW k \in Nat, k \in S PROVE k + 1 \in S
  <2> SUFFICES ASSUME (k + 1) + 1 <= n PROVE Good((k + 1) + 1)
    OBVIOUS
  <2> DEFINE m == k + 1
             t == g[m]
             u == t \o <<Semicolon>>
             p == pairs[m + 1]
  <2>1. m \in Nat /\ m # 0 /\ m <= n /\ m + 1 \in 1 .. n /\ (m + 1) - 1 = m /\ m + 1 # 1 /\ k + 1 <= n
    BY <1>1
  <2>2. Good(m)
    BY <1>5, <2>1
  <2> HIDE DEF m
  <2>3. g[m + 1] = u \o Triple(p)
    BY <1>2, <2>1 DEF Link
  <2>4. t \in Seq(Int) /\ SplitOn(t, Semicolon) = Triples(pairs, m)
    BY <2>2
  <2> HIDE DEF t
  <2>5. u = Append(t, Semicolon) /\ u \in Seq(Int)
    BY <2>4, Separators
  <2>6. Ends(u, Semicolon, Triples(pairs, m), <<>>)
    BY <2>4, <2>5, SplitHere, Separators DEF Ends
  <2>7. Triples(pairs, m) \in Seq(Seq(Int)) /\ Triples(pairs, m + 1) = Append(Triples(pairs, m), Triple(p))
    BY <2>1, TriplesParts, SMTT(20)
  <2>8. p[1] \in 0 .. MaxBound /\ p[2] \in 0 .. MaxBound
    BY <1>1, <2>1
  <2> HIDE DEF u, p
  <2>9. /\ u \o Triple(p) \in Seq(Int) /\ u \o Triple(p) # <<>>
        /\ SplitOn(u \o Triple(p), Semicolon) = Append(Triples(pairs, m), Triple(p))
    BY <2>5, <2>6, <2>7, <2>8, TripleSplit
  <2>10. Good(m + 1)
    BY <2>3, <2>7, <2>9, Zenon
  <2> QED
    BY <2>10 DEF m
<1>6. Nat \subseteq S
  <2> HIDE DEF S
  <2> QED
    BY <1>4, <1>5, Inductive
<1> SUFFICES ASSUME NEW k \in 1 .. n PROVE Good(k)
  OBVIOUS
<1>7. k - 1 \in S /\ (k - 1) + 1 = k
  <2> HIDE DEF S
  <2> QED
    BY <1>1, <1>6
<1> QED
  BY <1>1, <1>7

\* A certificate is decoded to what was encoded.
LEMMA CertificateDecoded ==
  ASSUME NEW pairs \in Seq(Points), Digits(pairs)
  PROVE  DecodePairs(PairsText(pairs)) = pairs
<1> DEFINE g == CHOOSE h : IsText(h, pairs)
           n == Len(pairs)
<1>1. n \in Nat
  OBVIOUS
<1>2. IsText(g, pairs)
  BY <1>1, TextExists
<1>3. PairsText(pairs) = g[n]
  BY DEF PairsText, IsText, Link, Triple
<1> HIDE DEF g
<1>4. CASE n = 0
  <2>1. g[n] = <<>>
    BY <1>2, <1>4 DEF IsText
  <2>2. pairs = <<>>
    BY <1>4
  <2> QED
    BY <1>3, <2>1, <2>2 DEF DecodePairs
<1>5. CASE n # 0
  <2>1. n \in 1 .. n
    BY <1>1, <1>5
  <2>2. g[n] # <<>> /\ SplitOn(g[n], Semicolon) = Triples(pairs, n)
    BY <1>2, <2>1, TextSplits
  <2>3. DecodePairs(g[n]) = [i \in DOMAIN Triples(pairs, n) |-> DecodePair(Triples(pairs, n)[i])]
    BY <2>2 DEF DecodePairs
  <2>4. DOMAIN Triples(pairs, n) = 1 .. n
    BY DEF Triples
  <2>5. ASSUME NEW i \in 1 .. n PROVE DecodePair(Triples(pairs, n)[i]) = pairs[i]
    <3> DEFINE a == pairs[i][1]
               b == pairs[i][2]
    <3>1. Triples(pairs, n)[i] = <<a, Comma, b>>
      BY DEF Triples, Triple
    <3>2. a \in 0 .. MaxBound /\ b \in 0 .. MaxBound /\ pairs[i] = <<a, b>>
      BY <2>5 DEF Digits, Points
    <3> HIDE DEF a, b
    <3>3. DecodePair(<<a, Comma, b>>) = <<a, b>>
      BY <3>2, PairDecoded
    <3> QED
      BY <3>1, <3>2, <3>3, Zenon
  <2>6. DecodePairs(g[n]) = [i \in 1 .. n |-> pairs[i]]
    BY <2>3, <2>4, <2>5
  <2>7. pairs = [i \in 1 .. n |-> pairs[i]]
    OBVIOUS
  <2> HIDE DEF n
  <2> QED
    BY <1>3, <2>6, <2>7, Zenon
<1> QED
  BY <1>4, <1>5

\* The pair goal holds of the whole relation with its size.
LEMMA PairGoalMeans ==
  ASSUME NEW q, q.x_start \in Nat, q.x_stop \in Nat, q.y_start \in Nat, q.y_stop \in Nat,
         q.x_start <= q.x_stop, q.y_start <= q.y_stop,
         \A p \in (q.x_start .. q.x_stop - 1) \X (q.y_start .. q.y_stop - 1) :
           Value(q.expression, [x |-> p[1], y |-> p[2]], "lean")
             = Value(q.expression, [x |-> p[1], y |-> p[2]], "python"),
         NEW pairs \in Seq(Points), NEW answer, CertificateAllowed(pairs, answer)
  PROVE  PairGoal(q, pairs, answer) <=>
           ToSet(pairs) = MeantPairs(q) /\ answer = Cardinality(MeantPairs(q))
<1> DEFINE v == ValidPairs(q)
<1>1. v \in Seq(Points) /\ Increasing(v) /\ ToSet(v) = MeantPairs(q)
  BY ValidPairsListed
<1>2. Digits(pairs) /\ Increasing(pairs)
  BY SortedIncreases DEF CertificateAllowed, Digits
<1>3. DecodePairs(PairsText(pairs)) = pairs
  BY <1>2, CertificateDecoded
<1>4. \A i \in DOMAIN pairs : pairs[i] # Undecoded
  <2> SUFFICES ASSUME NEW i \in DOMAIN pairs PROVE pairs[i] # <<>>
    BY DEF Undecoded
  <2>1. pairs[i] \in Int \X Int
    BY DEF Points
  <2> QED
    BY <2>1
<1> HIDE DEF v
<1>5. PairGoal(q, pairs, answer) <=> pairs = v /\ Len(pairs) = answer
  BY <1>3, <1>4 DEF PairGoal, v
<1>6. pairs = v <=> ToSet(pairs) = MeantPairs(q)
  BY <1>1, <1>2, SameIncreasing
<1>7. Cardinality(ToSet(pairs)) = Len(pairs)
  BY <1>2, IncreasingCardinality
<1> QED
  BY <1>5, <1>6, <1>7

-----------------------------------------------------------------------------
(* The requests.                                                           *)

ScalarRequest(s) ==
  s \in [kind : STRING \ {PairKind}, expression : Tree, start : Int, stop : Int]

PairRequest(s) ==
  s \in [kind : {PairKind}, expression : Tree,
         x_start : Int, x_stop : Int, y_start : Int, y_stop : Int]

Requested ==
  /\ Candidate \in Int
  /\ \/ ScalarRequest(Spec)
     \/ PairRequest(Spec) /\ submission.pairs \in Seq(Points)

\* The command starts with a request it can be given.
LEMMA InitiallyRequested == AnswerInit => Requested
<1> SUFFICES ASSUME AnswerInit PROVE Requested
  OBVIOUS
<1>1. CASE submission \in [specification : ScalarSpecs, answer : Answers, wellFormed : BOOLEAN]
  <2>1. Spec \in ScalarSpecs /\ Candidate \in Answers
    BY <1>1 DEF Spec, Candidate
  <2> QED
    BY <2>1, AnswerAssumption DEF Requested, ScalarRequest
<1>2. CASE submission \in [specification : PairSpecs, answer : Answers,
                           pairs : Certificates, wellFormed : {TRUE}]
  <2>1. Spec \in PairSpecs /\ Candidate \in Answers /\ submission.pairs \in Certificates
    BY <1>2 DEF Spec, Candidate
  <2> QED
    BY <2>1, AnswerAssumption DEF Requested, PairRequest, Points
<1> QED
  BY <1>1, <1>2 DEF AnswerInit

\* At every point an allowed expression means in Lean what it means in Python.
LEMMA ScalarAgrees ==
  ASSUME NEW s, ScalarRequest(s), SpecAllowed(s), s.kind # "evaluate"
  PROVE  \A x \in Int : /\ LeanAt(s, x) = Meant(s, x)
                        /\ s.kind = "sum" => Meant(s, x) \in Int
<1> SUFFICES ASSUME NEW x \in Int
             PROVE  LeanAt(s, x) = Meant(s, x) /\ (s.kind = "sum" => Meant(s, x) \in Int)
  OBVIOUS
<1> DEFINE env == [x |-> x]
<1>1. Kind(s.expression, {"x"}) = IF Predicate(s.kind) THEN "prop" ELSE "int"
  BY DEF SpecAllowed, ExpressionAllowed
<1>2. Integers(env, {"x"})
  BY DEF Integers
<1>3. s.expression \in Tree
  BY DEF ScalarRequest
<1> HIDE DEF env
<1>4. Agrees(s.expression, env, {"x"})
  BY <1>2, <1>3, AcceptedAgree
<1>5. /\ Value(s.expression, env, "lean") = Value(s.expression, env, "python")
      /\ s.kind = "sum" => Value(s.expression, env, "python") \in Int
  <2>1. Accepted(Kind(s.expression, {"x"}))
    BY <1>1 DEF Accepted
  <2>2. s.kind = "sum" => Kind(s.expression, {"x"}) = "int"
    BY <1>1 DEF Predicate, PairKind
  <2> QED
    BY <1>4, <2>1, <2>2 DEF Agrees, OfKind
<1> QED
  BY <1>5 DEF LeanAt, Meant, env

\* The closed expression of an evaluation has one value in Python and in Lean.
LEMMA EvaluatedAgrees ==
  ASSUME NEW s, ScalarRequest(s), SpecAllowed(s), s.kind = "evaluate"
  PROVE  Value(s.expression, <<>>, "lean") = Value(s.expression, <<>>, "python")
<1>1. Kind(s.expression, {}) = "int"
  BY DEF SpecAllowed, ExpressionAllowed, Predicate, PairKind
<1>2. Integers(<<>>, {})
  BY DEF Integers
<1>3. s.expression \in Tree
  BY DEF ScalarRequest
<1>4. Agrees(s.expression, <<>>, {})
  BY <1>2, <1>3, AcceptedAgree
<1> QED
  BY <1>1, <1>4 DEF Agrees, Accepted

\* The condition on a pair, in Python and in Lean.
LEMMA PairAgrees ==
  ASSUME NEW s, PairRequest(s), PairSpecAllowed(s)
  PROVE  \A p \in Int \X Int :
           Value(s.expression, [x |-> p[1], y |-> p[2]], "lean")
             = Value(s.expression, [x |-> p[1], y |-> p[2]], "python")
<1> SUFFICES ASSUME NEW p \in Int \X Int
             PROVE  Value(s.expression, [x |-> p[1], y |-> p[2]], "lean")
                      = Value(s.expression, [x |-> p[1], y |-> p[2]], "python")
  OBVIOUS
<1> DEFINE env == [x |-> p[1], y |-> p[2]]
<1>1. Kind(s.expression, {"x", "y"}) = "prop"
  BY DEF PairSpecAllowed, ExpressionAllowed, Predicate, PairRequest
<1>2. Integers(env, {"x", "y"})
  BY DEF Integers
<1>3. s.expression \in Tree
  BY DEF PairRequest
<1> HIDE DEF env
<1>4. Agrees(s.expression, env, {"x", "y"})
  BY <1>2, <1>3, AcceptedAgree
<1>5. Value(s.expression, env, "lean") = Value(s.expression, env, "python")
  BY <1>1, <1>4 DEF Agrees, Accepted
<1> QED
  BY <1>5 DEF env

\* The compiled goal of a constructed request holds if the answer is right.
LEMMA GoalMeansRight ==
  ASSUME Requested, Constructed
  PROVE  Goal <=> Right
<1>1. CASE Spec.kind = PairKind
  <2>1. PairRequest(Spec) /\ submission.pairs \in Seq(Points)
    BY <1>1 DEF Requested, ScalarRequest
  <2>2. PairSpecAllowed(Spec) /\ CertificateAllowed(submission.pairs, Candidate)
    BY <1>1 DEF Constructed
  <2>3. /\ Spec.x_start \in Nat /\ Spec.x_stop \in Nat /\ Spec.x_start <= Spec.x_stop
        /\ Spec.y_start \in Nat /\ Spec.y_stop \in Nat /\ Spec.y_start <= Spec.y_stop
    BY <2>1, <2>2 DEF PairRequest, PairSpecAllowed, Bounds
  <2>4. \A p \in (Spec.x_start .. Spec.x_stop - 1) \X (Spec.y_start .. Spec.y_stop - 1) :
           Value(Spec.expression, [x |-> p[1], y |-> p[2]], "lean")
             = Value(Spec.expression, [x |-> p[1], y |-> p[2]], "python")
    <3>1. (Spec.x_start .. Spec.x_stop - 1) \X (Spec.y_start .. Spec.y_stop - 1) \subseteq Int \X Int
      OBVIOUS
    <3> QED
      BY <2>1, <2>2, <3>1, PairAgrees
  <2>5. PairGoal(Spec, submission.pairs, Candidate) <=>
          ToSet(submission.pairs) = MeantPairs(Spec) /\ Candidate = Cardinality(MeantPairs(Spec))
    BY <2>1, <2>2, <2>3, <2>4, PairGoalMeans
  <2>6. Goal = PairGoal(Spec, submission.pairs, Candidate)
    BY <1>1 DEF Goal, PairKind
  <2>7. Right <=> ToSet(submission.pairs) = MeantPairs(Spec) /\ Candidate = Cardinality(MeantPairs(Spec))
    BY <1>1 DEF Right, PairKind
  <2> QED
    BY <2>5, <2>6, <2>7
<1>2. CASE Spec.kind # PairKind
  <2>1. ScalarRequest(Spec) /\ SpecAllowed(Spec) /\ Candidate \in Int
    BY <1>2 DEF Requested, PairRequest, Constructed
  <2>2. Spec.start \in Int /\ Spec.stop \in Int /\ Spec.start <= Spec.stop
    BY <2>1 DEF ScalarRequest, SpecAllowed, Bounds
  <2>3. CASE Spec.kind = "evaluate"
    <3>1. Goal <=> Value(Spec.expression, <<>>, "lean") = Candidate
      BY <2>3 DEF Goal, PairKind, EvaluateGoal
    <3>2. Right <=> Candidate = Value(Spec.expression, <<>>, "python")
      BY <2>3 DEF Right, PairKind
    <3> QED
      BY <2>1, <2>3, <3>1, <3>2, EvaluatedAgrees
  <2>4. CASE Spec.kind = "sum"
    <3>1. Goal <=> SumGoal(Spec, Candidate)
      BY <2>4 DEF Goal, PairKind
    <3>2. Right <=> Candidate = TotalOver(Spec.start .. Spec.stop - 1, Spec)
      BY <2>4 DEF Right, PairKind, TotalOver
    <3>3. SumGoal(Spec, Candidate) <=> SumOver(ListRange(Spec.stop - Spec.start), Spec) = Candidate
      BY DEF SumGoal, SumOver
    <3>4. \A x \in Spec.start .. Spec.stop - 1 : LeanAt(Spec, x) = Meant(Spec, x) /\ Meant(Spec, x) \in Int
      BY <2>1, <2>2, <2>4, ScalarAgrees
    <3>5. SumOver(ListRange(Spec.stop - Spec.start), Spec) = TotalOver(Spec.start .. Spec.stop - 1, Spec)
      BY <2>2, <3>4, SumIsTotal
    <3> QED
      BY <3>1, <3>2, <3>3, <3>5
  <2>5. CASE Spec.kind = "count"
    <3>1. Goal <=> CountGoal(Spec, Candidate)
      BY <2>5 DEF Goal, PairKind
    <3>2. Right <=> Candidate = Cardinality(Satisfying(Spec))
      BY <2>5 DEF Right, PairKind
    <3>3. \A x \in Spec.start .. Spec.stop - 1 : LeanAt(Spec, x) = Meant(Spec, x)
      BY <2>1, <2>2, <2>5, ScalarAgrees
    <3> QED
      BY <2>2, <3>1, <3>2, <3>3, CountIsCardinality
  <2>6. CASE Spec.kind = "minimum"
    <3>1. Goal <=> MinimumGoal(Spec, Candidate)
      BY <2>6 DEF Goal, PairKind
    <3>2. Right <=> Satisfying(Spec) # {} /\ Candidate = Min(Satisfying(Spec))
      BY <2>6 DEF Right, PairKind
    <3>3. \A x \in Spec.start .. Spec.stop - 1 : LeanAt(Spec, x) = Meant(Spec, x)
      BY <2>1, <2>2, <2>6, ScalarAgrees
    <3> QED
      BY <2>1, <2>2, <3>1, <3>2, <3>3, MinimumIsLeast
  <2> QED
    BY <2>1, <2>3, <2>4, <2>5, <2>6 DEF SpecAllowed
<1> QED
  BY <1>1, <1>2

\* How far the request is, and what is known by then.
AnswerInv ==
  /\ Requested
  /\ stage \in {"compile", "check"} => Constructed
  /\ stage = "check" => goal \in {"true", "false"}
  /\ goal \in {"true", "false"} => Constructed /\ (goal = "true" <=> Goal)
  /\ exitCode = 0 => status = "checked_success"
  /\ status = "checked_success" => goal = "true"
  /\ status = "mathematical_rejection" => goal = "false"

\* The invariant holds of a new request.
LEMMA AnswerInvInit == AnswerInit => AnswerInv
<1> SUFFICES ASSUME AnswerInit PROVE AnswerInv
  OBVIOUS
<1>1. Requested
  BY InitiallyRequested
<1> QED
  BY <1>1 DEF AnswerInit, AnswerInv, None, Running

\* The request itself does not change.
LEMMA SubmissionKept ==
  ASSUME AnswerNext
  PROVE  submission' = submission
  BY DEF AnswerNext, Parse, Construct, Compile, Checked, OutputUndecodable, CloseRunner

\* No step of the command changes what it was asked.
LEMMA RequestUnchanged ==
  ASSUME submission' = submission
  PROVE  /\ Requested' <=> Requested
         /\ Constructed' <=> Constructed
         /\ Goal' <=> Goal
<1>1. Requested' <=> Requested
  BY DEF Requested, Spec, Candidate
<1>2. Constructed' <=> Constructed
  BY DEF Constructed, Spec, Candidate
<1>3. Goal' <=> Goal
  BY DEF Goal, Spec, Candidate
<1> QED
  BY <1>1, <1>2, <1>3

\* Every step of the command keeps the invariant.
LEMMA AnswerInvNext == AnswerInv /\ [AnswerNext]_answerVars => AnswerInv'
<1> SUFFICES ASSUME AnswerInv, [AnswerNext]_answerVars PROVE AnswerInv'
  OBVIOUS
<1>1. submission' = submission
  BY SubmissionKept DEF answerVars
<1>2. /\ Requested' <=> Requested
      /\ Constructed' <=> Constructed
      /\ Goal' <=> Goal
  BY <1>1, RequestUnchanged
<1>3. CASE Parse
  BY <1>2, <1>3 DEF AnswerInv, Parse, InvalidInput, Reply
<1>4. CASE Construct
  BY <1>2, <1>4 DEF AnswerInv, Construct, InvalidInput, Reply
<1>5. CASE Compile
  BY <1>2, <1>5 DEF AnswerInv, Compile, InvalidInput, Reply
<1>6. CASE Checked
  <2>1. PICK verdict \in Promise!Permitted(goal) :
          Reply(verdict, IF verdict = "checked_success" THEN 0 ELSE 1)
    BY <1>6 DEF Checked
  <2>2. /\ verdict = "checked_success" => goal = "true"
        /\ verdict = "mathematical_rejection" => goal = "false"
    BY <2>1 DEF Promise!Permitted
  <2>3. goal' = goal /\ stage = "check"
    BY <1>6 DEF Checked
  <2> QED
    BY <1>2, <2>1, <2>2, <2>3 DEF AnswerInv, Reply
<1>7. CASE OutputUndecodable
  BY <1>2, <1>7 DEF AnswerInv, OutputUndecodable, InvalidInput, Reply
<1>8. CASE CloseRunner
  BY <1>2, <1>8 DEF AnswerInv, CloseRunner
<1>9. CASE UNCHANGED answerVars
  BY <1>2, <1>9 DEF AnswerInv, answerVars
<1> QED
  BY <1>3, <1>4, <1>5, <1>6, <1>7, <1>8, <1>9 DEF AnswerNext

\* The command holds its invariant through compilation and check (answer_check.py).
THEOREM AnswerInvAlways == AnswerSpec => []AnswerInv
  BY AnswerInvInit, AnswerInvNext, PTL DEF AnswerSpec

\* What the invariant says of accepted expressions.
LEMMA InvAccepted == AnswerInv => AcceptedExpressionsAgree
<1> SUFFICES ASSUME AnswerInv, stage = "check", Spec.kind # PairKind,
                    NEW x \in Spec.start .. Spec.stop - 1
             PROVE  LeanAt(Spec, x) = Meant(Spec, x)
  BY DEF AcceptedExpressionsAgree
<1>1. ScalarRequest(Spec) /\ SpecAllowed(Spec)
  BY DEF AnswerInv, Requested, PairRequest, Constructed
<1>2. Spec.kind # "evaluate"
  BY <1>1 DEF SpecAllowed, ScalarRequest
<1>3. x \in Int
  BY <1>1 DEF ScalarRequest
<1> QED
  BY <1>1, <1>2, <1>3, ScalarAgrees

\* What the invariant says of the verdict.
LEMMA InvVerdict == AnswerInv => VerdictMeansSpec
<1> SUFFICES ASSUME AnswerInv PROVE VerdictMeansSpec
  OBVIOUS
<1>1. goal \in {"true", "false"} => (goal = "true" <=> Right)
  BY GoalMeansRight DEF AnswerInv
<1> QED
  BY <1>1 DEF AnswerInv, VerdictMeansSpec

\* An expression that specification.py accepts has one value in Python and in
\* the Lean text it is compiled to, for every request.
THEOREM AcceptedExpressionsAgreeAlways == AnswerSpec => []AcceptedExpressionsAgree
  BY AnswerInvAlways, InvAccepted, PTL

\* The verdict of the command is what the specification says of the answer,
\* for scalar answers, counts, sums, minima and certificates of pairs.
THEOREM VerdictMeansSpecAlways == AnswerSpec => []VerdictMeansSpec
  BY AnswerInvAlways, InvVerdict, PTL

=============================================================================
