--------------------------- MODULE SanitizerProofs ---------------------------
(***************************************************************************)
(* The sanitizer, for sources and documents of any length: the passes keep *)
(* the lines of a source and exactly its code, and the gates with the      *)
(* template contract let through what they should and nothing else.        *)
(***************************************************************************)
EXTENDS LexicalScan, TemplateContract, WellFoundedInduction, SequenceTheorems, TLAPS

LEMMA LeastNatural ==
  ASSUME NEW T, T \in SUBSET Nat, T # {}
  PROVE  \E m \in T : \A k \in T : m <= k
<1>1. PICK m \in T : \A k \in T : ~(<<k, m>> \in OpToRel(<, Nat))
  BY NatLessThanWellFounded, WFMin
<1>2. \A k \in T : ~(k < m)
  BY <1>1 DEF OpToRel
<1> QED
  BY <1>2

-----------------------------------------------------------------------------
(* The passes: what has been put out is as long as what has been read, and *)
(* keeps its lines; the second pass reads what the first put out.          *)
Texts == Seq(Characters \cup {"blank"})

LexicalInv ==
  /\ source \in Texts /\ text \in Texts /\ out \in Texts
  /\ pass \in {"comments", "strings", "done"} /\ reading \in {"lines", "whole"}
  /\ i \in 1 .. Len(text) + 1
  /\ Len(out) = i - 1
  /\ \A p \in 1 .. i - 1 : Keeps(out, text, p)
  /\ Len(text) = Len(source)
  /\ \A p \in 1 .. Len(source) : Keeps(text, source, p)
  /\ pass = "done" => i = Len(text) + 1

LEMMA LexicalInitially == ScanInit => LexicalInv
<1> SUFFICES ASSUME ScanInit PROVE LexicalInv
  OBVIOUS
<1>1. source \in Texts /\ text = source /\ i = 1 /\ out = <<>> /\ pass = "comments"
      /\ reading \in {"lines", "whole"}
  BY LexicalAssumption DEF ScanInit, Texts
<1> QED
  BY <1>1 DEF LexicalInv, Keeps, Texts

\* Taking characters, with as many put out for them that keep their lines.
LEMMA TakeKeepsLines ==
  ASSUME LexicalInv, NEW k \in Nat, NEW s \in Texts, Take(k, s), Len(s) = k, pass # "done",
         i + k <= Len(text) + 1,
         \A q \in 1 .. k : s[q] = text[i + q - 1] \/ (s[q] = "blank" /\ text[i + q - 1] # "newline")
  PROVE  LexicalInv'
<1>1. /\ i' = i + k /\ out' = out \o s /\ UNCHANGED <<source, reading, text, pass>>
      /\ i \in Nat /\ i >= 1 /\ Len(out) = i - 1 /\ out \in Texts /\ Len(text) \in Nat
  BY DEF Take, LexicalInv, Texts
<1>2. out' \in Texts /\ Len(out') = i' - 1
  <2>1. s \in Seq(Characters \cup {"blank"}) /\ out \in Seq(Characters \cup {"blank"})
    BY <1>1 DEF Texts
  <2>2. out \o s \in Seq(Characters \cup {"blank"}) /\ Len(out \o s) = Len(out) + Len(s)
    BY <2>1, ConcatProperties
  <2> QED
    BY <1>1, <2>2 DEF Texts
<1>3. ASSUME NEW p \in 1 .. i' - 1 PROVE Keeps(out', text, p)
  <2>1. CASE p <= i - 1
    <3>1. out'[p] = out[p] /\ p \in 1 .. i - 1
      BY <1>1, <2>1 DEF Texts
    <3> QED
      BY <3>1 DEF LexicalInv, Keeps
  <2>2. CASE p > i - 1
    <3>1. PICK q \in 1 .. k : q = p - (i - 1) /\ i + q - 1 = p
      BY <1>1, <2>2
    <3>2. out'[p] = s[q]
      BY <1>1, <2>2, <3>1 DEF Texts
    <3> QED
      BY <3>1, <3>2 DEF Keeps
  <2> QED
    BY <1>1, <2>1, <2>2
<1>4. i' \in 1 .. Len(text) + 1
  BY <1>1
<1>5. \A p \in 1 .. i' - 1 : Keeps(out, text, p)'
  BY <1>1, <1>3 DEF Keeps
<1>6. \A p \in 1 .. Len(source) : Keeps(text, source, p)'
  BY <1>1 DEF LexicalInv, Keeps
<1> QED
  BY <1>1, <1>2, <1>4, <1>5, <1>6 DEF LexicalInv

\* The end of the line behind a position in it.
LEMMA RestOfLineExists ==
  ASSUME text \in Texts, i \in 1 .. Len(text), text[i] # "newline"
  PROVE  /\ RestOfLine \in 1 .. Len(text) + 1 - i
         /\ i + RestOfLine = Len(text) + 1 \/ text[i + RestOfLine] = "newline"
         /\ \A j \in 0 .. RestOfLine - 1 : text[i + j] # "newline"
<1> DEFINE Ends == {k \in 1 .. Len(text) + 1 - i : i + k = Len(text) + 1 \/ text[i + k] = "newline"}
<1>1. Len(text) \in Nat
  BY DEF Texts
<1>2. Ends \in SUBSET Nat /\ Len(text) + 1 - i \in Ends
  BY <1>1
<1>3. PICK k \in Ends : \A m \in Ends : k <= m
  BY <1>2, LeastNatural
<1>4. ASSUME NEW j \in 0 .. k - 1 PROVE text[i + j] # "newline"
  <2>1. CASE j = 0
    BY <2>1, <1>1
  <2>2. CASE j # 0
    <3>1. j \notin Ends /\ j \in 1 .. Len(text) + 1 - i
      BY <1>1, <1>3, <2>2
    <3> QED
      BY <3>1
  <2> QED
    BY <2>1, <2>2
<1>5. \E m \in 1 .. Len(text) + 1 - i :
        /\ i + m = Len(text) + 1 \/ text[i + m] = "newline"
        /\ \A j \in 0 .. m - 1 : text[i + j] # "newline"
  BY <1>3, <1>4
<1> QED
  BY <1>5 DEF RestOfLine

\* The three shapes of what is put out.
LEMMA TakeOne ==
  ASSUME LexicalInv, NEW x, Take(1, <<x>>), pass # "done", i <= Len(text),
         x = text[i] \/ (x = "blank" /\ text[i] # "newline")
  PROVE  LexicalInv'
<1>1. x \in Characters \cup {"blank"} /\ i \in Nat /\ Len(text) \in Nat
  BY DEF LexicalInv, Texts
<1> DEFINE s == <<x>>
<1>2. s \in Texts /\ Len(s) = 1 /\ s[1] = x
  BY <1>1 DEF Texts
<1>3. Take(1, s)
  OBVIOUS
<1> HIDE DEF s
<1>4. \A q \in 1 .. 1 : q = 1 /\ i + q - 1 = i
  BY <1>1
<1>5. \A q \in 1 .. 1 : s[q] = text[i + q - 1] \/ (s[q] = "blank" /\ text[i + q - 1] # "newline")
  BY <1>2, <1>4
<1>6. i + 1 <= Len(text) + 1
  BY <1>1
<1> QED
  BY <1>2, <1>3, <1>5, <1>6, TakeKeepsLines

LEMMA TakeTwo ==
  ASSUME LexicalInv, Take(2, <<"blank", "blank">>), pass # "done", i < Len(text),
         text[i] # "newline", text[i + 1] # "newline"
  PROVE  LexicalInv'
<1>1. i \in Nat /\ Len(text) \in Nat /\ i + 2 <= Len(text) + 1
  BY DEF LexicalInv, Texts
<1> DEFINE s == <<"blank", "blank">>
<1>2. s \in Texts /\ Len(s) = 2 /\ s[1] = "blank" /\ s[2] = "blank"
  BY DEF Texts
<1> HIDE DEF s
<1>3. \A q \in 1 .. 2 : (q = 1 /\ i + q - 1 = i) \/ (q = 2 /\ i + q - 1 = i + 1)
  BY <1>1
<1>4. Take(2, s)
  BY DEF s
<1>5. \A q \in 1 .. 2 : s[q] = "blank" /\ text[i + q - 1] # "newline"
  BY <1>2, <1>3
<1> QED
  BY <1>1, <1>2, <1>4, <1>5, TakeKeepsLines

LEMMA TakeLine ==
  ASSUME LexicalInv, pass # "done", i <= Len(text), text[i] # "newline",
         Take(RestOfLine, [j \in 1 .. RestOfLine |-> "blank"])
  PROVE  LexicalInv'
<1>1. PICK k : k = RestOfLine
  OBVIOUS
<1>2. text \in Texts /\ i \in 1 .. Len(text) /\ Len(text) \in Nat
  BY DEF LexicalInv, Texts
<1>3. k \in 1 .. Len(text) + 1 - i /\ \A j \in 0 .. k - 1 : text[i + j] # "newline"
  BY <1>1, <1>2, RestOfLineExists
<1>4. k \in Nat /\ i + k <= Len(text) + 1
  BY <1>2, <1>3
<1> DEFINE s == [j \in 1 .. k |-> "blank"]
<1>5. s \in Texts /\ Len(s) = k /\ \A q \in 1 .. k : s[q] = "blank"
  BY <1>4 DEF Texts
<1>6. Take(k, s)
  BY <1>1
<1> HIDE DEF s
<1>7. \A q \in 1 .. k : q - 1 \in 0 .. k - 1 /\ i + (q - 1) = i + q - 1
  BY <1>2, <1>4
<1>8. \A q \in 1 .. k : text[i + q - 1] # "newline"
  BY <1>3, <1>7
<1> QED
  BY <1>4, <1>5, <1>6, <1>8, TakeKeepsLines

LEMMA LexicalStep == LexicalInv /\ [ScanNext]_scanVars => LexicalInv'
<1> SUFFICES ASSUME LexicalInv, [ScanNext]_scanVars PROVE LexicalInv'
  OBVIOUS
<1>0. i \in Nat /\ Len(text) \in Nat
  BY DEF LexicalInv, Texts
<1>1. CASE InsideComment
  <2>1. /\ pass # "done" /\ i <= Len(text)
        /\ \/ Take(2, <<"blank", "blank">>) /\ (At("slash", "dash") \/ At("dash", "slash"))
           \/ Take(1, <<Blank(text[i])>>)
    BY <1>1 DEF InsideComment, More
  <2>2. CASE Take(2, <<"blank", "blank">>) /\ (At("slash", "dash") \/ At("dash", "slash"))
    BY <2>1, <2>2, TakeTwo DEF At
  <2>3. CASE Take(1, <<Blank(text[i])>>)
    BY <2>1, <2>3, TakeOne DEF Blank
  <2> QED
    BY <2>1, <2>2, <2>3
<1>2. CASE InsideString
  BY <1>2, TakeOne DEF InsideString, More
<1>3. CASE LineComment
  BY <1>0, <1>3, TakeLine DEF LineComment, Code, More, At
<1>4. CASE OpenComment
  BY <1>4, TakeTwo DEF OpenComment, Code, At
<1>5. CASE CodeCharacter
  BY <1>5, TakeOne DEF CodeCharacter, Code, More
<1>6. CASE BlankString
  BY <1>6, TakeOne DEF BlankString, More
<1>7. CASE StringNewline
  BY <1>7, TakeOne DEF StringNewline, More
<1>8. CASE CopyCode
  BY <1>8, TakeOne DEF CopyCode, More
<1>9. CASE EndOfPass
  <2>1. i = Len(text) + 1 /\ UNCHANGED <<source, reading>>
    BY <1>0, <1>9 DEF EndOfPass, More, LexicalInv
  <2>2. CASE pass = "comments"
    <3>1. pass' = "strings" /\ text' = out /\ i' = 1 /\ out' = <<>>
      BY <1>9, <2>2 DEF EndOfPass
    <3>2. out \in Texts /\ Len(out) = Len(source) /\ Len(source) = Len(text) /\ Len(source) \in Nat
      BY <1>0, <2>1 DEF LexicalInv
    <3>3. \A p \in 1 .. Len(source) : Keeps(out, source, p)
      <4>1. \A p \in 1 .. Len(source) : Keeps(out, text, p) /\ Keeps(text, source, p)
        BY <2>1, <3>2 DEF LexicalInv
      <4> QED
        BY <4>1 DEF Keeps
    <3>4. out' \in Texts /\ Len(out') = 0 /\ 1 .. i' - 1 = {} /\ i' \in 1 .. Len(text') + 1
      BY <3>1, <3>2 DEF Texts
    <3>5. \A p \in 1 .. Len(source) : Keeps(text, source, p)'
      BY <2>1, <3>1, <3>3 DEF Keeps
    <3> QED
      BY <2>1, <3>1, <3>2, <3>4, <3>5 DEF LexicalInv
  <2>3. CASE pass # "comments"
    <3>1. pass' = "done" /\ UNCHANGED <<text, i, out>>
      BY <1>9, <2>3 DEF EndOfPass
    <3> QED
      BY <2>1, <3>1 DEF LexicalInv, Keeps
  <2> QED
    BY <2>2, <2>3
<1>10. CASE UNCHANGED scanVars
  BY <1>10 DEF scanVars, LexicalInv, Keeps
<1> QED
  BY <1>1, <1>2, <1>3, <1>4, <1>5, <1>6, <1>7, <1>8, <1>9, <1>10 DEF ScanNext

(* For every source, well formed or not: the two passes keep its length    *)
(* and its newlines, and put out nothing but its characters and blanks.    *)
THEOREM PassesKeepLines == ScanSpec => []LinesKept
<1>1. LexicalInv => LinesKept
  <2> SUFFICES ASSUME LexicalInv, pass = "done" PROVE LinesKept
    BY DEF LinesKept
  <2>1. Len(out) = Len(source) /\ Len(source) = i - 1 /\ DOMAIN source = 1 .. Len(source)
        /\ Len(text) = Len(source)
    BY DEF LexicalInv, Texts
  <2>2. \A p \in DOMAIN source : Keeps(out, text, p) /\ Keeps(text, source, p)
    BY <2>1 DEF LexicalInv
  <2> QED
    BY <2>1, <2>2 DEF LinesKept, Keeps
<1> QED
  BY <1>1, LexicalInitially, LexicalStep, PTL DEF ScanSpec

-----------------------------------------------------------------------------
(* The reference definition of what is code: where the lexemes of a source *)
(* end.  The reading by descent is a recursive function of places, which   *)
(* exists because what a place needs lies behind it.                       *)
\* What holds at 0 and goes on from each number holds of all.
LEMMA Inductive ==
  ASSUME NEW S, 0 \in S, \A k \in Nat : k \in S => k + 1 \in S
  PROVE  Nat \subseteq S
<1> SUFFICES ASSUME NEW x \in Nat \ S PROVE FALSE
  OBVIOUS
<1>1. PICK m \in Nat \ S : \A k \in Nat \ S : m <= k
  BY LeastNatural
<1>2. m # 0 /\ m - 1 \in Nat
  BY <1>1
<1>3. m - 1 \in S
  BY <1>1, <1>2
<1> QED
  BY <1>1, <1>2, <1>3

\* What the end of a comment is at a position, by the ends behind it.
AfterAt(after, s, p) ==
  IF p > Len(s) THEN p
  ELSE IF Pair(s, p, "dash", "slash") THEN p + 2
  ELSE IF Pair(s, p, "slash", "dash") THEN after[after[p + 2]] ELSE after[p + 1]
IsAfter(f, s) == f = [p \in 1 .. Len(s) + 1 |-> AfterAt(f, s, p)]
AfterFrom(f, s, a) ==
  /\ f \in [a .. Len(s) + 1 -> 1 .. Len(s) + 1]
  /\ \A p \in a .. Len(s) + 1 : f[p] = AfterAt(f, s, p) /\ f[p] >= p

LEMMA AfterExists ==
  ASSUME NEW s, NEW n \in Nat, n = Len(s)
  PROVE  \E f : AfterFrom(f, s, 1)
<1> DEFINE K == {k \in Nat : k <= n => \E f : AfterFrom(f, s, (n + 1) - k)}
<1>1. 0 \in K
  <2> DEFINE f == [p \in n + 1 .. n + 1 |-> p]
  <2>1. (n + 1) - 0 = n + 1 /\ \A p \in n + 1 .. n + 1 : p = n + 1 /\ p > Len(s)
    OBVIOUS
  <2>2. f \in [n + 1 .. n + 1 -> 1 .. n + 1] /\ \A p \in n + 1 .. n + 1 : f[p] = p
    OBVIOUS
  <2> HIDE DEF f
  <2>3. AfterFrom(f, s, n + 1)
    BY <2>1, <2>2 DEF AfterFrom, AfterAt
  <2> QED
    BY <2>1, <2>3
<1>2. ASSUME NEW k \in Nat, k \in K PROVE k + 1 \in K
  <2> SUFFICES ASSUME k + 1 <= n PROVE \E f : AfterFrom(f, s, (n + 1) - (k + 1))
    OBVIOUS
  <2> HIDE DEF K
  <2> PICK a : a = n - k
    OBVIOUS
  <2>a. a \in 1 .. n /\ (n + 1) - (k + 1) = a
    OBVIOUS
  <2> PICK f : AfterFrom(f, s, a + 1)
    <3>1. (n + 1) - k = a + 1
      OBVIOUS
    <3> QED
      BY <1>2, <3>1 DEF K
  <2> DEFINE g == [p \in a .. n + 1 |-> IF p = a THEN AfterAt(f, s, a) ELSE f[p]]
  <2>1. \A p \in a + 1 .. n + 1 : f[p] \in 1 .. n + 1 /\ f[p] = AfterAt(f, s, p) /\ f[p] >= p
    BY DEF AfterFrom
  <2> USE <2>a
  <2>2. AfterAt(f, s, a) \in 1 .. n + 1 /\ AfterAt(f, s, a) >= a
    <3>1. CASE Pair(s, a, "dash", "slash")
      BY <3>1 DEF AfterAt, Pair
    <3>2. CASE ~Pair(s, a, "dash", "slash") /\ Pair(s, a, "slash", "dash")
      <4>1. a + 2 \in a + 1 .. n + 1
        BY <3>2 DEF Pair
      <4> PICK q \in a + 1 .. n + 1 : q = f[a + 2]
        BY <2>1, <4>1
      <4>2. f[q] \in 1 .. n + 1 /\ f[q] >= q
        BY <2>1
      <4>3. AfterAt(f, s, a) = f[q]
        BY <3>2 DEF AfterAt
      <4> QED
        BY <4>2, <4>3
    <3>3. CASE ~Pair(s, a, "dash", "slash") /\ ~Pair(s, a, "slash", "dash")
      <4>1. a + 1 \in a + 1 .. n + 1
        OBVIOUS
      <4>2. f[a + 1] \in 1 .. n + 1 /\ f[a + 1] >= a + 1
        BY <2>1, <4>1
      <4>3. AfterAt(f, s, a) = f[a + 1]
        BY <3>3 DEF AfterAt
      <4> QED
        BY <4>2, <4>3
    <3> QED
      BY <3>1, <3>2, <3>3
  <2>3. ASSUME NEW p \in a .. n + 1 PROVE AfterAt(g, s, p) = AfterAt(f, s, p)
    <3>1. \A q \in a + 1 .. n + 1 : g[q] = f[q]
      OBVIOUS
    <3> HIDE DEF g
    <3>2. CASE p > n
      BY <3>2 DEF AfterAt
    <3>3. CASE p <= n /\ Pair(s, p, "slash", "dash")
      <4>1. p + 2 \in a + 1 .. n + 1
        BY <3>3 DEF Pair
      <4> PICK q \in a + 1 .. n + 1 : q = f[p + 2]
        BY <2>1, <4>1
      <4>2. g[p + 2] = q /\ g[q] = f[q]
        BY <3>1, <4>1
      <4>3. g[g[p + 2]] = f[f[p + 2]]
        BY <4>2
      <4> QED
        BY <3>3, <4>3, Zenon DEF AfterAt
    <3>4. CASE p <= n /\ ~Pair(s, p, "slash", "dash")
      <4>1. p + 1 \in a + 1 .. n + 1
        BY <3>4
      <4> QED
        BY <3>1, <3>4, <4>1, Zenon DEF AfterAt
    <3> QED
      BY <3>2, <3>3, <3>4
  <2>4. ASSUME NEW p \in a .. n + 1 PROVE g[p] \in 1 .. n + 1 /\ g[p] = AfterAt(f, s, p) /\ g[p] >= p
    <3>1. CASE p = a
      BY <2>2, <3>1
    <3>2. CASE p # a
      <4>1. p \in a + 1 .. n + 1
        BY <3>2
      <4>2. g[p] = f[p]
        BY <3>2
      <4> QED
        BY <2>1, <4>1, <4>2
    <3> QED
      BY <3>1, <3>2
  <2>5. g = [p \in a .. n + 1 |-> g[p]]
    OBVIOUS
  <2> HIDE DEF g
  <2>6. AfterFrom(g, s, a)
    BY <2>3, <2>4, <2>5 DEF AfterFrom
  <2> QED
    BY <2>6, <2>a
<1>3. n \in K
  <2> HIDE DEF K
  <2> QED
    BY <1>1, <1>2, Inductive
<1>4. (n + 1) - n = 1
  OBVIOUS
<1> QED
  BY <1>3, <1>4

LEMMA AfterBounds ==
  ASSUME NEW s, NEW n \in Nat, n = Len(s), NEW f, IsAfter(f, s), NEW p \in 1 .. n + 1
  PROVE  f[p] \in p .. n + 1 /\ (p <= n => f[p] > p)
<1> DEFINE Bounded(q) == f[q] \in q .. n + 1 /\ (q <= n => f[q] > q)
           K == {k \in Nat : k <= n => \A q \in (n + 1) - k .. n + 1 : Bounded(q)}
<1>1. \A q \in 1 .. n + 1 : f[q] = AfterAt(f, s, q)
  BY DEF IsAfter
<1>2. 0 \in K
  <2>1. \A q \in (n + 1) - 0 .. n + 1 : q = n + 1
    OBVIOUS
  <2>2. Bounded(n + 1)
    BY <1>1 DEF AfterAt
  <2> HIDE DEF Bounded
  <2> QED
    BY <2>1, <2>2
<1>3. ASSUME NEW k \in Nat, k \in K PROVE k + 1 \in K
  <2> SUFFICES ASSUME k + 1 <= n, NEW a \in (n + 1) - (k + 1) .. n + 1 PROVE Bounded(a)
    OBVIOUS
  <2>1. \A q \in (n + 1) - k .. n + 1 : f[q] \in q .. n + 1
    BY <1>3
  <2>2. CASE a >= (n + 1) - k
    BY <1>3, <2>2
  <2>3. CASE a < (n + 1) - k
    <3>1. a \in 1 .. n /\ a + 1 \in (n + 1) - k .. n + 1 /\ f[a] = AfterAt(f, s, a)
      BY <1>1, <2>3
    <3>2. CASE Pair(s, a, "dash", "slash")
      <4>1. f[a] = a + 2 /\ a + 2 <= n + 1
        BY <3>1, <3>2 DEF AfterAt, Pair
      <4> QED
        BY <3>1, <4>1
    <3>3. CASE ~Pair(s, a, "dash", "slash") /\ Pair(s, a, "slash", "dash")
      <4>1. a + 2 \in (n + 1) - k .. n + 1
        BY <3>1, <3>3 DEF Pair
      <4> PICK q \in a + 2 .. n + 1 : q = f[a + 2]
        BY <2>1, <4>1
      <4>2. q \in (n + 1) - k .. n + 1
        BY <3>1
      <4>3. f[q] \in q .. n + 1
        BY <2>1, <4>2
      <4>4. f[a] = f[q]
        BY <3>1, <3>3 DEF AfterAt
      <4> QED
        BY <3>1, <4>3, <4>4
    <3>4. CASE ~Pair(s, a, "dash", "slash") /\ ~Pair(s, a, "slash", "dash")
      <4>1. f[a] = f[a + 1]
        BY <3>1, <3>4 DEF AfterAt
      <4>2. f[a + 1] \in a + 1 .. n + 1
        BY <2>1, <3>1
      <4> QED
        BY <3>1, <4>1, <4>2
    <3> QED
      BY <3>2, <3>3, <3>4
  <2> QED
    BY <2>2, <2>3
<1>4. n \in K
  <2> HIDE DEF K
  <2> QED
    BY <1>2, <1>3, Inductive
<1>5. (n + 1) - n = 1
  OBVIOUS
<1> QED
  BY <1>4, <1>5

\* Where a comment ends, by where what is behind it ends.
LEMMA CommentEndFacts ==
  ASSUME NEW s, NEW n \in Nat, n = Len(s), NEW p \in 1 .. n + 1
  PROVE  /\ p > n => CommentEnd(s)[p] = p
         /\ p <= n =>
              CommentEnd(s)[p] = IF Pair(s, p, "dash", "slash") THEN p + 2
                                 ELSE IF Pair(s, p, "slash", "dash") THEN CommentEnd(s)[CommentEnd(s)[p + 2]]
                                 ELSE CommentEnd(s)[p + 1]
         /\ CommentEnd(s)[p] \in p .. n + 1
         /\ p <= n => CommentEnd(s)[p] > p
<1> PICK f : f = CommentEnd(s)
  OBVIOUS
<1>1. f = CHOOSE g : IsAfter(g, s)
  BY Zenon DEF CommentEnd, IsAfter, AfterAt
<1>2. \E g : IsAfter(g, s)
  <2> PICK g : AfterFrom(g, s, 1)
    BY AfterExists
  <2>1. g = [q \in 1 .. Len(s) + 1 |-> g[q]] /\ \A q \in 1 .. Len(s) + 1 : g[q] = AfterAt(g, s, q)
    BY DEF AfterFrom
  <2>2. [q \in 1 .. Len(s) + 1 |-> g[q]] = [q \in 1 .. Len(s) + 1 |-> AfterAt(g, s, q)]
    BY <2>1
  <2>3. IsAfter(g, s)
    BY <2>1, <2>2, Zenon DEF IsAfter
  <2> QED
    BY <2>3
<1>3. IsAfter(f, s)
  BY <1>1, <1>2, Zenon
<1>4. f[p] = AfterAt(f, s, p)
  BY <1>3 DEF IsAfter
<1>5. f[p] \in p .. n + 1 /\ (p <= n => f[p] > p)
  BY <1>3, AfterBounds
<1>6. p > n => f[p] = p
  BY <1>4 DEF AfterAt
<1>7. p <= n => f[p] = IF Pair(s, p, "dash", "slash") THEN p + 2
                       ELSE IF Pair(s, p, "slash", "dash") THEN f[f[p + 2]] ELSE f[p + 1]
  BY <1>4 DEF AfterAt
<1> QED
  BY <1>5, <1>6, <1>7

EndsLine(s, p, e) ==
  /\ e \in p .. Len(s) + 1
  /\ e = Len(s) + 1 \/ s[e] = "newline"
  /\ \A j \in p .. e - 1 : s[j] # "newline"

LEMMA LineEndIs ==
  ASSUME NEW s, Len(s) \in Nat, NEW p \in Nat, NEW e, EndsLine(s, p, e)
  PROVE  LineEnd(s, p) = e
<1>1. ASSUME NEW g, EndsLine(s, p, g) PROVE g = e
  <2>1. g \in p .. Len(s) + 1 /\ e \in p .. Len(s) + 1
    BY <1>1 DEF EndsLine
  <2>2. ~(g < e)
    <3> SUFFICES ASSUME g < e PROVE FALSE
      OBVIOUS
    <3>1. g \in p .. e - 1 /\ g # Len(s) + 1
      BY <2>1
    <3> QED
      BY <1>1, <3>1 DEF EndsLine
  <2>3. ~(e < g)
    <3> SUFFICES ASSUME e < g PROVE FALSE
      OBVIOUS
    <3>1. e \in p .. g - 1 /\ e # Len(s) + 1
      BY <2>1
    <3> QED
      BY <1>1, <3>1 DEF EndsLine
  <2> QED
    BY <2>1, <2>2, <2>3
<1>2. EndsLine(s, p, LineEnd(s, p))
  <2>1. \E g \in p .. Len(s) + 1 :
          /\ g = Len(s) + 1 \/ s[g] = "newline"
          /\ \A j \in p .. g - 1 : s[j] # "newline"
    BY DEF EndsLine
  <2> QED
    BY <2>1, Zenon DEF LineEnd, EndsLine
<1> QED
  BY <1>1, <1>2

LEMMA LineEndExists ==
  ASSUME NEW s, NEW n \in Nat, n = Len(s), NEW p \in 1 .. n
  PROVE  EndsLine(s, p, LineEnd(s, p))
<1> DEFINE T == {e \in p .. n + 1 : e = n + 1 \/ s[e] = "newline"}
<1>1. T \in SUBSET Nat /\ n + 1 \in T
  OBVIOUS
<1>2. PICK m \in T : \A k \in T : m <= k
  <2> HIDE DEF T
  <2> QED
    BY <1>1, LeastNatural
<1>3. ASSUME NEW j \in p .. m - 1 PROVE s[j] # "newline"
  <2>1. j \notin T
    BY <1>2
  <2> QED
    BY <2>1
<1>4. EndsLine(s, p, m)
  BY <1>3 DEF EndsLine
<1> QED
  BY <1>4, LineEndIs

\* The backslashes right before a position, back to where the literal opens.
SlashRun(s, a, p, k) ==
  /\ k \in 0 .. p - a - 1
  /\ \A j \in 1 .. k : s[p - j] = "backslash"
  /\ p - k - 1 > a => s[p - k - 1] # "backslash"

LEMMA SlashesAre ==
  ASSUME NEW s, NEW a \in Nat, NEW p \in Nat, NEW k, SlashRun(s, a, p, k)
  PROVE  Slashes(s, a, p) = k /\ k \in Nat
<1>0. k \in Nat
  BY DEF SlashRun
<1>1. ASSUME NEW h, SlashRun(s, a, p, h) PROVE h = k
  <2>1. h \in 0 .. p - a - 1 /\ k \in 0 .. p - a - 1
    BY <1>1 DEF SlashRun
  <2>2. ~(h < k)
    <3> SUFFICES ASSUME h < k PROVE FALSE
      OBVIOUS
    <3> PICK j : j = h + 1
      OBVIOUS
    <3>1. j \in 1 .. k /\ p - h - 1 > a /\ p - h - 1 = p - j
      BY <2>1
    <3> QED
      BY <1>1, <3>1 DEF SlashRun
  <2>3. ~(k < h)
    <3> SUFFICES ASSUME k < h PROVE FALSE
      OBVIOUS
    <3> PICK j : j = k + 1
      OBVIOUS
    <3>1. j \in 1 .. h /\ p - k - 1 > a /\ p - k - 1 = p - j
      BY <2>1
    <3> QED
      BY <1>1, <3>1 DEF SlashRun
  <2> QED
    BY <2>1, <2>2, <2>3
<1>2. SlashRun(s, a, p, Slashes(s, a, p))
  <2>1. \E h \in 0 .. p - a - 1 :
          /\ \A j \in 1 .. h : s[p - j] = "backslash"
          /\ p - h - 1 > a => s[p - h - 1] # "backslash"
    BY DEF SlashRun
  <2> QED
    BY <2>1, Zenon DEF Slashes, SlashRun
<1> QED
  BY <1>0, <1>1, <1>2

LEMMA SlashRunNext ==
  ASSUME NEW s, NEW a \in Nat, NEW p \in Nat, a < p
  PROVE  /\ SlashRun(s, a, a + 1, 0)
         /\ \A k : SlashRun(s, a, p, k) =>
              SlashRun(s, a, p + 1, IF s[p] = "backslash" THEN k + 1 ELSE 0)
<1>1. SlashRun(s, a, a + 1, 0)
  <2>1. 0 \in 0 .. (a + 1) - a - 1 /\ 1 .. 0 = {} /\ ~((a + 1) - 0 - 1 > a)
    OBVIOUS
  <2> QED
    BY <2>1 DEF SlashRun
<1>2. ASSUME NEW k, SlashRun(s, a, p, k), s[p] = "backslash" PROVE SlashRun(s, a, p + 1, k + 1)
  <2>1. k \in 0 .. p - a - 1
    BY <1>2 DEF SlashRun
  <2>2. ASSUME NEW j \in 1 .. k + 1 PROVE s[(p + 1) - j] = "backslash"
    <3>1. CASE j = 1
      <4>1. (p + 1) - j = p
        BY <3>1
      <4> QED
        BY <1>2, <4>1
    <3>2. CASE j # 1
      <4> PICK h : h = j - 1
        OBVIOUS
      <4>1. h \in 1 .. k /\ (p + 1) - j = p - h
        BY <2>1, <3>2
      <4> QED
        BY <1>2, <4>1 DEF SlashRun
    <3> QED
      BY <3>1, <3>2
  <2>3. (p + 1) - (k + 1) - 1 = p - k - 1 /\ k + 1 \in 0 .. (p + 1) - a - 1
    BY <2>1
  <2> QED
    BY <1>2, <2>2, <2>3 DEF SlashRun
<1>3. ASSUME s[p] # "backslash" PROVE SlashRun(s, a, p + 1, 0)
  <2>1. 0 \in 0 .. (p + 1) - a - 1 /\ 1 .. 0 = {} /\ (p + 1) - 0 - 1 = p
    OBVIOUS
  <2> QED
    BY <1>3, <2>1 DEF SlashRun
<1> QED
  BY <1>1, <1>2, <1>3

\* The literal that opens at a has not closed before p.
Unclosed(s, a, p) == \A q \in a + 1 .. p - 1 : q \notin Closing(s, a)

LEMMA StringEndFacts ==
  ASSUME NEW s, NEW n \in Nat, n = Len(s), NEW a \in 1 .. n
  PROVE  /\ StringEnd(s, a) \in a + 1 .. n + 1
         /\ \A p \in a + 1 .. n + 1 : Unclosed(s, a, p) =>
              /\ p <= StringEnd(s, a)
              /\ p <= n => p < StringEnd(s, a)
              /\ p \in Closing(s, a) => StringEnd(s, a) = p + 1
<1>1. Closing(s, a) \in SUBSET (a + 1 .. n) /\ Closing(s, a) \in SUBSET Nat
  BY DEF Closing
<1>2. CASE Closing(s, a) = {}
  <2>1. StringEnd(s, a) = n + 1
    BY <1>2 DEF StringEnd
  <2>2. \A p : p \notin Closing(s, a)
    BY <1>2
  <2>3. \A p \in a + 1 .. n + 1 : p <= n + 1 /\ (p <= n => p < n + 1)
    OBVIOUS
  <2> QED
    BY <2>1, <2>2, <2>3
<1>3. CASE Closing(s, a) # {}
  <2> PICK m : m = CHOOSE p \in Closing(s, a) : \A q \in Closing(s, a) : p <= q
    OBVIOUS
  <2>1. m \in Closing(s, a) /\ \A q \in Closing(s, a) : m <= q
    BY <1>1, <1>3, LeastNatural
  <2>2. StringEnd(s, a) = 1 + m
    BY <1>3 DEF StringEnd
  <2>3. m \in a + 1 .. n
    BY <1>1, <2>1
  <2>4. ASSUME NEW p \in a + 1 .. n + 1, Unclosed(s, a, p)
        PROVE  p <= m /\ (p \in Closing(s, a) => m = p)
    <3>1. m \notin a + 1 .. p - 1
      BY <2>1, <2>4 DEF Unclosed
    <3> QED
      BY <2>1, <2>3, <3>1
  <2>5. StringEnd(s, a) = m + 1 /\ m + 1 \in a + 1 .. n + 1
    BY <2>2, <2>3
  <2>6. ASSUME NEW p \in a + 1 .. n + 1, Unclosed(s, a, p)
        PROVE  p <= m + 1 /\ p < m + 1 /\ (p \in Closing(s, a) => m + 1 = p + 1)
    <3>1. p <= m /\ (p \in Closing(s, a) => m = p)
      BY <2>4, <2>6
    <3>2. p \in Int /\ m \in Int
      BY <2>3
    <3>3. p <= m + 1 /\ p < m + 1
      BY ONLY <3>1, <3>2
    <3> QED
      BY ONLY <3>1, <3>3
  <2> QED
    BY <2>5, <2>6
<1> QED
  BY <1>2, <1>3

LEMMA EndAtBounds ==
  ASSUME NEW s, NEW n \in Nat, n = Len(s), NEW p \in 1 .. n
  PROVE  EndAt(s, p) \in p + 1 .. n + 1
<1>1. CASE Pair(s, p, "dash", "dash")
  <2>1. EndAt(s, p) = LineEnd(s, p) /\ s[p] # "newline"
    BY <1>1 DEF EndAt, Pair
  <2>2. EndsLine(s, p, LineEnd(s, p))
    BY LineEndExists
  <2>3. LineEnd(s, p) \in p .. n + 1 /\ LineEnd(s, p) # p
    BY <2>1, <2>2 DEF EndsLine
  <2> QED
    BY <2>1, <2>3
<1>2. CASE ~Pair(s, p, "dash", "dash") /\ Pair(s, p, "slash", "dash")
  <2>1. p + 2 \in 1 .. n + 1
    BY <1>2 DEF Pair
  <2>2. EndAt(s, p) = CommentEnd(s)[p + 2]
    BY <1>2 DEF EndAt
  <2>3. CommentEnd(s)[p + 2] \in p + 2 .. n + 1
    BY <2>1, CommentEndFacts
  <2> QED
    BY <2>2, <2>3
<1>3. CASE ~Pair(s, p, "dash", "dash") /\ ~Pair(s, p, "slash", "dash") /\ s[p] = "quote"
  BY <1>3, StringEndFacts DEF EndAt
<1>4. CASE ~Pair(s, p, "dash", "dash") /\ ~Pair(s, p, "slash", "dash") /\ s[p] # "quote"
  BY <1>4 DEF EndAt
<1> QED
  BY <1>1, <1>2, <1>3, <1>4

-----------------------------------------------------------------------------
(* The lexemes themselves: from a place on they are in order, so that each *)
(* character between the start of one and its end belongs to that one.     *)
FromAt(from, s, p) ==
  IF p > Len(s) THEN {}
  ELSE {<<KindAt(s, p), p, EndAt(s, p) - 1>>} \cup from[EndAt(s, p)]
IsFrom(f, s) == f = [p \in 1 .. Len(s) + 1 |-> FromAt(f, s, p)]
From(s) == CHOOSE f : IsFrom(f, s)

FromBehind(f, s, a) ==
  \A p \in a .. Len(s) + 1 : f[p] = FromAt(f, s, p)

LEMMA FromExists ==
  ASSUME NEW s, NEW n \in Nat, n = Len(s)
  PROVE  IsFrom(From(s), s) /\ Lexemes(s) = From(s)[1]
<1> DEFINE K == {k \in Nat : k <= n => \E f : FromBehind(f, s, (n + 1) - k)}
<1>1. 0 \in K
  <2> DEFINE f == [p \in n + 1 .. n + 1 |-> {}]
  <2>1. (n + 1) - 0 = n + 1 /\ \A p \in n + 1 .. n + 1 : p > Len(s)
    OBVIOUS
  <2>2. \A p \in n + 1 .. n + 1 : f[p] = {}
    OBVIOUS
  <2> HIDE DEF f
  <2>3. FromBehind(f, s, n + 1)
    BY <2>1, <2>2 DEF FromBehind, FromAt
  <2> QED
    BY <2>1, <2>3
<1>2. ASSUME NEW k \in Nat, k \in K PROVE k + 1 \in K
  <2> SUFFICES ASSUME k + 1 <= n PROVE \E f : FromBehind(f, s, (n + 1) - (k + 1))
    OBVIOUS
  <2> HIDE DEF K
  <2> PICK a : a = n - k
    OBVIOUS
  <2>1. a \in 1 .. n /\ (n + 1) - (k + 1) = a
    OBVIOUS
  <2> PICK f : FromBehind(f, s, a + 1)
    <3>1. (n + 1) - k = a + 1
      OBVIOUS
    <3> QED
      BY <1>2, <3>1 DEF K
  <2> DEFINE g == [p \in a .. n + 1 |-> IF p = a THEN FromAt(f, s, a) ELSE f[p]]
  <2>2. \A q \in a + 1 .. n + 1 : g[q] = f[q]
    BY <2>1
  <2>3. g[a] = FromAt(f, s, a)
    BY <2>1
  <2> HIDE DEF g
  <2>4. ASSUME NEW p \in a .. n + 1 PROVE FromAt(g, s, p) = FromAt(f, s, p)
    <3>1. CASE p > n
      BY <3>1, Zenon DEF FromAt
    <3>2. CASE p <= n
      <4>1. p \in 1 .. n
        BY <2>1, <3>2
      <4>2. EndAt(s, p) \in p + 1 .. n + 1
        BY <4>1, EndAtBounds
      <4>3. EndAt(s, p) \in a + 1 .. n + 1
        BY <2>1, <4>1, <4>2
      <4>4. g[EndAt(s, p)] = f[EndAt(s, p)]
        BY <2>2, <4>3
      <4> QED
        BY <4>4, Zenon DEF FromAt
    <3> QED
      BY <2>1, <3>1, <3>2
  <2>5. ASSUME NEW p \in a .. n + 1 PROVE g[p] = FromAt(g, s, p)
    <3>1. CASE p = a
      BY <2>3, <2>4, <3>1
    <3>2. CASE p # a
      <4>1. p \in a + 1 .. n + 1
        BY <2>1, <3>2
      <4>2. f[p] = FromAt(f, s, p)
        BY <4>1 DEF FromBehind
      <4> QED
        BY <2>2, <2>4, <4>1, <4>2
    <3> QED
      BY <3>1, <3>2
  <2>6. FromBehind(g, s, a)
    BY <2>5 DEF FromBehind
  <2> QED
    BY <2>1, <2>6
<1>3. n \in K
  <2> HIDE DEF K
  <2> QED
    BY <1>1, <1>2, Inductive
<1>4. PICK f : FromBehind(f, s, 1)
  <2>1. (n + 1) - n = 1
    OBVIOUS
  <2> QED
    BY <1>3, <2>1
<1>5. \E h : IsFrom(h, s)
  <2> DEFINE h == [p \in 1 .. Len(s) + 1 |-> f[p]]
  <2>1. \A p \in 1 .. Len(s) + 1 : h[p] = f[p]
    OBVIOUS
  <2>2. ASSUME NEW p \in 1 .. Len(s) + 1 PROVE f[p] = FromAt(h, s, p)
    <3>1. f[p] = FromAt(f, s, p)
      BY <1>4 DEF FromBehind
    <3>2. p <= n => EndAt(s, p) \in 1 .. Len(s) + 1
      <4> SUFFICES ASSUME p <= n PROVE EndAt(s, p) \in 1 .. Len(s) + 1
        OBVIOUS
      <4>1. p \in 1 .. n
        OBVIOUS
      <4>2. EndAt(s, p) \in p + 1 .. n + 1
        BY <4>1, EndAtBounds
      <4> QED
        BY <4>1, <4>2
    <3>3. p > Len(s) \/ h[EndAt(s, p)] = f[EndAt(s, p)]
      BY <2>1, <3>2
    <3> HIDE DEF h
    <3> QED
      BY <3>1, <3>3, Zenon DEF FromAt
  <2>3. h = [p \in 1 .. Len(s) + 1 |-> FromAt(h, s, p)]
    <3>1. h = [p \in 1 .. Len(s) + 1 |-> f[p]]
      OBVIOUS
    <3> HIDE DEF h
    <3> QED
      BY <2>2, <3>1
  <2> HIDE DEF h
  <2>4. IsFrom(h, s)
    BY <2>3, Zenon DEF IsFrom
  <2> QED
    BY <2>4
<1>6. IsFrom(From(s), s)
  BY <1>5, Zenon DEF From
<1>7. Lexemes(s) = From(s)[1]
  BY Zenon DEF Lexemes, From, IsFrom, FromAt
<1> QED
  BY <1>6, <1>7

LEMMA FromIs ==
  ASSUME NEW s, NEW n \in Nat, n = Len(s)
  PROVE  /\ From(s)[n + 1] = {}
         /\ \A p \in 1 .. n : From(s)[p] =
              {<<KindAt(s, p), p, EndAt(s, p) - 1>>} \cup From(s)[EndAt(s, p)]
<1> PICK f : f = From(s)
  OBVIOUS
<1>1. IsFrom(f, s)
  BY FromExists
<1>2. \A p \in 1 .. n + 1 : f[p] = FromAt(f, s, p)
  BY <1>1 DEF IsFrom
<1>3. f[n + 1] = {}
  <2>1. n + 1 \in 1 .. n + 1 /\ n + 1 > Len(s)
    OBVIOUS
  <2> QED
    BY <1>2, <2>1, Zenon DEF FromAt
<1>4. ASSUME NEW p \in 1 .. n
      PROVE  f[p] = {<<KindAt(s, p), p, EndAt(s, p) - 1>>} \cup f[EndAt(s, p)]
  <2>1. p \in 1 .. n + 1 /\ ~(p > Len(s))
    OBVIOUS
  <2> QED
    BY <1>2, <2>1, Zenon DEF FromAt
<1> QED
  BY <1>3, <1>4

\* Lexemes from a position on start there or behind it.
InOrder(x, p, n) == /\ x[2] \in Nat /\ x[3] \in Nat
                    /\ p <= x[2] /\ x[2] <= x[3] /\ x[3] <= n

LEMMA LexemesInOrder ==
  ASSUME NEW s, NEW n \in Nat, n = Len(s), NEW p \in 1 .. n + 1, NEW x \in From(s)[p]
  PROVE  InOrder(x, p, n)
<1> DEFINE Ordered(q) == \A y \in From(s)[q] : InOrder(y, q, n)
           K == {k \in Nat : k <= n => \A q \in (n + 1) - k .. n + 1 : Ordered(q)}
<1>1. 0 \in K
  <2>1. \A q \in (n + 1) - 0 .. n + 1 : q = n + 1
    OBVIOUS
  <2>2. Ordered(n + 1)
    BY FromIs
  <2> HIDE DEF Ordered
  <2> QED
    BY <2>1, <2>2
<1>2. ASSUME NEW k \in Nat, k \in K PROVE k + 1 \in K
  <2> SUFFICES ASSUME k + 1 <= n, NEW a \in (n + 1) - (k + 1) .. n + 1 PROVE Ordered(a)
    OBVIOUS
  <2>1. \A q \in (n + 1) - k .. n + 1 : Ordered(q)
    BY <1>2
  <2> HIDE DEF K
  <2>2. CASE a >= (n + 1) - k
    <3>1. a \in (n + 1) - k .. n + 1
      BY <2>2
    <3> QED
      BY <2>1, <3>1
  <2>3. CASE a < (n + 1) - k
    <3>1. a \in 1 .. n
      BY <2>3
    <3> PICK e : e = EndAt(s, a)
      OBVIOUS
    <3>2. e \in a + 1 .. n + 1
      BY <3>1, EndAtBounds
    <3>3. e \in (n + 1) - k .. n + 1
      BY <2>3, <3>2
    <3> SUFFICES ASSUME NEW y \in From(s)[a] PROVE InOrder(y, a, n)
      OBVIOUS
    <3>4. From(s)[a] = {<<KindAt(s, a), a, e - 1>>} \cup From(s)[e]
      BY <3>1, FromIs
    <3>5. CASE y = <<KindAt(s, a), a, e - 1>>
      <4>1. y[2] = a /\ y[3] = e - 1
        BY <3>5
      <4> QED
        BY <3>1, <3>2, <4>1 DEF InOrder
    <3>6. CASE y \in From(s)[e]
      <4>1. InOrder(y, e, n)
        BY <2>1, <3>3, <3>6
      <4> QED
        BY <3>1, <3>2, <4>1 DEF InOrder
    <3> QED
      BY <3>4, <3>5, <3>6
  <2> QED
    BY <2>2, <2>3
<1>3. n \in K
  <2> HIDE DEF K
  <2> QED
    BY <1>1, <1>2, Inductive
<1>4. (n + 1) - n = 1
  OBVIOUS
<1> QED
  BY <1>3, <1>4

Covered(s, kind, p) == \E x \in Lexemes(s) : x[1] = kind /\ p \in x[2] .. x[3]
\* A lexeme starts at a, or the source ends before it.
Reached(s, a) ==
  /\ a \in 1 .. Len(s) + 1
  /\ \A x : (x \in Lexemes(s) /\ x[3] >= a) <=> x \in From(s)[a]

LEMMA ReachedFirst ==
  ASSUME NEW s, NEW n \in Nat, n = Len(s)
  PROVE  Reached(s, 1)
<1>1. Lexemes(s) = From(s)[1]
  BY FromExists
<1>2. ASSUME NEW x \in From(s)[1] PROVE x[3] >= 1
  <2>1. 1 \in 1 .. n + 1
    OBVIOUS
  <2>2. InOrder(x, 1, n)
    BY <2>1, LexemesInOrder
  <2> QED
    BY <2>2 DEF InOrder
<1> QED
  BY <1>1, <1>2 DEF Reached

LEMMA ReachedNext ==
  ASSUME NEW s, NEW n \in Nat, n = Len(s), NEW a \in 1 .. n, Reached(s, a)
  PROVE  /\ Reached(s, EndAt(s, a))
         /\ <<KindAt(s, a), a, EndAt(s, a) - 1>> \in Lexemes(s)
         /\ \A p \in a .. EndAt(s, a) - 1 : \A kind : Covered(s, kind, p) <=> kind = KindAt(s, a)
<1> PICK e : e = EndAt(s, a)
  OBVIOUS
<1>1. e \in a + 1 .. n + 1
  BY EndAtBounds
<1> PICK l : l = <<KindAt(s, a), a, e - 1>>
  OBVIOUS
<1>2. l[1] = KindAt(s, a) /\ l[2] = a /\ l[3] = e - 1
  OBVIOUS
<1>3. From(s)[a] = {l} \cup From(s)[e]
  BY FromIs
<1>4. Lexemes(s) = From(s)[1]
  BY FromExists
<1>5. ASSUME NEW x \in Lexemes(s) PROVE InOrder(x, 1, n)
  <2>1. 1 \in 1 .. n + 1
    OBVIOUS
  <2> QED
    BY <1>4, <2>1, LexemesInOrder
<1>6. ASSUME NEW x \in From(s)[e] PROVE InOrder(x, e, n)
  <2>1. e \in 1 .. n + 1
    BY <1>1
  <2> QED
    BY <2>1, LexemesInOrder
<1>7. l \in Lexemes(s)
  BY <1>3 DEF Reached
<1>8. ASSUME NEW x \in Lexemes(s), x[3] >= e PROVE x \in From(s)[e]
  <2>1. x[3] >= a
    BY <1>1, <1>5, <1>8 DEF InOrder
  <2>2. x \in {l} \cup From(s)[e]
    BY <1>3, <2>1 DEF Reached
  <2>3. x # l
    BY <1>1, <1>2, <1>8
  <2> QED
    BY <2>2, <2>3
<1>9. ASSUME NEW x \in From(s)[e] PROVE x \in Lexemes(s) /\ x[3] >= e
  <2>1. x \in Lexemes(s)
    BY <1>3 DEF Reached
  <2> QED
    BY <1>1, <1>6, <2>1 DEF InOrder
<1>10. Reached(s, e)
  <2>1. e \in 1 .. Len(s) + 1
    BY <1>1
  <2> QED
    BY <1>8, <1>9, <2>1 DEF Reached
<1>11. ASSUME NEW p \in a .. e - 1, NEW kind PROVE Covered(s, kind, p) <=> kind = KindAt(s, a)
  <2>1. ASSUME NEW x \in Lexemes(s), p \in x[2] .. x[3] PROVE x = l
    <3>1. x[2] \in Nat /\ x[3] \in Nat /\ x[3] >= a
      BY <1>1, <1>5, <2>1 DEF InOrder
    <3>2. x \in {l} \cup From(s)[e]
      BY <1>3, <3>1 DEF Reached
    <3>3. x \notin From(s)[e]
      <4> SUFFICES ASSUME x \in From(s)[e] PROVE FALSE
        OBVIOUS
      <4>1. x[2] >= e
        BY <1>1, <1>6 DEF InOrder
      <4> QED
        BY <1>1, <2>1, <3>1, <4>1
    <3> QED
      BY <3>2, <3>3
  <2>2. p \in l[2] .. l[3]
    BY <1>1, <1>2
  <2> QED
    BY <1>2, <1>7, <2>1, <2>2 DEF Covered
<1> QED
  BY <1>7, <1>10, <1>11

-----------------------------------------------------------------------------
(* A literal and a comment, followed character by character.               *)
\* The literal that opens at a is being read at p; e: the last backslash escapes.
InLiteral(s, a, p, e) ==
  /\ Reached(s, a) /\ a \in 1 .. Len(s) /\ KindAt(s, a) = "string"
  /\ p \in a + 1 .. Len(s) + 1 /\ Unclosed(s, a, p)
  /\ \E k : SlashRun(s, a, p, k) /\ (e <=> k % 2 = 1)

LEMMA KindFacts ==
  ASSUME NEW s, NEW a
  PROVE  /\ KindAt(s, a) = "string" =>
              s[a] = "quote" /\ EndAt(s, a) = StringEnd(s, a)
         /\ KindAt(s, a) = "code" => s[a] # "quote" /\ EndAt(s, a) = a + 1
         /\ KindAt(s, a) \in {"comment", "string", "code"}
         /\ KindAt(s, a) = "comment" <=> Pair(s, a, "dash", "dash") \/ Pair(s, a, "slash", "dash")
         /\ s[a] = "quote" => KindAt(s, a) = "string"
<1>1. s[a] = "quote" => ~Pair(s, a, "dash", "dash") /\ ~Pair(s, a, "slash", "dash")
  BY DEF Pair
<1> QED
  BY <1>1 DEF KindAt, EndAt

LEMMA LiteralOpens ==
  ASSUME NEW s, NEW n \in Nat, n = Len(s), NEW a \in 1 .. n, Reached(s, a), s[a] = "quote"
  PROVE  InLiteral(s, a, a + 1, FALSE)
<1>1. KindAt(s, a) = "string"
  BY KindFacts
<1>2. SlashRun(s, a, a + 1, 0)
  <2>1. a \in Nat /\ a + 1 \in Nat /\ a < a + 1
    OBVIOUS
  <2> QED
    BY ONLY <2>1, SlashRunNext
<1>3. Unclosed(s, a, a + 1)
  <2>1. a + 1 .. (a + 1) - 1 = {}
    OBVIOUS
  <2> QED
    BY <2>1, Zenon DEF Unclosed
<1>4. FALSE <=> 0 % 2 = 1
  OBVIOUS
<1>5. a + 1 \in a + 1 .. Len(s) + 1
  OBVIOUS
<1> QED
  BY <1>1, <1>2, <1>3, <1>4, <1>5 DEF InLiteral

\* One character of a literal.
LEMMA LiteralStep ==
  ASSUME NEW s, NEW n \in Nat, n = Len(s), NEW a, NEW p \in 1 .. n, NEW e \in BOOLEAN,
         InLiteral(s, a, p, e)
  PROVE  /\ \A kind : Covered(s, kind, p) <=> kind = "string"
         /\ <<"string", a, EndAt(s, a) - 1>> \in Lexemes(s) /\ p \in a .. EndAt(s, a) - 1
         /\ s[p] = "quote" /\ ~e => Reached(s, p + 1)
         /\ ~(s[p] = "quote" /\ ~e) => InLiteral(s, a, p + 1, ~e /\ s[p] = "backslash")
<1>1. /\ Reached(s, a) /\ a \in 1 .. n /\ KindAt(s, a) = "string"
      /\ p \in a + 1 .. n + 1 /\ Unclosed(s, a, p)
  BY DEF InLiteral
<1>2. PICK k : SlashRun(s, a, p, k) /\ (e <=> k % 2 = 1)
  BY DEF InLiteral
<1>3. Slashes(s, a, p) = k /\ k \in Nat
  BY <1>1, <1>2, SlashesAre
<1>4. EndAt(s, a) = StringEnd(s, a) /\ EndAt(s, a) \in a + 1 .. n + 1
  BY <1>1, KindFacts, EndAtBounds
<1>5. p < EndAt(s, a) /\ (p \in Closing(s, a) => EndAt(s, a) = p + 1)
  BY <1>1, <1>4, StringEndFacts
<1>6. p \in a .. EndAt(s, a) - 1
  BY <1>1, <1>4, <1>5
<1>7. /\ Reached(s, EndAt(s, a)) /\ <<"string", a, EndAt(s, a) - 1>> \in Lexemes(s)
      /\ \A kind : Covered(s, kind, p) <=> kind = "string"
  BY <1>1, <1>6, ReachedNext
<1>8. p \in Closing(s, a) <=> s[p] = "quote" /\ ~e
  <2>1. p \in a + 1 .. Len(s)
    BY <1>1
  <2>2. k % 2 = 0 \/ k % 2 = 1
    BY <1>3
  <2> QED
    BY <1>2, <1>3, <2>1, <2>2 DEF Closing
<1>9. s[p] = "quote" /\ ~e => Reached(s, p + 1)
  BY <1>5, <1>7, <1>8
<1>10. ASSUME ~(s[p] = "quote" /\ ~e) PROVE InLiteral(s, a, p + 1, ~e /\ s[p] = "backslash")
  <2>1. Unclosed(s, a, p + 1)
    <3>1. ASSUME NEW q \in a + 1 .. (p + 1) - 1 PROVE q = p \/ q \in a + 1 .. p - 1
      BY <1>1
    <3> QED
      BY <1>1, <1>8, <1>10, <3>1 DEF Unclosed
  <2> PICK h : h = IF s[p] = "backslash" THEN k + 1 ELSE 0
    OBVIOUS
  <2>2. SlashRun(s, a, p + 1, h)
    <3>1. a \in Nat /\ p \in Nat /\ a < p
      BY <1>1
    <3> QED
      BY <1>2, <3>1, SlashRunNext
  <2>3. (~e /\ s[p] = "backslash") <=> h % 2 = 1
    BY <1>2, <1>3
  <2>4. p + 1 \in a + 1 .. Len(s) + 1
    BY <1>1
  <2>5. \E m : SlashRun(s, a, p + 1, m) /\ ((~e /\ s[p] = "backslash") <=> m % 2 = 1)
    BY <2>2, <2>3
  <2> QED
    BY <1>1, <2>1, <2>4, <2>5 DEF InLiteral
<1> QED
  BY <1>6, <1>7, <1>9, <1>10

-----------------------------------------------------------------------------
\* Where each of d open comments ends, the innermost being read at p.
Pending(s, g, p, d) ==
  /\ g \in [0 .. d -> 1 .. Len(s) + 1] /\ g[d] = p
  /\ \A k \in 1 .. d : g[k - 1] = CommentEnd(s)[g[k]]
InComment(s, a, p, d) ==
  /\ Reached(s, a) /\ a \in 1 .. Len(s) /\ Pair(s, a, "slash", "dash")
  /\ d \in Nat \ {0} /\ p \in a + 2 .. Len(s) + 1
  /\ \E g : Pending(s, g, p, d) /\ g[0] = EndAt(s, a)

LEMMA PendingInside ==
  ASSUME NEW s, NEW n \in Nat, n = Len(s), NEW g, NEW p \in 1 .. n, NEW d \in Nat \ {0},
         Pending(s, g, p, d)
  PROVE  CommentEnd(s)[p] <= g[0]
<1> PICK e : e = CommentEnd(s)[p]
  OBVIOUS
<1> DEFINE K == {k \in Nat : k < d => e <= g[(d - 1) - k]}
<1>1. \A k \in 0 .. d : g[k] \in 1 .. n + 1
  BY DEF Pending
<1>2. ASSUME NEW k \in 1 .. d PROVE g[k - 1] \in g[k] .. n + 1
  <2>1. g[k] \in 1 .. n + 1
    BY <1>1
  <2>2. g[k - 1] = CommentEnd(s)[g[k]]
    BY DEF Pending
  <2> QED
    BY <2>1, <2>2, CommentEndFacts
<1>0. e \in 1 .. n + 1
  <2>1. p \in 1 .. n + 1
    OBVIOUS
  <2>2. e \in p .. n + 1
    BY <2>1, CommentEndFacts
  <2> QED
    BY <2>1, <2>2
<1>3. 0 \in K
  <2>1. g[d] = p /\ d \in 1 .. d /\ (d - 1) - 0 = d - 1
    BY DEF Pending
  <2>2. g[d - 1] = e
    BY <2>1 DEF Pending
  <2> QED
    BY <1>0, <2>1, <2>2
<1>4. ASSUME NEW k \in Nat, k \in K PROVE k + 1 \in K
  <2> SUFFICES ASSUME k + 1 < d PROVE e <= g[(d - 1) - (k + 1)]
    OBVIOUS
  <2> PICK j : j = (d - 1) - k
    OBVIOUS
  <2>1. j \in 1 .. d /\ (d - 1) - (k + 1) = j - 1 /\ j \in 0 .. d /\ j - 1 \in 0 .. d
    OBVIOUS
  <2>2. e <= g[j]
    BY <1>4
  <2>3. g[j - 1] \in g[j] .. n + 1 /\ g[j] \in 1 .. n + 1
    BY <1>1, <1>2, <2>1
  <2>4. e <= g[j - 1]
    BY ONLY <1>0, <2>2, <2>3, n \in Nat
  <2> QED
    BY <2>1, <2>4
<1>5. d - 1 \in K
  <2> HIDE DEF K
  <2>1. d - 1 \in Nat
    OBVIOUS
  <2> QED
    BY <1>3, <1>4, <2>1, Inductive
<1>6. (d - 1) - (d - 1) = 0 /\ d - 1 < d
  OBVIOUS
<1> QED
  BY <1>5, <1>6

LEMMA CommentOpens ==
  ASSUME NEW s, NEW n \in Nat, n = Len(s), NEW a \in 1 .. n, Reached(s, a), Pair(s, a, "slash", "dash")
  PROVE  InComment(s, a, a + 2, 1)
<1>1. a + 2 \in 1 .. n + 1
  BY DEF Pair
<1> PICK e : e = CommentEnd(s)[a + 2]
  OBVIOUS
<1>2. e \in a + 2 .. n + 1
  BY <1>1, CommentEndFacts
<1>3. EndAt(s, a) = e
  <2>1. ~Pair(s, a, "dash", "dash")
    BY DEF Pair
  <2> QED
    BY <2>1 DEF EndAt
<1> DEFINE g == [k \in 0 .. 1 |-> IF k = 0 THEN e ELSE a + 2]
<1>4. g \in [0 .. 1 -> 1 .. Len(s) + 1] /\ g[1] = a + 2 /\ g[0] = e
  BY <1>1, <1>2
<1>5. \A k \in 1 .. 1 : k = 1 /\ k - 1 = 0
  OBVIOUS
<1> HIDE DEF g
<1>6. Pending(s, g, a + 2, 1)
  BY <1>4, <1>5 DEF Pending
<1>7. a + 2 \in a + 2 .. Len(s) + 1 /\ 1 \in Nat \ {0}
  BY <1>1
<1> QED
  BY <1>3, <1>4, <1>6, <1>7 DEF InComment

\* What is read in a comment is part of it, and it ends where it should.
LEMMA CommentRead ==
  ASSUME NEW s, NEW n \in Nat, n = Len(s), NEW a, NEW p \in 1 .. n, NEW d, InComment(s, a, p, d)
  PROVE  /\ CommentEnd(s)[p] \in p + 1 .. n + 1
         /\ \A q \in p .. CommentEnd(s)[p] - 1 : Covered(s, "comment", q)
<1>1. /\ Reached(s, a) /\ a \in 1 .. n /\ Pair(s, a, "slash", "dash") /\ p \in a + 2 .. n + 1
      /\ d \in Nat \ {0}
  BY DEF InComment
<1>2. KindAt(s, a) = "comment"
  BY <1>1, KindFacts
<1>3. EndAt(s, a) \in a + 1 .. n + 1
  BY <1>1, EndAtBounds
<1>4. PICK g : Pending(s, g, p, d) /\ g[0] = EndAt(s, a)
  BY DEF InComment
<1>5. CommentEnd(s)[p] <= EndAt(s, a)
  BY <1>1, <1>4, PendingInside
<1>6. CommentEnd(s)[p] \in p + 1 .. n + 1
  <2>1. p \in 1 .. n + 1 /\ p <= n
    OBVIOUS
  <2>2. CommentEnd(s)[p] \in p .. n + 1 /\ CommentEnd(s)[p] > p
    BY <2>1, CommentEndFacts
  <2> QED
    BY <2>2
<1>7. ASSUME NEW q \in p .. CommentEnd(s)[p] - 1 PROVE q \in a .. EndAt(s, a) - 1
  BY <1>1, <1>3, <1>5, <1>6
<1> QED
  BY <1>1, <1>2, <1>6, <1>7, ReachedNext

LEMMA CommentDeeper ==
  ASSUME NEW s, NEW n \in Nat, n = Len(s), NEW a, NEW p \in 1 .. n, NEW d, InComment(s, a, p, d),
         Pair(s, p, "slash", "dash")
  PROVE  InComment(s, a, p + 2, d + 1) /\ CommentEnd(s)[p] >= p + 2
<1>1. d \in Nat \ {0} /\ p \in a + 2 .. n + 1 /\ a \in 1 .. n
  BY DEF InComment
<1>2. PICK g : Pending(s, g, p, d) /\ g[0] = EndAt(s, a)
  BY DEF InComment
<1>3. p + 2 \in 1 .. n + 1 /\ p \in 1 .. n + 1 /\ p <= n
  BY DEF Pair
<1> PICK e : e = CommentEnd(s)[p + 2]
  OBVIOUS
<1>4. e \in p + 2 .. n + 1
  BY <1>3, CommentEndFacts
<1>5. CommentEnd(s)[p] = CommentEnd(s)[e]
  <2>1. ~Pair(s, p, "dash", "slash")
    BY DEF Pair
  <2> QED
    BY <1>3, <2>1, CommentEndFacts
<1>6. CommentEnd(s)[e] \in e .. n + 1
  <2>1. e \in 1 .. n + 1
    BY <1>4
  <2> QED
    BY <2>1, CommentEndFacts
<1> DEFINE h == [k \in 0 .. d + 1 |-> IF k < d THEN g[k] ELSE IF k = d THEN e ELSE p + 2]
<1>7. \A k \in 0 .. d : g[k] \in 1 .. n + 1
  BY <1>2 DEF Pending
<1>8. /\ h \in [0 .. d + 1 -> 1 .. Len(s) + 1] /\ h[d + 1] = p + 2 /\ h[d] = e
      /\ \A k \in 0 .. d - 1 : h[k] = g[k]
  <2>1. ASSUME NEW k \in 0 .. d + 1 PROVE h[k] \in 1 .. Len(s) + 1
    BY <1>1, <1>3, <1>4, <1>7
  <2> QED
    BY <1>1, <2>1
<1> HIDE DEF h
<1>9. ASSUME NEW k \in 1 .. d + 1 PROVE h[k - 1] = CommentEnd(s)[h[k]]
  <2>1. CASE k = d + 1
    <3>1. k - 1 = d
      BY <1>1, <2>1
    <3> QED
      BY <1>8, <2>1, <3>1
  <2>2. CASE k = d
    <3>1. k - 1 \in 0 .. d - 1 /\ k \in 1 .. d
      BY <1>1, <2>2
    <3>2. g[k - 1] = CommentEnd(s)[g[k]] /\ g[d] = p
      BY <1>2, <3>1 DEF Pending
    <3> QED
      BY <1>5, <1>8, <2>2, <3>1, <3>2
  <2>3. CASE k # d /\ k # d + 1
    <3>1. k - 1 \in 0 .. d - 1 /\ k \in 0 .. d - 1 /\ k \in 1 .. d
      BY <1>1, <2>3
    <3>2. g[k - 1] = CommentEnd(s)[g[k]]
      BY <1>2, <3>1 DEF Pending
    <3> QED
      BY <1>8, <3>1, <3>2
  <2> QED
    BY <2>1, <2>2, <2>3
<1>10. Pending(s, h, p + 2, d + 1)
  BY <1>8, <1>9 DEF Pending
<1>11. h[0] = EndAt(s, a)
  <2>1. 0 \in 0 .. d - 1
    BY <1>1
  <2> QED
    BY <1>2, <1>8, <2>1
<1>12. p + 2 \in a + 2 .. Len(s) + 1 /\ d + 1 \in Nat \ {0}
  BY <1>1, <1>3
<1>13. InComment(s, a, p + 2, d + 1)
  BY <1>10, <1>11, <1>12 DEF InComment
<1> QED
  BY <1>4, <1>5, <1>6, <1>13

LEMMA CommentCloses ==
  ASSUME NEW s, NEW n \in Nat, n = Len(s), NEW a, NEW p \in 1 .. n, NEW d, InComment(s, a, p, d),
         Pair(s, p, "dash", "slash")
  PROVE  /\ CommentEnd(s)[p] = p + 2
         /\ d = 1 => Reached(s, p + 2)
         /\ d # 1 => InComment(s, a, p + 2, d - 1)
<1>1. d \in Nat \ {0} /\ p \in a + 2 .. n + 1 /\ a \in 1 .. n /\ Reached(s, a)
  BY DEF InComment
<1>2. PICK g : Pending(s, g, p, d) /\ g[0] = EndAt(s, a)
  BY DEF InComment
<1>3. p + 2 \in 1 .. n + 1 /\ p \in 1 .. n + 1 /\ p <= n
  BY DEF Pair
<1>4. CommentEnd(s)[p] = p + 2
  BY <1>3, CommentEndFacts
<1>5. g[d - 1] = p + 2
  <2>1. d \in 1 .. d
    BY <1>1
  <2> QED
    BY <1>2, <1>4, <2>1 DEF Pending
<1>6. CASE d = 1
  <2>1. EndAt(s, a) = p + 2
    BY <1>2, <1>5, <1>6
  <2> QED
    BY <1>1, <1>4, <1>6, <2>1, ReachedNext
<1>7. CASE d # 1
  <2> PICK f : f = d - 1
    OBVIOUS
  <2>1. f \in Nat \ {0} /\ 0 .. f \subseteq 0 .. d /\ 1 .. f \subseteq 1 .. d
    BY <1>1, <1>7
  <2> DEFINE h == [k \in 0 .. f |-> g[k]]
  <2>2. \A k \in 0 .. f : h[k] = g[k] /\ h[k] \in 1 .. Len(s) + 1
    BY <1>2, <2>1 DEF Pending
  <2>3. h \in [0 .. f -> 1 .. Len(s) + 1]
    BY <2>2
  <2> HIDE DEF h
  <2>4. ASSUME NEW k \in 1 .. f PROVE h[k - 1] = CommentEnd(s)[h[k]]
    <3>1. k - 1 \in 0 .. f /\ k \in 0 .. f /\ k \in 1 .. d
      BY <2>1
    <3> QED
      BY <1>2, <2>2, <3>1 DEF Pending
  <2>5. h[f] = p + 2 /\ h[0] = EndAt(s, a)
    <3>1. f \in 0 .. f /\ 0 \in 0 .. f
      BY <2>1
    <3> QED
      BY <1>2, <1>5, <2>2, <3>1
  <2>6. Pending(s, h, p + 2, f)
    BY <2>3, <2>4, <2>5 DEF Pending
  <2>7. p + 2 \in a + 2 .. Len(s) + 1
    BY <1>1, <1>3
  <2>8. InComment(s, a, p + 2, f)
    BY <2>1, <2>5, <2>6, <2>7 DEF InComment
  <2> QED
    BY <1>4, <1>7, <2>8
<1> QED
  BY <1>6, <1>7

LEMMA CommentGoesOn ==
  ASSUME NEW s, NEW n \in Nat, n = Len(s), NEW a, NEW p \in 1 .. n, NEW d, InComment(s, a, p, d),
         ~Pair(s, p, "slash", "dash"), ~Pair(s, p, "dash", "slash")
  PROVE  InComment(s, a, p + 1, d)
<1>1. d \in Nat \ {0} /\ p \in a + 2 .. n + 1 /\ a \in 1 .. n
  BY DEF InComment
<1>2. PICK g : Pending(s, g, p, d) /\ g[0] = EndAt(s, a)
  BY DEF InComment
<1>3. p + 1 \in 1 .. n + 1 /\ p \in 1 .. n + 1 /\ p <= n
  OBVIOUS
<1>4. CommentEnd(s)[p] = CommentEnd(s)[p + 1]
  BY <1>3, CommentEndFacts
<1> DEFINE h == [k \in 0 .. d |-> IF k = d THEN p + 1 ELSE g[k]]
<1>5. \A k \in 0 .. d : g[k] \in 1 .. n + 1
  BY <1>2 DEF Pending
<1>6. h \in [0 .. d -> 1 .. Len(s) + 1] /\ h[d] = p + 1 /\ \A k \in 0 .. d - 1 : h[k] = g[k]
  BY <1>1, <1>3, <1>5
<1> HIDE DEF h
<1>7. ASSUME NEW k \in 1 .. d PROVE h[k - 1] = CommentEnd(s)[h[k]]
  <2>1. k - 1 \in 0 .. d - 1
    BY <1>1
  <2>2. g[k - 1] = CommentEnd(s)[g[k]] /\ h[k - 1] = g[k - 1] /\ g[d] = p
    BY <1>2, <1>6, <2>1 DEF Pending
  <2>3. CASE k = d
    BY <1>4, <1>6, <2>2, <2>3
  <2>4. CASE k # d
    <3>1. k \in 0 .. d - 1
      BY <1>1, <2>4
    <3> QED
      BY <1>6, <2>2, <3>1
  <2> QED
    BY <2>3, <2>4
<1>8. Pending(s, h, p + 1, d)
  BY <1>6, <1>7 DEF Pending
<1>9. h[0] = EndAt(s, a)
  <2>1. 0 \in 0 .. d - 1
    BY <1>1
  <2> QED
    BY <1>2, <1>6, <2>1
<1>10. p + 1 \in a + 2 .. Len(s) + 1
  BY <1>1, <1>3
<1> QED
  BY <1>1, <1>8, <1>9, <1>10 DEF InComment

-----------------------------------------------------------------------------
(* The passes follow the lexemes.                                          *)
\* What is put out for each character: by the first pass, and by both.
Stripped(s, p) == IF Covered(s, "comment", p) THEN Blank(s[p]) ELSE s[p]
Kept(s, p) == IF Covered(s, "code", p) THEN s[p] ELSE Blank(s[p])
StrippedText(s) == [p \in 1 .. Len(s) |-> Stripped(s, p)]
KeptText(s) == [p \in 1 .. Len(s) |-> Kept(s, p)]

\* What has been put out before p is as f says.
Agrees(o, f, p) == \A q \in 1 .. p - 1 : o[q] = f[q]

LEMMA TakeAgrees ==
  ASSUME LexicalInv, NEW f, Agrees(out, f, i), NEW k \in Nat, NEW s \in Texts, Take(k, s), Len(s) = k,
         \A q \in 1 .. k : s[q] = f[i + q - 1]
  PROVE  Agrees(out', f, i')
<1>1. /\ i' = i + k /\ out' = out \o s
      /\ i \in Nat /\ i >= 1 /\ Len(out) = i - 1 /\ out \in Texts /\ Len(text) \in Nat
  BY DEF Take, LexicalInv, Texts
<1>2. ASSUME NEW p \in 1 .. i' - 1 PROVE out'[p] = f[p]
  <2>1. CASE p <= i - 1
    <3>1. out'[p] = out[p] /\ p \in 1 .. i - 1
      BY <1>1, <2>1 DEF Texts
    <3> QED
      BY <3>1 DEF Agrees
  <2>2. CASE p > i - 1
    <3>1. PICK q \in 1 .. k : q = p - (i - 1) /\ i + q - 1 = p
      BY <1>1, <2>2
    <3>2. out'[p] = s[q]
      BY <1>1, <2>2, <3>1 DEF Texts
    <3> QED
      BY <3>1, <3>2
  <2> QED
    BY <1>1, <2>1, <2>2
<1> QED
  BY <1>2 DEF Agrees

LEMMA TakeOneAgrees ==
  ASSUME LexicalInv, NEW f, Agrees(out, f, i), NEW x \in Characters \cup {"blank"}, Take(1, <<x>>),
         x = f[i]
  PROVE  Agrees(out', f, i')
<1> DEFINE s == <<x>>
<1>1. s \in Texts /\ Len(s) = 1 /\ s[1] = x /\ Take(1, s) /\ 1 \in Nat
  BY DEF Texts
<1> HIDE DEF s
<1>2. \A q \in 1 .. 1 : q = 1 /\ i + q - 1 = i
  BY DEF LexicalInv, Texts
<1>3. \A q \in 1 .. 1 : s[q] = f[i + q - 1]
  BY <1>1, <1>2
<1> QED
  BY <1>1, <1>3, TakeAgrees

LEMMA TakeTwoAgrees ==
  ASSUME LexicalInv, NEW f, Agrees(out, f, i), Take(2, <<"blank", "blank">>),
         f[i] = "blank", f[i + 1] = "blank"
  PROVE  Agrees(out', f, i')
<1> DEFINE s == <<"blank", "blank">>
<1>1. s \in Texts /\ Len(s) = 2 /\ s[1] = "blank" /\ s[2] = "blank" /\ 2 \in Nat
  BY DEF Texts
<1>2. Take(2, s)
  BY DEF s
<1> HIDE DEF s
<1>3. \A q \in 1 .. 2 : (q = 1 /\ i + q - 1 = i) \/ (q = 2 /\ i + q - 1 = i + 1)
  BY DEF LexicalInv, Texts
<1>4. \A q \in 1 .. 2 : s[q] = f[i + q - 1]
  BY <1>1, <1>3
<1> QED
  BY <1>1, <1>2, <1>4, TakeAgrees

LEMMA TakeLineAgrees ==
  ASSUME LexicalInv, NEW f, Agrees(out, f, i), NEW k \in Nat, Take(k, [j \in 1 .. k |-> "blank"]),
         \A q \in i .. i + k - 1 : f[q] = "blank"
  PROVE  Agrees(out', f, i')
<1> DEFINE s == [j \in 1 .. k |-> "blank"]
<1>1. s \in Texts /\ Len(s) = k /\ \A q \in 1 .. k : s[q] = "blank"
  BY DEF Texts
<1>2. Take(k, s)
  OBVIOUS
<1> HIDE DEF s
<1>3. \A q \in 1 .. k : i + q - 1 \in i .. i + k - 1
  BY DEF LexicalInv, Texts
<1>4. \A q \in 1 .. k : s[q] = f[i + q - 1]
  BY <1>1, <1>3
<1> QED
  BY <1>1, <1>2, <1>4, TakeAgrees

-----------------------------------------------------------------------------
CommentsRead ==
  /\ text = source
  /\ Agrees(out, StrippedText(source), i)
  /\ depth \in Nat /\ inString \in BOOLEAN /\ escaped \in BOOLEAN
  /\ depth > 0 => ~inString /\ ~escaped /\ \E a : InComment(source, a, i, depth)
  /\ depth = 0 /\ inString => \E a : InLiteral(source, a, i, escaped)
  /\ depth = 0 /\ ~inString => ~escaped /\ Reached(source, i)

LEMMA Places ==
  ASSUME LexicalInv, pass = "comments", More
  PROVE  /\ i \in 1 .. Len(source) /\ Len(source) \in Nat /\ Len(text) = Len(source)
         /\ source[i] \in Characters \cup {"blank"}
BY DEF LexicalInv, More, Texts

LEMMA StrippedAt ==
  ASSUME NEW s, Len(s) \in Nat, NEW p \in 1 .. Len(s)
  PROVE  /\ Covered(s, "comment", p) => StrippedText(s)[p] = Blank(s[p])
         /\ ~Covered(s, "comment", p) => StrippedText(s)[p] = s[p]
BY DEF StrippedText, Stripped

LEMMA InsideCommentStep ==
  ASSUME LexicalInv, pass = "comments", CommentsRead, InsideComment
  PROVE  CommentsRead'
<1>1. More /\ depth > 0 /\ depth \in Nat /\ text = source /\ ~inString /\ ~escaped
      /\ Agrees(out, StrippedText(source), i)
  BY DEF InsideComment, CommentsRead
<1>2. PICK a : InComment(source, a, i, depth)
  BY <1>1 DEF CommentsRead
<1>3. PICK n \in Nat : n = Len(source)
  BY <1>1, Places
<1>4. i \in 1 .. n /\ source[i] \in Characters \cup {"blank"}
  BY <1>1, <1>3, Places
<1>5. /\ CommentEnd(source)[i] \in i + 1 .. n + 1
      /\ \A q \in i .. CommentEnd(source)[i] - 1 : Covered(source, "comment", q)
  BY <1>2, <1>3, <1>4, CommentRead
<1>6. \A q \in i .. CommentEnd(source)[i] - 1 : StrippedText(source)[q] = Blank(source[q])
  <2>1. \A q \in i .. CommentEnd(source)[i] - 1 : q \in 1 .. Len(source)
    BY <1>3, <1>4, <1>5
  <2> QED
    BY <1>3, <1>5, <2>1, StrippedAt
<1>7. \A b, c : At(b, c) <=> Pair(source, i, b, c)
  BY <1>1 DEF At, Pair
<1>8. UNCHANGED <<inString, escaped, source>> /\ text' = source
  BY <1>1 DEF InsideComment, Take
<1>9. ASSUME CommentEnd(source)[i] >= i + 2, source[i] # "newline", source[i + 1] # "newline"
      PROVE  StrippedText(source)[i] = "blank" /\ StrippedText(source)[i + 1] = "blank"
  <2>1. i \in i .. CommentEnd(source)[i] - 1 /\ i + 1 \in i .. CommentEnd(source)[i] - 1
    BY <1>4, <1>5, <1>9
  <2> QED
    BY <1>6, <1>9, <2>1 DEF Blank
<1>10. CASE At("slash", "dash") /\ depth' = depth + 1 /\ Take(2, <<"blank", "blank">>)
  <2>1. Pair(source, i, "slash", "dash")
    BY <1>7, <1>10
  <2>2. InComment(source, a, i + 2, depth + 1) /\ CommentEnd(source)[i] >= i + 2
    BY <1>2, <1>3, <1>4, <2>1, CommentDeeper
  <2>3. StrippedText(source)[i] = "blank" /\ StrippedText(source)[i + 1] = "blank"
    BY <1>9, <2>1, <2>2 DEF Pair
  <2>4. Agrees(out', StrippedText(source), i') /\ i' = i + 2
    BY <1>1, <1>10, <2>3, TakeTwoAgrees DEF Take
  <2> QED
    BY <1>1, <1>8, <1>10, <2>2, <2>4 DEF CommentsRead
<1>11. CASE At("dash", "slash") /\ depth' = CloseOne /\ Take(2, <<"blank", "blank">>)
  <2>1. Pair(source, i, "dash", "slash")
    BY <1>7, <1>11
  <2>2. /\ CommentEnd(source)[i] = i + 2
        /\ depth = 1 => Reached(source, i + 2)
        /\ depth # 1 => InComment(source, a, i + 2, depth - 1)
    BY <1>2, <1>3, <1>4, <2>1, CommentCloses
  <2>3. StrippedText(source)[i] = "blank" /\ StrippedText(source)[i + 1] = "blank"
    BY <1>4, <1>9, <2>1, <2>2 DEF Pair
  <2>4. Agrees(out', StrippedText(source), i') /\ i' = i + 2
    BY <1>1, <1>11, <2>3, TakeTwoAgrees DEF Take
  <2>5. depth' = depth - 1 /\ depth' \in Nat /\ (depth' = 0 <=> depth = 1)
    BY <1>1, <1>11 DEF CloseOne
  <2> QED
    BY <1>1, <1>8, <2>2, <2>4, <2>5 DEF CommentsRead
<1>12. CASE ~At("slash", "dash") /\ ~At("dash", "slash") /\ Take(1, <<Blank(text[i])>>) /\ UNCHANGED depth
  <2>1. ~Pair(source, i, "slash", "dash") /\ ~Pair(source, i, "dash", "slash")
    BY <1>7, <1>12
  <2>2. InComment(source, a, i + 1, depth)
    BY <1>2, <1>3, <1>4, <2>1, CommentGoesOn
  <2>3. i \in i .. CommentEnd(source)[i] - 1
    BY <1>4, <1>5
  <2> PICK x : x = Blank(source[i])
    OBVIOUS
  <2>4. x \in Characters \cup {"blank"} /\ x = StrippedText(source)[i] /\ Take(1, <<x>>)
    BY <1>1, <1>4, <1>6, <1>12, <2>3 DEF Blank
  <2>5. Agrees(out', StrippedText(source), i') /\ i' = i + 1
    BY <1>1, <2>4, TakeOneAgrees DEF Take
  <2> QED
    BY <1>1, <1>8, <1>12, <2>2, <2>5 DEF CommentsRead
<1> QED
  BY <1>10, <1>11, <1>12 DEF InsideComment

LEMMA InsideStringStep ==
  ASSUME LexicalInv, pass = "comments", CommentsRead, InsideString
  PROVE  CommentsRead'
<1>1. More /\ depth = 0 /\ inString /\ text = source /\ escaped \in BOOLEAN
      /\ Agrees(out, StrippedText(source), i)
  BY DEF InsideString, CommentsRead
<1>2. PICK a : InLiteral(source, a, i, escaped)
  BY <1>1 DEF CommentsRead
<1>3. PICK n \in Nat : n = Len(source)
  BY <1>1, Places
<1>4. i \in 1 .. n /\ source[i] \in Characters \cup {"blank"}
  BY <1>1, <1>3, Places
<1>5. /\ \A kind : Covered(source, kind, i) <=> kind = "string"
      /\ source[i] = "quote" /\ ~escaped => Reached(source, i + 1)
      /\ ~(source[i] = "quote" /\ ~escaped) =>
           InLiteral(source, a, i + 1, ~escaped /\ source[i] = "backslash")
  BY <1>1, <1>2, <1>3, <1>4, LiteralStep
<1>6. ~Covered(source, "comment", i)
  BY <1>5
<1>7. source[i] = StrippedText(source)[i]
  BY <1>3, <1>4, <1>6, StrippedAt
<1>8. Take(1, <<source[i]>>) /\ depth' = 0
      /\ escaped' = (~escaped /\ source[i] = "backslash")
      /\ inString' = ~(~escaped /\ source[i] = "quote")
      /\ i' = i + 1 /\ source' = source /\ text' = source
  BY <1>1 DEF InsideString, Take, FollowString
<1>9. Agrees(out', StrippedText(source), i')
  BY <1>1, <1>4, <1>7, <1>8, TakeOneAgrees
<1>10. escaped' \in BOOLEAN /\ inString' \in BOOLEAN
  BY <1>1, <1>8
<1>11. CASE source[i] = "quote" /\ ~escaped
  BY <1>5, <1>8, <1>9, <1>10, <1>11 DEF CommentsRead
<1>12. CASE ~(source[i] = "quote" /\ ~escaped)
  <2>1. inString' /\ InLiteral(source, a, i', escaped')
    BY <1>1, <1>5, <1>8, <1>12
  <2> QED
    BY <1>8, <1>9, <1>10, <2>1 DEF CommentsRead
<1> QED
  BY <1>11, <1>12

\* Outside of comments and literals a lexeme starts.
LEMMA CodePlace ==
  ASSUME LexicalInv, CommentsRead, Code
  PROVE  /\ text = source /\ Reached(source, i) /\ depth = 0 /\ ~inString /\ ~escaped
         /\ Agrees(out, StrippedText(source), i)
         /\ i \in 1 .. Len(source) /\ Len(source) \in Nat
         /\ source[i] \in Characters \cup {"blank"}
         /\ \A b, c : At(b, c) <=> Pair(source, i, b, c)
         /\ EndAt(source, i) \in i + 1 .. Len(source) + 1
         /\ Reached(source, EndAt(source, i))
         /\ \A q \in i .. EndAt(source, i) - 1 : q \in 1 .. Len(source) /\
              (Covered(source, "comment", q) <=> KindAt(source, i) = "comment")
<1>1. /\ pass = "comments" /\ More /\ text = source /\ Reached(source, i) /\ depth = 0
      /\ ~inString /\ ~escaped /\ Agrees(out, StrippedText(source), i)
  BY DEF Code, CommentsRead
<1>2. PICK n \in Nat : n = Len(source)
  BY <1>1, Places
<1>3. i \in 1 .. n /\ source[i] \in Characters \cup {"blank"}
  BY <1>1, <1>2, Places
<1>4. \A b, c : At(b, c) <=> Pair(source, i, b, c)
  BY <1>1 DEF At, Pair
<1>5. EndAt(source, i) \in i + 1 .. n + 1
  BY <1>2, <1>3, EndAtBounds
<1>6. /\ Reached(source, EndAt(source, i))
      /\ \A q \in i .. EndAt(source, i) - 1 : \A kind : Covered(source, kind, q) <=> kind = KindAt(source, i)
  BY <1>1, <1>2, <1>3, ReachedNext
<1>7. \A q \in i .. EndAt(source, i) - 1 : q \in 1 .. n
  BY <1>3, <1>5
<1>8. \A q \in i .. EndAt(source, i) - 1 : Covered(source, "comment", q) <=> KindAt(source, i) = "comment"
  BY <1>6
<1> QED
  BY <1>1, <1>2, <1>3, <1>4, <1>5, <1>6, <1>7, <1>8

LEMMA OpenCommentStep ==
  ASSUME LexicalInv, CommentsRead, OpenComment
  PROVE  CommentsRead'
<1>1. Code /\ At("slash", "dash") /\ depth' = depth + 1 /\ Take(2, <<"blank", "blank">>)
      /\ UNCHANGED <<inString, escaped>>
  BY DEF OpenComment
<1>2. /\ text = source /\ Reached(source, i) /\ depth = 0 /\ ~inString /\ ~escaped
      /\ Agrees(out, StrippedText(source), i)
      /\ Pair(source, i, "slash", "dash")
  BY <1>1, CodePlace
<1>3. PICK n \in Nat : n = Len(source) /\ i \in 1 .. n
  BY <1>1, CodePlace
<1>4. InComment(source, i, i + 2, 1)
  BY <1>2, <1>3, CommentOpens
<1>5. StrippedText(source)[i] = "blank" /\ StrippedText(source)[i + 1] = "blank"
  <2>1. KindAt(source, i) = "comment"
    BY <1>2, KindFacts
  <2>2. i \in i .. EndAt(source, i) - 1 /\ i + 1 \in i .. EndAt(source, i) - 1
    <3>1. i + 2 \in 1 .. n + 1
      BY <1>2, <1>3 DEF Pair
    <3>2. ~Pair(source, i, "dash", "dash")
      BY <1>2 DEF Pair
    <3>3. EndAt(source, i) = CommentEnd(source)[i + 2]
      BY <1>2, <3>2 DEF EndAt
    <3>4. CommentEnd(source)[i + 2] \in i + 2 .. n + 1
      BY <1>3, <3>1, CommentEndFacts
    <3> QED
      BY <1>3, <3>3, <3>4
  <2>3. \A q \in i .. EndAt(source, i) - 1 : q \in 1 .. Len(source) /\ Covered(source, "comment", q)
    BY <1>1, <2>1, CodePlace
  <2>4. StrippedText(source)[i] = Blank(source[i]) /\ StrippedText(source)[i + 1] = Blank(source[i + 1])
    BY <1>3, <2>2, <2>3, StrippedAt
  <2> QED
    BY <1>2, <2>4 DEF Pair, Blank
<1>6. Agrees(out', StrippedText(source), i')
  BY <1>1, <1>2, <1>5, TakeTwoAgrees
<1>7. i' = i + 2 /\ source' = source /\ text' = source /\ depth' = 1
  BY <1>1, <1>2 DEF Take
<1> QED
  BY <1>1, <1>2, <1>4, <1>6, <1>7 DEF CommentsRead

LEMMA CodeCharacterStep ==
  ASSUME LexicalInv, CommentsRead, CodeCharacter
  PROVE  CommentsRead'
<1>1. Code /\ ~At("dash", "dash") /\ ~At("slash", "dash") /\ Take(1, <<text[i]>>)
      /\ inString' = (text[i] = "quote") /\ escaped' = (escaped /\ text[i] # "quote")
      /\ UNCHANGED depth
  BY DEF CodeCharacter
<1>2. /\ text = source /\ Reached(source, i) /\ depth = 0 /\ ~inString /\ ~escaped
      /\ Agrees(out, StrippedText(source), i)
      /\ ~Pair(source, i, "dash", "dash") /\ ~Pair(source, i, "slash", "dash")
      /\ Reached(source, EndAt(source, i)) /\ source[i] \in Characters \cup {"blank"}
  BY <1>1, CodePlace
<1>3. PICK n \in Nat : n = Len(source) /\ i \in 1 .. n
  BY <1>1, CodePlace
<1>4. KindAt(source, i) # "comment"
  BY <1>2, KindFacts
<1>5. source[i] = StrippedText(source)[i]
  <2>1. EndAt(source, i) \in i + 1 .. n + 1
    BY <1>3, EndAtBounds
  <2>2. i \in i .. EndAt(source, i) - 1
    BY <1>3, <2>1
  <2>3. ~Covered(source, "comment", i)
    BY <1>1, <1>4, <2>2, CodePlace
  <2> QED
    BY <1>3, <2>3, StrippedAt
<1>6. i' = i + 1 /\ source' = source /\ text' = source /\ depth' = 0 /\ Take(1, <<source[i]>>)
      /\ inString' = (source[i] = "quote") /\ escaped' = FALSE
  BY <1>1, <1>2 DEF Take
<1>7. Agrees(out', StrippedText(source), i')
  BY <1>2, <1>5, <1>6, TakeOneAgrees
<1>8. CASE source[i] = "quote"
  <2>1. InLiteral(source, i, i + 1, FALSE)
    BY <1>2, <1>3, <1>8, LiteralOpens
  <2>2. inString' = TRUE
    BY <1>6, <1>8
  <2>3. InLiteral(source, i, i', escaped')
    BY <1>6, <2>1, Zenon
  <2>4. inString' \in BOOLEAN /\ escaped' \in BOOLEAN
    BY <1>6, <2>2
  <2> QED
    BY <1>6, <1>7, <2>2, <2>3, <2>4 DEF CommentsRead
<1>9. CASE source[i] # "quote"
  <2>1. EndAt(source, i) = i + 1
    BY <1>2, <1>9 DEF EndAt
  <2>2. inString' = FALSE
    BY <1>6, <1>9
  <2>3. Reached(source', i')
    BY <1>2, <1>6, <2>1
  <2>4. inString' \in BOOLEAN /\ escaped' \in BOOLEAN
    BY <1>6, <2>2
  <2> QED
    BY <1>6, <1>7, <2>2, <2>3, <2>4 DEF CommentsRead
<1> QED
  BY <1>8, <1>9

LEMMA LineCommentStep ==
  ASSUME LexicalInv, CommentsRead, LineComment
  PROVE  CommentsRead'
<1>1. Code /\ At("dash", "dash") /\ UNCHANGED <<depth, inString, escaped>>
      /\ Take(RestOfLine, [j \in 1 .. RestOfLine |-> "blank"])
  BY DEF LineComment
<1>2. /\ text = source /\ Reached(source, i) /\ depth = 0 /\ ~inString /\ ~escaped
      /\ Agrees(out, StrippedText(source), i)
      /\ Pair(source, i, "dash", "dash") /\ Reached(source, EndAt(source, i))
  BY <1>1, CodePlace
<1>3. PICK n \in Nat : n = Len(source) /\ i \in 1 .. n
  BY <1>1, CodePlace
<1>4. PICK k : k = RestOfLine
  OBVIOUS
<1>5. /\ k \in 1 .. n + 1 - i
      /\ i + k = n + 1 \/ source[i + k] = "newline"
      /\ \A j \in 0 .. k - 1 : source[i + j] # "newline"
  <2>1. text \in Texts /\ i \in 1 .. Len(text) /\ text[i] # "newline"
    BY <1>2, <1>3 DEF LexicalInv, Pair
  <2> QED
    BY <1>2, <1>3, <1>4, <2>1, RestOfLineExists
<1>6. EndsLine(source, i, i + k)
  <2>1. ASSUME NEW q \in i .. (i + k) - 1 PROVE source[q] # "newline"
    <3> PICK j : j = q - i
      OBVIOUS
    <3>1. j \in 0 .. k - 1 /\ i + j = q
      BY <1>3, <1>5
    <3> QED
      BY <1>5, <3>1
  <2>2. i + k \in i .. Len(source) + 1
    BY <1>3, <1>5
  <2> QED
    BY <1>3, <1>5, <2>1, <2>2 DEF EndsLine
<1>7. EndAt(source, i) = i + k
  <2>1. i \in Nat /\ Len(source) \in Nat
    BY <1>3
  <2>2. LineEnd(source, i) = i + k
    BY <1>6, <2>1, LineEndIs
  <2> QED
    BY <1>2, <2>2 DEF EndAt
<1>8. \A q \in i .. i + k - 1 : StrippedText(source)[q] = "blank"
  <2>1. KindAt(source, i) = "comment"
    BY <1>2, KindFacts
  <2>2. \A q \in i .. EndAt(source, i) - 1 : q \in 1 .. Len(source) /\ Covered(source, "comment", q)
    BY <1>1, <2>1, CodePlace
  <2> SUFFICES ASSUME NEW q \in i .. i + k - 1 PROVE StrippedText(source)[q] = "blank"
    OBVIOUS
  <2>3. q \in 1 .. Len(source) /\ Covered(source, "comment", q)
    <3>1. q \in i .. EndAt(source, i) - 1
      BY <1>3, <1>5, <1>7
    <3> QED
      BY <2>2, <3>1
  <2>4. StrippedText(source)[q] = Blank(source[q])
    BY <1>3, <2>3, StrippedAt
  <2>5. source[q] # "newline"
    <3> PICK j : j = q - i
      OBVIOUS
    <3>1. j \in 0 .. k - 1 /\ i + j = q
      BY <1>3, <1>5
    <3> QED
      BY <1>5, <3>1
  <2> QED
    BY <2>4, <2>5 DEF Blank
<1>9. Agrees(out', StrippedText(source), i') /\ i' = i + k /\ source' = source /\ text' = source
  <2>1. k \in Nat /\ Take(k, [j \in 1 .. k |-> "blank"])
    BY <1>1, <1>4, <1>5
  <2>2. i' = i + k /\ source' = source /\ text' = source
    BY <1>2, <2>1 DEF Take
  <2> QED
    BY <1>2, <1>8, <2>1, <2>2, TakeLineAgrees
<1>10. Reached(source, i + k)
  BY <1>2, <1>7
<1> QED
  BY <1>1, <1>2, <1>9, <1>10 DEF CommentsRead

-----------------------------------------------------------------------------
\* Outside of literals: p is in a lexeme, at its start if that is a literal.
InPlain(s, p) ==
  \/ p = Len(s) + 1
  \/ \E a \in 1 .. Len(s) : /\ Reached(s, a) /\ p \in a .. EndAt(s, a) - 1
                            /\ KindAt(s, a) = "string" => p = a

LEMMA ReachedPlain ==
  ASSUME NEW s, NEW n \in Nat, n = Len(s), NEW p, Reached(s, p)
  PROVE  InPlain(s, p)
<1>1. p \in 1 .. n + 1
  BY DEF Reached
<1>2. CASE p = n + 1
  BY <1>2 DEF InPlain
<1>3. CASE p # n + 1
  <2>1. p \in 1 .. n
    BY <1>1, <1>3
  <2>2. EndAt(s, p) \in p + 1 .. n + 1
    BY <2>1, EndAtBounds
  <2>3. p \in p .. EndAt(s, p) - 1
    BY <2>1, <2>2
  <2> QED
    BY <2>1, <2>3 DEF InPlain
<1> QED
  BY <1>2, <1>3

\* What a character outside of literals is, and where it leads to.
LEMMA PlainStep ==
  ASSUME NEW s, NEW n \in Nat, n = Len(s), NEW p \in 1 .. n, InPlain(s, p)
  PROVE  /\ Covered(s, "comment", p) => InPlain(s, p + 1) /\ ~Covered(s, "code", p)
         /\ ~Covered(s, "comment", p) /\ s[p] # "quote" => InPlain(s, p + 1) /\ Covered(s, "code", p)
         /\ ~Covered(s, "comment", p) /\ s[p] = "quote" =>
              InLiteral(s, p, p + 1, FALSE) /\ ~Covered(s, "code", p)
<1>1. p # n + 1
  OBVIOUS
<1>2. PICK a \in 1 .. n : /\ Reached(s, a) /\ p \in a .. EndAt(s, a) - 1
                          /\ KindAt(s, a) = "string" => p = a
  BY <1>1 DEF InPlain
<1> PICK e : e = EndAt(s, a)
  OBVIOUS
<1>3. e \in a + 1 .. n + 1 /\ p \in a .. e - 1
  BY <1>2, EndAtBounds
<1>4. Reached(s, e) /\ \A kind : Covered(s, kind, p) <=> kind = KindAt(s, a)
  BY <1>2, ReachedNext
<1>5. /\ KindAt(s, a) \in {"comment", "string", "code"}
      /\ Covered(s, "comment", p) <=> KindAt(s, a) = "comment"
      /\ Covered(s, "code", p) <=> KindAt(s, a) = "code"
  <2>1. Covered(s, "comment", p) <=> "comment" = KindAt(s, a)
    BY <1>4
  <2>2. Covered(s, "code", p) <=> "code" = KindAt(s, a)
    BY <1>4
  <2> QED
    BY <2>1, <2>2, KindFacts
<1>6. ASSUME KindAt(s, a) # "string" PROVE InPlain(s, p + 1)
  <2>1. CASE p + 1 = e
    BY <1>4, <2>1, ReachedPlain
  <2>2. CASE p + 1 # e
    <3>1. p + 1 \in a .. EndAt(s, a) - 1
      BY <1>3, <2>2
    <3> QED
      BY <1>2, <1>6, <3>1 DEF InPlain
  <2> QED
    BY <2>1, <2>2
<1>7. CASE KindAt(s, a) = "comment"
  BY <1>5, <1>6, <1>7
<1>8. CASE KindAt(s, a) = "code"
  <2>1. s[a] # "quote" /\ e = a + 1
    BY <1>8, KindFacts
  <2>2. p = a
    BY <1>3, <2>1
  <2> QED
    BY <1>5, <1>6, <1>8, <2>1, <2>2
<1>9. CASE KindAt(s, a) = "string"
  <2>1. p = a /\ s[a] = "quote"
    BY <1>2, <1>9, KindFacts
  <2>2. InLiteral(s, p, p + 1, FALSE)
    BY <1>2, <2>1, LiteralOpens
  <2> QED
    BY <1>5, <1>9, <2>1, <2>2
<1> QED
  BY <1>5, <1>7, <1>8, <1>9

Readable == reading = "lines" => LiteralsCloseOnTheirLine

StringsRead ==
  /\ Agrees(text, StrippedText(source), Len(source) + 1)
  /\ Agrees(out, KeptText(source), i)
  /\ inString \in BOOLEAN /\ escaped \in BOOLEAN
  /\ inString => \E a : InLiteral(source, a, i, escaped)
  /\ ~inString => ~escaped /\ InPlain(source, i)

KeptAt(s, p) ==
  /\ Covered(s, "code", p) => KeptText(s)[p] = s[p]
  /\ ~Covered(s, "code", p) => KeptText(s)[p] = Blank(s[p])

LEMMA KeptTextAt ==
  ASSUME NEW s, Len(s) \in Nat, NEW p \in 1 .. Len(s)
  PROVE  KeptAt(s, p)
BY DEF KeptAt, KeptText, Kept

\* What the second pass reads and should put out at its place.
LEMMA SecondPass ==
  ASSUME LexicalInv, StringsRead, More
  PROVE  /\ i \in 1 .. Len(source) /\ Len(source) \in Nat
         /\ text[i] \in Characters \cup {"blank"}
         /\ Agrees(out, KeptText(source), i)
         /\ Covered(source, "comment", i) => text[i] = Blank(source[i])
         /\ ~Covered(source, "comment", i) => text[i] = source[i]
         /\ Covered(source, "code", i) => KeptText(source)[i] = source[i]
         /\ ~Covered(source, "code", i) => KeptText(source)[i] = Blank(source[i])
<1>1. /\ i \in 1 .. Len(source) /\ Len(source) \in Nat
      /\ text[i] \in Characters \cup {"blank"}
  BY DEF LexicalInv, More, Texts
<1>2. text[i] = StrippedText(source)[i]
  <2>1. i \in 1 .. (Len(source) + 1) - 1
    BY <1>1
  <2> QED
    BY <2>1 DEF StringsRead, Agrees
<1>3. /\ Covered(source, "comment", i) => text[i] = Blank(source[i])
      /\ ~Covered(source, "comment", i) => text[i] = source[i]
  BY <1>1, <1>2, StrippedAt
<1>4. KeptAt(source, i)
  BY <1>1, KeptTextAt
<1>5. Agrees(out, KeptText(source), i)
  BY DEF StringsRead
<1> QED
  BY <1>1, <1>3, <1>4, <1>5 DEF KeptAt

LEMMA BlankStringStep ==
  ASSUME LexicalInv, StringsRead, BlankString
  PROVE  StringsRead'
<1>1. More /\ inString /\ text[i] # "newline" /\ Take(1, <<"blank">>)
      /\ escaped' = (~escaped /\ text[i] = "backslash")
      /\ inString' = ~(~escaped /\ text[i] = "quote")
  BY DEF BlankString, FollowString
<1>2. escaped \in BOOLEAN /\ inString \in BOOLEAN
      /\ Agrees(text, StrippedText(source), Len(source) + 1)
  BY DEF StringsRead
<1>3. PICK a : InLiteral(source, a, i, escaped)
  BY <1>1 DEF StringsRead
<1>4. PICK n \in Nat : n = Len(source) /\ i \in 1 .. n
  BY <1>1, SecondPass
<1>5. /\ \A kind : Covered(source, kind, i) <=> kind = "string"
      /\ source[i] = "quote" /\ ~escaped => Reached(source, i + 1)
      /\ ~(source[i] = "quote" /\ ~escaped) =>
           InLiteral(source, a, i + 1, ~escaped /\ source[i] = "backslash")
  BY <1>2, <1>3, <1>4, LiteralStep
<1>6. ~Covered(source, "comment", i) /\ ~Covered(source, "code", i)
  BY <1>5
<1>7. text[i] = source[i] /\ KeptText(source)[i] = "blank" /\ Agrees(out, KeptText(source), i)
  BY <1>1, <1>6, SecondPass DEF Blank
<1>8. Agrees(out', KeptText(source), i')
  <2> PICK x : x = "blank"
    OBVIOUS
  <2>1. x \in Characters \cup {"blank"} /\ x = KeptText(source)[i] /\ Take(1, <<x>>)
    BY <1>1, <1>7
  <2> QED
    BY <1>7, <2>1, TakeOneAgrees
<1>9. i' = i + 1 /\ source' = source /\ text' = text
  BY <1>1 DEF Take
<1>10. escaped' \in BOOLEAN /\ inString' \in BOOLEAN
  BY <1>1, <1>2
<1>11. CASE source[i] = "quote" /\ ~escaped
  <2>1. ~inString' /\ ~escaped'
    BY <1>1, <1>7, <1>11
  <2>2. InPlain(source, i')
    BY <1>4, <1>5, <1>9, <1>11, ReachedPlain
  <2> QED
    BY <1>2, <1>8, <1>9, <1>10, <2>1, <2>2 DEF StringsRead
<1>12. CASE ~(source[i] = "quote" /\ ~escaped)
  <2>1. inString'
    BY <1>1, <1>7, <1>12
  <2>2. InLiteral(source, a, i', escaped')
    <3>1. InLiteral(source, a, i + 1, ~escaped /\ source[i] = "backslash")
      BY <1>5, <1>12
    <3>2. escaped' = (~escaped /\ source[i] = "backslash")
      BY <1>1, <1>7
    <3> QED
      BY <1>9, <3>1, <3>2
  <2> QED
    BY <1>2, <1>8, <1>9, <1>10, <2>1, <2>2 DEF StringsRead
<1> QED
  BY <1>11, <1>12

\* A literal that closes on its line holds no newline.
LEMMA NoNewlineInside ==
  ASSUME NEW n \in Nat, n = Len(source), NEW a, i \in 1 .. n, escaped \in BOOLEAN,
         InLiteral(source, a, i, escaped), LiteralsCloseOnTheirLine
  PROVE  source[i] # "newline"
<1>1. <<"string", a, EndAt(source, a) - 1>> \in Lexemes(source) /\ i \in a .. EndAt(source, a) - 1
  BY LiteralStep
<1> PICK x : x = <<"string", a, EndAt(source, a) - 1>>
  OBVIOUS
<1>2. x[1] = "string" /\ x[2] = a /\ x[3] = EndAt(source, a) - 1
  OBVIOUS
<1> QED
  BY <1>1, <1>2 DEF LiteralsCloseOnTheirLine

LEMMA StringNewlineStep ==
  ASSUME LexicalInv, StringsRead, StringNewline, Readable
  PROVE  StringsRead'
<1>1. More /\ text[i] = "newline" /\ Take(1, <<"newline">>)
      /\ inString' = (inString /\ reading = "whole") /\ escaped' = FALSE
  BY DEF StringNewline
<1>2. escaped \in BOOLEAN /\ inString \in BOOLEAN
      /\ Agrees(text, StrippedText(source), Len(source) + 1)
  BY DEF StringsRead
<1>3. PICK n \in Nat : n = Len(source) /\ i \in 1 .. n
  BY <1>1, SecondPass
<1>4. source[i] = "newline" /\ KeptText(source)[i] = "newline" /\ Agrees(out, KeptText(source), i)
  BY <1>1, SecondPass DEF Blank
<1>5. Agrees(out', KeptText(source), i')
  <2> PICK x : x = "newline"
    OBVIOUS
  <2>1. x \in Characters \cup {"blank"} /\ x = KeptText(source)[i] /\ Take(1, <<x>>)
    BY <1>1, <1>4 DEF Characters
  <2> QED
    BY <1>4, <2>1, TakeOneAgrees
<1>6. i' = i + 1 /\ source' = source /\ text' = text
  BY <1>1 DEF Take
<1>7. inString' \in BOOLEAN /\ escaped' \in BOOLEAN /\ ~escaped'
  BY <1>1, <1>2
<1>8. CASE inString
  <2>1. PICK a : InLiteral(source, a, i, escaped)
    BY <1>8 DEF StringsRead
  <2>2. ~LiteralsCloseOnTheirLine
    BY <1>2, <1>3, <1>4, <2>1, NoNewlineInside
  <2>3. inString'
    BY <1>1, <1>8, <2>2 DEF Readable, LexicalInv
  <2>4. InLiteral(source, a, i + 1, ~escaped /\ source[i] = "backslash")
    BY <1>2, <1>3, <1>4, <2>1, LiteralStep
  <2>5. InLiteral(source, a, i', escaped')
    <3>1. escaped' = (~escaped /\ source[i] = "backslash")
      BY <1>1, <1>4
    <3> QED
      BY <1>6, <2>4, <3>1
  <2> QED
    BY <1>2, <1>5, <1>6, <1>7, <2>3, <2>5 DEF StringsRead
<1>9. CASE ~inString
  <2>1. ~inString'
    BY <1>1, <1>9
  <2>2. InPlain(source, i)
    BY <1>9 DEF StringsRead
  <2>3. InPlain(source, i + 1)
    BY <1>3, <1>4, <2>2, PlainStep
  <2> QED
    BY <1>2, <1>5, <1>6, <1>7, <2>1, <2>3 DEF StringsRead
<1> QED
  BY <1>8, <1>9

LEMMA CopyCodeStep ==
  ASSUME LexicalInv, StringsRead, CopyCode
  PROVE  StringsRead'
<1>1. More /\ ~inString /\ text[i] # "newline"
      /\ Take(1, <<IF text[i] = "quote" THEN "blank" ELSE text[i]>>)
      /\ inString' = (text[i] = "quote") /\ escaped' = FALSE
  BY DEF CopyCode
<1>2. Agrees(text, StrippedText(source), Len(source) + 1) /\ InPlain(source, i)
  BY <1>1 DEF StringsRead
<1>3. PICK n \in Nat : n = Len(source) /\ i \in 1 .. n
  BY <1>1, SecondPass
<1>4. /\ text[i] \in Characters \cup {"blank"} /\ Agrees(out, KeptText(source), i)
      /\ Covered(source, "comment", i) => text[i] = Blank(source[i])
      /\ ~Covered(source, "comment", i) => text[i] = source[i]
      /\ Covered(source, "code", i) => KeptText(source)[i] = source[i]
      /\ ~Covered(source, "code", i) => KeptText(source)[i] = Blank(source[i])
  BY <1>1, SecondPass
<1>5. /\ Covered(source, "comment", i) => InPlain(source, i + 1) /\ ~Covered(source, "code", i)
      /\ ~Covered(source, "comment", i) /\ source[i] # "quote" =>
           InPlain(source, i + 1) /\ Covered(source, "code", i)
      /\ ~Covered(source, "comment", i) /\ source[i] = "quote" =>
           InLiteral(source, i, i + 1, FALSE) /\ ~Covered(source, "code", i)
  BY <1>2, <1>3, PlainStep
<1>6. text[i] = "quote" <=> ~Covered(source, "comment", i) /\ source[i] = "quote"
  BY <1>4 DEF Blank
<1> PICK x : x = IF text[i] = "quote" THEN "blank" ELSE text[i]
  OBVIOUS
<1>7. x \in Characters \cup {"blank"} /\ x = KeptText(source)[i] /\ Take(1, <<x>>)
  <2>1. CASE Covered(source, "comment", i)
    <3>1. text[i] # "quote" /\ x = text[i]
      BY <1>6, <2>1
    <3> QED
      BY <1>1, <1>4, <1>5, <2>1, <3>1
  <2>2. CASE ~Covered(source, "comment", i) /\ source[i] # "quote"
    BY <1>1, <1>4, <1>5, <1>6, <2>2
  <2>3. CASE ~Covered(source, "comment", i) /\ source[i] = "quote"
    BY <1>1, <1>4, <1>5, <1>6, <2>3 DEF Blank
  <2> QED
    BY <2>1, <2>2, <2>3
<1>8. Agrees(out', KeptText(source), i')
  BY <1>4, <1>7, TakeOneAgrees
<1>9. i' = i + 1 /\ source' = source /\ text' = text
  BY <1>1 DEF Take
<1>10. CASE text[i] = "quote"
  <2>1. inString' = TRUE
    BY <1>1, <1>10
  <2>2. InLiteral(source, i, i + 1, FALSE)
    BY <1>5, <1>6, <1>10
  <2>3. InLiteral(source, i, i', escaped')
    BY <1>1, <1>9, <2>2, Zenon
  <2>4. inString' \in BOOLEAN /\ escaped' \in BOOLEAN
    BY <1>1, <2>1
  <2> QED
    BY <1>2, <1>8, <1>9, <2>1, <2>3, <2>4 DEF StringsRead
<1>11. CASE text[i] # "quote"
  <2>1. inString' = FALSE
    BY <1>1, <1>11
  <2>2. InPlain(source, i')
    BY <1>5, <1>6, <1>9, <1>11
  <2>3. inString' \in BOOLEAN /\ escaped' \in BOOLEAN /\ ~escaped'
    BY <1>1, <2>1
  <2> QED
    BY <1>2, <1>8, <1>9, <2>1, <2>2, <2>3 DEF StringsRead
<1> QED
  BY <1>10, <1>11

-----------------------------------------------------------------------------
KeptInv ==
  /\ LexicalInv
  /\ pass = "comments" => CommentsRead
  /\ pass = "strings" /\ Readable => StringsRead
  /\ pass = "done" /\ Readable => Agrees(out, KeptText(source), Len(source) + 1)

LEMMA KeptInitially == ScanInit => KeptInv
<1> SUFFICES ASSUME ScanInit PROVE KeptInv
  OBVIOUS
<1>1. LexicalInv
  BY LexicalInitially
<1>2. PICK n \in Nat : n = Len(source)
  BY <1>1 DEF LexicalInv, Texts
<1>3. Reached(source, 1)
  BY <1>2, ReachedFirst
<1>4. text = source /\ i = 1 /\ depth = 0 /\ inString = FALSE /\ escaped = FALSE /\ pass = "comments"
  BY DEF ScanInit
<1>5. Agrees(out, StrippedText(source), i)
  <2>1. 1 .. i - 1 = {}
    BY <1>4
  <2> QED
    BY <2>1 DEF Agrees
<1>6. CommentsRead
  <2>1. ~inString /\ ~escaped /\ inString \in BOOLEAN /\ escaped \in BOOLEAN
    BY <1>4
  <2>2. Reached(source, i) /\ ~(depth > 0) /\ depth \in Nat
    BY <1>3, <1>4
  <2> QED
    BY <1>4, <1>5, <2>1, <2>2 DEF CommentsRead
<1> QED
  BY <1>1, <1>4, <1>6 DEF KeptInv

LEMMA EndOfPassStep ==
  ASSUME KeptInv, EndOfPass, LexicalInv'
  PROVE  KeptInv'
<1>1. LexicalInv /\ ~More /\ pass # "done" /\ UNCHANGED <<source, reading>>
      /\ inString' = FALSE /\ escaped' = FALSE
  BY DEF KeptInv, EndOfPass
<1>2. PICK n \in Nat : n = Len(source) /\ Len(text) = n
  BY <1>1 DEF LexicalInv, Texts
<1>3. i = n + 1
  BY <1>1, <1>2 DEF LexicalInv, More
<1>4. CASE pass = "comments"
  <2>1. pass' = "strings" /\ text' = out /\ i' = 1 /\ out' = <<>>
    BY <1>4 DEF EndOfPass
  <2>2. Agrees(out, StrippedText(source), i)
    BY <1>4 DEF KeptInv, CommentsRead
  <2>3. Agrees(text', StrippedText(source'), Len(source') + 1)
    BY <1>1, <1>2, <1>3, <2>1, <2>2
  <2>4. Agrees(out', KeptText(source'), i')
    <3>1. 1 .. i' - 1 = {}
      BY <2>1
    <3> QED
      BY <3>1 DEF Agrees
  <2>5. InPlain(source', i')
    <3>1. Reached(source, 1)
      BY <1>2, ReachedFirst
    <3>2. InPlain(source, 1)
      BY <1>2, <3>1, ReachedPlain
    <3> QED
      BY <1>1, <2>1, <3>2
  <2>6. StringsRead'
    BY <1>1, <2>3, <2>4, <2>5 DEF StringsRead
  <2> QED
    BY <2>1, <2>6 DEF KeptInv
<1>5. CASE pass # "comments"
  <2>1. pass' = "done" /\ UNCHANGED <<text, i, out>> /\ pass = "strings"
    BY <1>1, <1>5 DEF EndOfPass, LexicalInv
  <2>2. Readable' => Readable
    BY <1>1 DEF Readable, LiteralsCloseOnTheirLine
  <2>3. Readable' => Agrees(out', KeptText(source'), Len(source') + 1)
    <3>1. Readable => Agrees(out, KeptText(source), i)
      BY <2>1 DEF KeptInv, StringsRead
    <3> QED
      BY <1>1, <1>2, <1>3, <2>1, <2>2, <3>1
  <2> QED
    BY <2>1, <2>3 DEF KeptInv
<1> QED
  BY <1>4, <1>5

LEMMA KeptStep == KeptInv /\ [ScanNext]_scanVars => KeptInv'
<1> SUFFICES ASSUME KeptInv, [ScanNext]_scanVars PROVE KeptInv'
  OBVIOUS
<1>1. LexicalInv
  BY DEF KeptInv
<1>2. LexicalInv'
  BY <1>1, LexicalStep
<1>3. CASE InsideComment \/ InsideString \/ LineComment \/ OpenComment \/ CodeCharacter
  <2>1. pass = "comments" /\ pass' = "comments"
    BY <1>3 DEF InsideComment, InsideString, LineComment, OpenComment, CodeCharacter, Code, Take
  <2>2. CommentsRead
    BY <2>1 DEF KeptInv
  <2>3. CommentsRead'
    BY <1>1, <1>3, <2>1, <2>2, InsideCommentStep, InsideStringStep, LineCommentStep,
       OpenCommentStep, CodeCharacterStep
  <2> QED
    BY <1>2, <2>1, <2>3 DEF KeptInv
<1>4. CASE BlankString \/ StringNewline \/ CopyCode
  <2>1. pass = "strings" /\ pass' = "strings" /\ UNCHANGED <<source, reading>>
    BY <1>4 DEF BlankString, StringNewline, CopyCode, Take
  <2>2. Readable' => Readable
    BY <2>1 DEF Readable, LiteralsCloseOnTheirLine
  <2>3. ASSUME Readable PROVE StringsRead'
    <3>1. StringsRead
      BY <2>1, <2>3 DEF KeptInv
    <3> QED
      BY <1>1, <1>4, <2>3, <3>1, BlankStringStep, StringNewlineStep, CopyCodeStep
  <2> QED
    BY <1>2, <2>1, <2>2, <2>3 DEF KeptInv
<1>5. CASE EndOfPass
  BY <1>2, <1>5, EndOfPassStep
<1>6. CASE UNCHANGED scanVars
  <2>1. UNCHANGED <<source, reading, pass, text, i, out, depth, inString, escaped>>
    BY <1>6 DEF scanVars
  <2>2. CommentsRead' <=> CommentsRead
    BY <2>1 DEF CommentsRead
  <2>3. StringsRead' <=> StringsRead
    BY <2>1 DEF StringsRead
  <2>4. Readable' <=> Readable
    BY <2>1 DEF Readable, LiteralsCloseOnTheirLine
  <2> QED
    BY <1>2, <2>1, <2>2, <2>3, <2>4 DEF KeptInv
<1> QED
  BY <1>3, <1>4, <1>5, <1>6 DEF ScanNext

(* For every source and both ways of reading it: the passes keep exactly   *)
(* the code, each character at its place, and blank the rest.              *)
THEOREM CodeIsExactlyKept == ScanSpec => []CodeExactlyKept
<1>1. KeptInv => CodeExactlyKept
  <2> SUFFICES ASSUME KeptInv, pass = "done", Readable PROVE CodeExactlyKept
    BY DEF CodeExactlyKept, Readable
  <2>1. Agrees(out, KeptText(source), Len(source) + 1)
    BY DEF KeptInv
  <2>2. DOMAIN source = 1 .. Len(source) /\ Len(source) \in Nat
        /\ DOMAIN out = 1 .. Len(source) /\ out = [p \in DOMAIN out |-> out[p]]
    BY DEF KeptInv, LexicalInv, Texts
  <2>3. ASSUME NEW p \in DOMAIN source PROVE out[p] = Kept(source, p)
    <3>1. p \in 1 .. (Len(source) + 1) - 1 /\ p \in 1 .. Len(source)
      BY <2>2
    <3>2. out[p] = KeptText(source)[p]
      BY <2>1, <3>1 DEF Agrees
    <3> QED
      BY <3>1, <3>2 DEF KeptText
  <2>4. out = [p \in DOMAIN source |-> Kept(source, p)]
    BY <2>2, <2>3
  <2> QED
    BY <2>4, Zenon DEF CodeExactlyKept, Kept, Covered
<1> QED
  BY <1>1, KeptInitially, KeptStep, PTL DEF ScanSpec

-----------------------------------------------------------------------------
(* The gates and the contract.                                             *)

\* The first place of a sequence that passes a test.
LEMMA FirstPlace ==
  ASSUME NEW T, T \in SUBSET Nat, T # {}
  PROVE  Min(T) \in T /\ \A k \in T : Min(T) <= k
<1>1. \E m \in T : \A k \in T : m <= k
  BY LeastNatural
<1> QED
  BY <1>1 DEF Min

VerifyLine  == SelectInSeq(lines, LAMBDA l : l.opens = "verify")
LinesPassed == profile \in {"A", "B"} /\ \A k \in DOMAIN lines : Allowed(profile, lines[k].opens)

\* What each answer says of the document.
ContractInv ==
  /\ lines \in Seq(Lines) /\ profile \in {"A", "B", "C"}
  /\ stage \in {"schema", "lines", "contract", "passed", "refused"}
  /\ stage \in {"contract", "passed"} => LinesPassed
  /\ stage = "passed" /\ EnforceContract => ContractHolds
  /\ stage = "refused" => \/ route = "artifact" /\ (~wellFormed \/ profile = "C")
                          \/ ~LinesPassed \/ ~ContractHolds

LEMMA TemplateType ==
  ASSUME NEW p \in {"A", "B"}, NEW f \in Formulas
  PROVE  /\ Template(p, f, NativeBlock) \in Seq(Lines)
         /\ \A g \in Goals : Template(p, f, GrindBlock(g)) \in Seq(Lines)
<1>0. /\ \A x \in {"import_tactic", "options", "helpers", "expected"} : Plain(x) \in Lines
      /\ \A x \in Parts, y \in {"no", "by"} : Theorem(x, y) \in Lines /\ Continue(x, y) \in Lines
      /\ Tactic("native_decide") \in Lines /\ Tactic("grind") \in Lines
      /\ "nothing" \in Parts /\ "shape" \in Parts
  BY DEF Lines, Begins, Endings, Words, Declares, Parts, Openings, Refusable,
         Plain, Theorem, Continue, Tactic, Line
<1>1. Imports(p) \in Seq(Lines)
  <2>1. <<Plain("import_tactic")>> \in Seq(Lines) /\ <<>> \in Seq(Lines)
    BY <1>0
  <2> QED
    BY <2>1 DEF Imports
<1>2. Prelude \in Seq(Lines) /\ <<Plain("expected")>> \in Seq(Lines) /\ f \in Seq(Lines)
  BY <1>0, ContractAssumption DEF Prelude
<1>3. NativeBlock \in Seq(Lines)
  <2>1. /\ Theorem("nothing", "no") \in Lines /\ Continue("shape", "by") \in Lines
        /\ Tactic("native_decide") \in Lines
    BY <1>0
  <2>2. \A x, y, z \in Lines : <<x, y, z>> \in Seq(Lines)
    OBVIOUS
  <2> QED
    BY <2>1, <2>2 DEF NativeBlock
<1>4. ASSUME NEW g \in Goals PROVE GrindBlock(g) \in Seq(Lines)
  <2>1. g \in Seq(Parts) /\ Len(g) \in Nat /\ \A k \in 1 .. Len(g) : g[k] \in Parts
    BY ContractAssumption
  <2> DEFINE end(k) == IF k = Len(g) THEN "by" ELSE "no"
             h(k) == IF k = 1 THEN Theorem(g[1], end(1)) ELSE Continue(g[k], end(k))
  <2>2. ASSUME NEW k \in 1 .. Len(g) PROVE h(k) \in Lines
    <3>1. Continue(g[k], end(k)) \in Lines
      BY <1>0, <2>1
    <3>2. k = 1 => Theorem(g[1], end(1)) \in Lines
      BY <1>0, <2>1
    <3> QED
      BY <3>1, <3>2
  <2> HIDE DEF h
  <2>3. [k \in 1 .. Len(g) |-> h(k)] \in Seq(Lines)
    BY <2>1, <2>2
  <2>4. <<Tactic("grind")>> \in Seq(Lines)
    BY <1>0
  <2> QED
    BY <2>3, <2>4, ConcatProperties DEF GrindBlock, h
<1> QED
  BY <1>1, <1>2, <1>3, <1>4, ConcatProperties DEF Template

LEMMA ContractInitially == ContractInit => ContractInv
  BY ContractAssumption, TemplateType DEF ContractInit, ContractInv

LEMMA ContractStep == ContractInv /\ [ContractNext]_contractVars => ContractInv'
<1> SUFFICES ASSUME ContractInv, [ContractNext]_contractVars PROVE ContractInv'
  OBVIOUS
<1>1. UNCHANGED <<lines, route, wellFormed, profile, enforce>>
  BY DEF ContractNext, ValidateArtifact, LineGates, ValidateContract, Become, contractVars
<1>2. /\ LinesPassed' <=> LinesPassed
      /\ EnforceContract' <=> EnforceContract
      /\ ContractHolds' <=> ContractHolds
  <2>1. \A name : Opens(name)' = Opens(name)
    BY <1>1 DEF Opens
  <2>2. \A s : Block(s)' = Block(s)
    BY <1>1 DEF Block
  <2>3. \A s : VerifyAllowed(s)' <=> VerifyAllowed(s)
    BY <2>2 DEF VerifyAllowed
  <2>4. VerifyLine' = VerifyLine
    BY <1>1 DEF VerifyLine, SelectInSeq
  <2>5. ContractHolds' <=> ContractHolds
    BY <2>1, <2>3, <2>4 DEF ContractHolds, VerifyLine
  <2> QED
    BY <1>1, <2>5 DEF LinesPassed, EnforceContract
<1>3. CASE ValidateArtifact
  BY <1>1, <1>2, <1>3 DEF ContractInv, ValidateArtifact, Become
<1>4. CASE LineGates
  BY <1>1, <1>2, <1>4 DEF ContractInv, LineGates, Become, LinesPassed
<1>5. CASE ValidateContract
  BY <1>1, <1>2, <1>5 DEF ContractInv, ValidateContract, Become
<1>6. CASE UNCHANGED contractVars
  BY <1>2, <1>6 DEF ContractInv, contractVars
<1> QED
  BY <1>3, <1>4, <1>5, <1>6 DEF ContractNext

LEMMA ContractInvariance == ContractSpec => []ContractInv
  BY ContractInitially, ContractStep, PTL DEF ContractSpec

\* The line the theorem is looked for on is the first that opens it.
LEMMA VerifyLineFirst ==
  ASSUME lines \in Seq(Lines), Opens("verify") # {}
  PROVE  /\ VerifyLine \in DOMAIN lines /\ lines[VerifyLine].opens = "verify"
         /\ \A k \in 1 .. VerifyLine - 1 : lines[k].opens # "verify"
<1> DEFINE T == {k \in 1 .. Len(lines) : lines[k].opens = "verify"}
<1>1. T = Opens("verify") /\ T \in SUBSET Nat /\ T # {}
  BY DEF Opens
<1>2. VerifyLine = Min(T)
  BY <1>1 DEF VerifyLine, SelectInSeq
<1>3. VerifyLine \in T /\ \A k \in T : VerifyLine <= k
  BY <1>1, <1>2, FirstPlace
<1> QED
  BY <1>3

\* The block of a line: from there to before the next declaration.
LEMMA BlockEnds ==
  ASSUME lines \in Seq(Lines), NEW a \in DOMAIN lines
  PROVE  \E c \in a .. Len(lines) :
           /\ Block(a) = SubSeq(lines, a, c)
           /\ \A k \in a + 1 .. c : ~Top(lines[k])
           /\ c = Len(lines) \/ Top(lines[c + 1])
<1> DEFINE Stops == {k \in a + 1 .. Len(lines) : Top(lines[k])}
<1>1. Len(lines) \in Nat /\ a \in 1 .. Len(lines)
  OBVIOUS
<1>2. CASE Stops = {}
  <2>1. Block(a) = SubSeq(lines, a, Len(lines))
    BY <1>2 DEF Block
  <2>2. Len(lines) \in a .. Len(lines) /\ \A k \in a + 1 .. Len(lines) : ~Top(lines[k])
    BY <1>1, <1>2
  <2> QED
    BY <2>1, <2>2
<1>3. CASE Stops # {}
  <2>1. Stops \in SUBSET Nat
    BY <1>1
  <2>2. PICK m : m = CHOOSE k \in Stops : \A j \in Stops : k <= j
    OBVIOUS
  <2>3. m \in Stops /\ \A k \in Stops : m <= k
    BY <1>3, <2>1, <2>2, LeastNatural
  <2>4. Block(a) = SubSeq(lines, a, m - 1)
    BY <1>3, <2>2 DEF Block
  <2>5. m - 1 \in a .. Len(lines) /\ Top(lines[(m - 1) + 1])
    BY <1>1, <2>3
  <2>6. \A k \in a + 1 .. m - 1 : ~Top(lines[k])
    BY <1>1, <2>3
  <2> QED
    BY <2>4, <2>5, <2>6
<1> QED
  BY <1>2, <1>3

\* Where the statement ends.
LEMMA HeaderEnds ==
  ASSUME NEW s \in Seq(Lines), HeaderLength(s) # 0
  PROVE  /\ HeaderLength(s) \in 1 .. Len(s) /\ s[HeaderLength(s)].ends = "by"
         /\ \A k \in 1 .. HeaderLength(s) - 1 : s[k].ends # "by"
<1> DEFINE T == {k \in 1 .. Len(s) : s[k].ends = "by"}
<1>1. T \in SUBSET Nat
  OBVIOUS
<1>2. T # {} /\ HeaderLength(s) = Min(T)
  BY DEF HeaderLength, SelectInSeq
<1>3. HeaderLength(s) \in T /\ \A k \in T : HeaderLength(s) <= k
  BY <1>1, <1>2, FirstPlace
<1> QED
  BY <1>3

LEMMA SliceLines ==
  ASSUME NEW s \in Seq(Lines), NEW a \in 1 .. Len(s) + 1, NEW c \in a - 1 .. Len(s)
  PROVE  /\ SubSeq(s, a, c) \in Seq(Lines) /\ Len(SubSeq(s, a, c)) = c - a + 1
         /\ \A k \in 1 .. c - a + 1 : SubSeq(s, a, c)[k] = s[a + k - 1]
  OBVIOUS

\* Where Lean ends what begins on a line.
LEMMA DeclarationEnds ==
  ASSUME lines \in Seq(Lines), NEW a \in DOMAIN lines
  PROVE  \E c \in a .. Len(lines) :
           /\ \A k \in a + 1 .. c : ~Declares(lines[k])
           /\ c = Len(lines) \/ Declares(lines[c + 1])
<1> DEFINE Stops == {k \in a + 1 .. Len(lines) : Declares(lines[k])}
<1>1. Len(lines) \in Nat /\ a \in 1 .. Len(lines)
  OBVIOUS
<1>2. CASE Stops = {}
  <2>1. Len(lines) \in a .. Len(lines) /\ \A k \in a + 1 .. Len(lines) : ~Declares(lines[k])
    BY <1>1, <1>2
  <2> QED
    BY <2>1
<1>3. CASE Stops # {}
  <2>1. PICK m \in Stops : \A k \in Stops : m <= k
    <3>1. Stops \in SUBSET Nat
      BY <1>1
    <3> QED
      BY <1>3, <3>1, LeastNatural
  <2>2. m - 1 \in a .. Len(lines) /\ Declares(lines[(m - 1) + 1])
    BY <1>1, <2>1
  <2>3. \A k \in a + 1 .. m - 1 : ~Declares(lines[k])
    BY <1>1, <2>1
  <2> QED
    BY <2>2, <2>3
<1> QED
  BY <1>2, <1>3

(* A contract that holds means a theorem that one of the rules proves,     *)
(* unless Lean reads it otherwise.                                         *)
LEMMA VerifyProved ==
  ASSUME lines \in Seq(Lines), NEW a \in DOMAIN lines, lines[a].opens = "verify",
         \A k \in 1 .. a - 1 : lines[k].opens # "verify", VerifyAllowed(a), ~Misread(a)
  PROVE  \E b \in a .. Len(lines), c \in a .. Len(lines) : ProvedByRule(a, b, c)
<1>0. Len(lines) \in Nat /\ a \in 1 .. Len(lines) /\ DOMAIN lines = 1 .. Len(lines)
  OBVIOUS
<1>1. PICK c \in a .. Len(lines) :
        /\ Block(a) = SubSeq(lines, a, c)
        /\ \A k \in a + 1 .. c : ~Top(lines[k])
        /\ c = Len(lines) \/ Top(lines[c + 1])
  BY BlockEnds
<1> DEFINE s == Block(a)
           n == HeaderLength(s)
           v == Split(s)
<1>2. /\ s \in Seq(Lines) /\ Len(s) = c - a + 1 /\ c \in Nat
      /\ \A k \in 1 .. c - a + 1 : s[k] = lines[a + k - 1]
  <2>1. a \in 1 .. Len(lines) + 1 /\ c \in a - 1 .. Len(lines)
    <3>1. PICK l \in Nat : l = Len(lines) /\ a \in 1 .. l /\ c \in a .. l
      BY <1>0
    <3>2. a \in 1 .. l + 1 /\ c \in a - 1 .. l
      BY <3>1
    <3> QED
      BY <3>1, <3>2
  <2>2. s = SubSeq(lines, a, c)
    BY <1>1
  <2> HIDE DEF s
  <2> QED
    BY <1>0, <2>1, <2>2, SliceLines
<1>3. /\ TacticOf(v.proof) # "none" /\ ~IsJust(v.statement, "True")
      /\ TacticOf(v.proof) = "native_decide" => IsJust(v.statement, "shape")
      /\ TacticOf(v.proof) = "grind" =>
           \E k \in DOMAIN v.statement : v.statement[k] \in Lettered
  BY DEF VerifyAllowed
<1> HIDE DEF s
<1>4. v.statement # <<>>
  <2>1. TacticOf(v.proof) \in {"native_decide", "grind"}
    BY <1>3 DEF TacticOf
  <2>2. ~IsJust(<<>>, "shape") /\ DOMAIN <<>> = {}
    BY DEF IsJust
  <2> QED
    BY <1>3, <2>1, <2>2
<1>5. /\ n # 0 /\ s[n].tactic = "none" /\ s[n].ends = "by"
      /\ v.statement = [k \in {j \in 1 .. n : s[j].part # "nothing"} |-> s[k].part]
      /\ v.proof = SubSeq(s, n + 1, Len(s))
  BY <1>4 DEF Split
<1>6. n \in 1 .. c - a + 1 /\ \A k \in 1 .. n - 1 : s[k].ends # "by"
  BY <1>2, <1>5, HeaderEnds
<1> HIDE DEF n, v
<1>7. PICK b \in a .. c : b = a + n - 1
  <2>1. a \in Nat /\ c \in Nat /\ n \in Nat /\ n >= 1 /\ n <= c - a + 1
    BY <1>0, <1>2, <1>6
  <2>2. a + n - 1 \in a .. c
    BY <2>1
  <2> QED
    BY <2>2
<1>8. lines[b].ends = "by" /\ lines[b].tactic = "none"
  BY <1>2, <1>5, <1>6, <1>7
<1>9. ASSUME NEW k \in a .. b - 1 PROVE lines[k].ends # "by"
  <2>1. k - a + 1 \in 1 .. n - 1 /\ k - a + 1 \in 1 .. c - a + 1 /\ a + (k - a + 1) - 1 = k
    BY <1>0, <1>2, <1>6, <1>7
  <2> QED
    BY <1>2, <1>6, <2>1
<1>10. {v.proof[k].tactic : k \in DOMAIN v.proof} = {lines[k].tactic : k \in b + 1 .. c}
  <2>1. /\ Len(v.proof) = c - b /\ v.proof \in Seq(Lines)
        /\ \A k \in 1 .. c - b : v.proof[k] = s[n + k]
    BY <1>0, <1>2, <1>5, <1>6, <1>7
  <2>2. ASSUME NEW k \in 1 .. c - b PROVE v.proof[k] = lines[b + k] /\ b + k \in b + 1 .. c
    <3>0. a \in Nat /\ b \in Nat /\ c \in Nat /\ n \in Nat /\ b = a + n - 1 /\ n >= 1
      BY <1>0, <1>2, <1>6, <1>7
    <3>1. n + k \in 1 .. c - a + 1 /\ a + (n + k) - 1 = b + k
      BY <3>0
    <3> QED
      BY <1>2, <2>1, <3>1
  <2>3. ASSUME NEW k \in b + 1 .. c PROVE k - b \in 1 .. c - b /\ v.proof[k - b] = lines[k]
    <3>1. k - b \in 1 .. c - b /\ b + (k - b) = k
      BY <1>2, <1>7
    <3> QED
      BY <2>2, <3>1
  <2>4. DOMAIN v.proof = 1 .. c - b
    BY <2>1
  <2>5. \A k \in DOMAIN v.proof : v.proof[k].tactic \in {lines[j].tactic : j \in b + 1 .. c}
    BY <2>2, <2>4
  <2>6. \A k \in b + 1 .. c : lines[k].tactic \in {v.proof[j].tactic : j \in DOMAIN v.proof}
    BY <2>3, <2>4
  <2> QED
    BY <2>5, <2>6
<1>11. ASSUME NEW k \in DOMAIN v.statement
       PROVE  /\ a + k - 1 \in a .. b /\ v.statement[k] = lines[a + k - 1].part
              /\ v.statement[k] # "nothing"
  <2>1. k \in 1 .. n /\ v.statement[k] = s[k].part /\ v.statement[k] # "nothing"
    BY <1>5
  <2>2. k \in 1 .. c - a + 1 /\ a + k - 1 \in a .. b
    BY <1>0, <1>2, <1>6, <1>7, <2>1
  <2> QED
    BY <1>2, <2>1, <2>2
<1>12. ASSUME NEW k \in a .. b, lines[k].part # "nothing"
       PROVE  k - a + 1 \in DOMAIN v.statement /\ v.statement[k - a + 1] = lines[k].part
  <2>1. k - a + 1 \in 1 .. n /\ k - a + 1 \in 1 .. c - a + 1 /\ a + (k - a + 1) - 1 = k
    BY <1>0, <1>2, <1>6, <1>7
  <2>2. s[k - a + 1] = lines[k]
    BY <1>2, <2>1
  <2> QED
    BY <1>5, <1>12, <2>1, <2>2
<1> DEFINE tactics == {lines[k].tactic : k \in b + 1 .. c}
<1>13. TacticOf(v.proof) = IF "native_decide" \in tactics THEN "native_decide"
                           ELSE IF "grind" \in tactics THEN "grind" ELSE "none"
  BY <1>10 DEF TacticOf
<1>14. PICK e \in a .. Len(lines) : /\ \A k \in a + 1 .. e : ~Declares(lines[k])
                                    /\ e = Len(lines) \/ Declares(lines[e + 1])
  BY DeclarationEnds
<1>15. /\ a \in Nat /\ b \in Nat /\ c \in Nat /\ e \in Nat /\ Len(lines) \in Nat
       /\ 1 <= a /\ a <= b /\ b <= c /\ c <= Len(lines) /\ a <= e /\ e <= Len(lines)
  <2>1. PICK l \in Nat : l = Len(lines)
    BY <1>0
  <2>2. a \in 1 .. l /\ c \in a .. l /\ b \in a .. c /\ e \in a .. l
    BY <1>0, <2>1
  <2>3. /\ a \in Nat /\ b \in Nat /\ c \in Nat /\ e \in Nat
        /\ 1 <= a /\ a <= b /\ b <= c /\ c <= l /\ a <= e /\ e <= l
    BY <2>1, <2>2
  <2> QED
    BY <2>1, <2>3
<1>16. \A k \in 1 .. Len(lines) : lines[k].begins \in Begins /\ lines[k].ends \in Endings
  BY <1>0 DEF Lines
\* A declaration that only Lean sees would be misread.
<1>17. c <= e
  <2> SUFFICES ASSUME e < c PROVE FALSE
    BY <1>15
  <2>1. e + 1 \in a + 1 .. c /\ e + 1 \in a + 1 .. Len(lines) /\ e + 1 \in 1 .. Len(lines) /\ e # Len(lines)
    BY <1>15
  <2>2. Declares(lines[e + 1]) /\ ~Top(lines[e + 1])
    BY <1>1, <1>14, <2>1
  <2>3. lines[e + 1].begins = "hidden"
    BY <2>2 DEF Declares, Top
  <2>4. \A j \in a + 1 .. (e + 1) - 1 : ~Declares(lines[j])
    BY <1>14, <1>15
  <2> QED
    BY <2>1, <2>3, <2>4 DEF Misread
\* So would an end of the statement that only Lean sees.
<1>18. \A k \in a .. b - 1 : lines[k].ends = "no"
  <2> DEFINE T == {k \in a .. b - 1 : lines[k].ends # "no"}
  <2> SUFFICES ASSUME T # {} PROVE FALSE
    OBVIOUS
  <2>1. PICK m \in T : \A k \in T : m <= k
    <3>1. T \in SUBSET Nat
      BY <1>15
    <3> QED
      BY <3>1, LeastNatural
  <2>2. m \in a .. b - 1 /\ m \in a .. Len(lines) /\ m \in 1 .. Len(lines) /\ lines[m].ends # "no"
    BY <1>15, <2>1
  <2>3. lines[m].ends = "term"
    BY <1>9, <1>16, <2>2 DEF Endings
  <2>4. \A j \in a .. m - 1 : lines[j].ends = "no"
    <3>1. \A j \in a .. m - 1 : j \in a .. b - 1 /\ ~(m <= j)
      BY <1>15, <2>2
    <3> QED
      BY <2>1, <3>1
  <2> QED
    BY <2>2, <2>3, <2>4 DEF Misread
<1>19. LeanReads(a, b, e)
  BY <1>8, <1>14, <1>18 DEF LeanReads
<1>20. tactics \ {"none"} \subseteq Tactics(b, e)
  <2>1. \A k \in b + 1 .. c : k \in b .. e
    BY <1>15, <1>17
  <2> QED
    BY <2>1 DEF Tactics
<1>21. b \in a .. Len(lines) /\ e \in a .. Len(lines)
  BY <1>15
<1>22. CASE "native_decide" \in tactics
  <2>1. PICK k \in DOMAIN v.statement : DOMAIN v.statement = {k} /\ v.statement[k] = "shape"
    BY <1>3, <1>13, <1>22 DEF IsJust
  <2>2. "shape" \in Statement(a, b)
    BY <1>11, <2>1 DEF Statement
  <2>3. \A j \in a .. b : lines[j].part \in {"nothing", "shape"}
    BY <1>12, <2>1
  <2>4. Statement(a, b) = {"shape"}
    BY <2>2, <2>3 DEF Statement
  <2>5. ProvedByRule(a, b, e)
    BY <1>8, <1>19, <1>20, <1>22, <2>4 DEF ProvedByRule
  <2> QED
    BY <1>21, <2>5
<1>23. CASE "native_decide" \notin tactics
  <2>1. "grind" \in tactics
    BY <1>3, <1>13, <1>23
  <2>2. PICK k \in DOMAIN v.statement : v.statement[k] \in Lettered
    BY <1>3, <1>13, <1>23, <2>1
  <2>3. Statement(a, b) \cap Lettered # {}
    BY <1>11, <2>2 DEF Statement
  <2>4. ASSUME "native_decide" \in Tactics(b, e) PROVE \E j \in b + 1 .. e : Top(lines[j])
    <3>1. PICK j \in b .. e : lines[j].tactic = "native_decide"
      BY <2>4 DEF Tactics
    <3>2. j # b /\ j \notin b + 1 .. c
      BY <1>8, <1>23, <3>1
    <3>3. c + 1 \in b + 1 .. e /\ c # Len(lines)
      BY <1>15, <3>1, <3>2
    <3> QED
      BY <1>1, <3>3
  <2>5. ProvedByRule(a, b, e)
    BY <1>8, <1>19, <1>20, <2>1, <2>3, <2>4 DEF ProvedByRule
  <2> QED
    BY <1>21, <2>5
<1> QED
  BY <1>22, <1>23

(* For documents of any number of lines, by either route and under any     *)
(* configuration: what passes the sanitizer has no line that is refused by *)
(* itself, and Lean reads a theorem verify that one of the two rules       *)
(* proves, unless a declaration or the end of the statement escapes the    *)
(* patterns, or the caller of sanitize_source has turned the contract off. *)
THEOREM PassingIsVerified == ContractSpec => []PassedMeansVerified
<1>1. ContractInv => PassedMeansVerified
  <2> SUFFICES ASSUME ContractInv, stage = "passed" PROVE PassedMeansVerified
    BY DEF PassedMeansVerified
  <2>1. \A k \in DOMAIN lines : lines[k].opens \notin Refusable
    BY DEF ContractInv, LinesPassed, Allowed
  <2>2. ASSUME EnforceContract
        PROVE  \E a \in DOMAIN lines :
                 /\ lines[a].opens = "verify" /\ \A k \in 1 .. a - 1 : lines[k].opens # "verify"
                 /\ Misread(a) \/ \E b \in a .. Len(lines), c \in a .. Len(lines) : ProvedByRule(a, b, c)
    <3>1. Opens("verify") # {} /\ VerifyAllowed(VerifyLine) /\ lines \in Seq(Lines)
      BY <2>2 DEF ContractInv, ContractHolds, Required, VerifyLine
    <3>2. /\ VerifyLine \in DOMAIN lines /\ lines[VerifyLine].opens = "verify"
          /\ \A k \in 1 .. VerifyLine - 1 : lines[k].opens # "verify"
      BY <3>1, VerifyLineFirst
    <3>3. \/ Misread(VerifyLine)
          \/ \E b \in VerifyLine .. Len(lines), c \in VerifyLine .. Len(lines) :
               ProvedByRule(VerifyLine, b, c)
      BY <3>1, <3>2, VerifyProved
    <3> QED
      BY <3>2, <3>3
  <2> QED
    BY <2>1, <2>2 DEF PassedMeansVerified
<1> QED
  BY <1>1, ContractInvariance, PTL

-----------------------------------------------------------------------------
(* What the package builds.                                                *)
LinesOf(s) == {s[k] : k \in DOMAIN s}

LEMMA LinesOfConcat ==
  ASSUME NEW s \in Seq(Lines), NEW r \in Seq(Lines)
  PROVE  LinesOf(s \o r) = LinesOf(s) \cup LinesOf(r) /\ s \o r \in Seq(Lines)
<1>1. /\ Len(s) \in Nat /\ Len(r) \in Nat /\ DOMAIN (s \o r) = 1 .. Len(s) + Len(r)
      /\ DOMAIN s = 1 .. Len(s) /\ DOMAIN r = 1 .. Len(r) /\ s \o r \in Seq(Lines)
  BY ConcatProperties
<1>2. \A k \in 1 .. Len(s) + Len(r) : (s \o r)[k] = IF k <= Len(s) THEN s[k] ELSE r[k - Len(s)]
  BY ConcatProperties
<1>3. ASSUME NEW k \in DOMAIN (s \o r) PROVE (s \o r)[k] \in LinesOf(s) \cup LinesOf(r)
  <2>1. k <= Len(s) => k \in DOMAIN s
    BY <1>1
  <2>2. k > Len(s) => k - Len(s) \in DOMAIN r
    BY <1>1
  <2> QED
    BY <1>1, <1>2, <2>1, <2>2 DEF LinesOf
<1>4. ASSUME NEW k \in DOMAIN s PROVE s[k] \in LinesOf(s \o r)
  <2>1. k \in DOMAIN (s \o r) /\ (s \o r)[k] = s[k]
    BY <1>1, <1>2
  <2> QED
    BY <2>1 DEF LinesOf
<1>5. ASSUME NEW k \in DOMAIN r PROVE r[k] \in LinesOf(s \o r)
  <2>1. Len(s) + k \in DOMAIN (s \o r) /\ (Len(s) + k) - Len(s) = k /\ ~(Len(s) + k <= Len(s))
    BY <1>1
  <2>2. (s \o r)[Len(s) + k] = r[k]
    BY <1>1, <1>2, <2>1
  <2> QED
    BY <2>1, <2>2 DEF LinesOf
<1> QED
  BY <1>1, <1>3, <1>4, <1>5 DEF LinesOf

LEMMA HeaderOf ==
  ASSUME NEW s \in Seq(Lines), NEW h \in 1 .. Len(s), s[h].ends = "by", \A k \in 1 .. h - 1 : s[k].ends # "by"
  PROVE  HeaderLength(s) = h
<1> DEFINE T == {k \in 1 .. Len(s) : s[k].ends = "by"}
<1>1. T \in SUBSET Nat /\ h \in T
  OBVIOUS
<1>2. HeaderLength(s) = Min(T)
  BY <1>1 DEF HeaderLength, SelectInSeq
<1>3. T # {}
  BY <1>1
<1> HIDE DEF T
<1>4. HeaderLength(s) \in T /\ HeaderLength(s) <= h
  <2>1. Min(T) \in T /\ \A k \in T : Min(T) <= k
    BY <1>1, <1>3, FirstPlace
  <2> QED
    BY <1>1, <1>2, <2>1
<1> USE DEF T
<1> QED
  BY <1>4

\* A theorem whose header is its first h lines, with a tactic behind it.
Proper(block, h) ==
  /\ h \in Nat /\ h >= 1 /\ Len(block) = h + 1
  /\ block[1].opens = "verify"
  /\ \A k \in 2 .. h + 1 : block[k].opens = "nothing" /\ ~Top(block[k])
  /\ block[h].ends = "by" /\ block[h].tactic = "none" /\ \A k \in 1 .. h - 1 : block[k].ends # "by"
  /\ \E k \in 1 .. h : block[k].part \in {"shape", "about_f"}
  /\ \/ block[h + 1].tactic = "grind"
     \/ /\ block[h + 1].tactic = "native_decide"
        /\ \E k \in 1 .. h : block[k].part = "shape" /\ \A j \in 1 .. h : j # k => block[j].part = "nothing"

LEMMA ProperAllowed ==
  ASSUME NEW s \in Seq(Lines), NEW h, Proper(s, h), NEW a, Block(a) = s
  PROVE  VerifyAllowed(a)
<1>1. h \in 1 .. Len(s) /\ HeaderLength(s) = h /\ Len(s) = h + 1 /\ h \in Nat
  BY HeaderOf DEF Proper
<1> DEFINE v == Split(s)
<1>2. /\ v.statement = [k \in {j \in 1 .. h : s[j].part # "nothing"} |-> s[k].part]
      /\ v.proof = SubSeq(s, h + 1, h + 1)
  BY <1>1 DEF Split, Proper
<1>3. Len(v.proof) = 1 /\ v.proof[1] = s[h + 1] /\ DOMAIN v.proof = {1}
  <2>1. PICK m \in 1 .. Len(s) : m = h + 1 /\ m \in 1 .. Len(s) + 1 /\ m \in m - 1 .. Len(s)
    BY <1>1
  <2>2. /\ SubSeq(s, m, m) \in Seq(Lines) /\ Len(SubSeq(s, m, m)) = m - m + 1
        /\ \A k \in 1 .. m - m + 1 : SubSeq(s, m, m)[k] = s[m + k - 1]
    BY <2>1, SliceLines
  <2>3. m - m + 1 = 1 /\ m + 1 - 1 = m /\ 1 \in 1 .. m - m + 1
    BY <2>1
  <2>4. PICK w : w = SubSeq(s, m, m)
    OBVIOUS
  <2>5. w \in Seq(Lines) /\ Len(w) = 1 /\ w[1] = s[m]
    BY <2>2, <2>3, <2>4
  <2>6. DOMAIN w = {1}
    BY <2>5
  <2> QED
    BY <1>2, <2>1, <2>4, <2>5, <2>6
<1> HIDE DEF v
<1>4. TacticOf(v.proof) = s[h + 1].tactic
  <2>1. {v.proof[k].tactic : k \in DOMAIN v.proof} = {s[h + 1].tactic}
    BY <1>3
  <2> QED
    BY <2>1 DEF TacticOf, Proper
<1>5. DOMAIN v.statement = {j \in 1 .. h : s[j].part # "nothing"}
  BY <1>2
<1>6. \A k \in DOMAIN v.statement : v.statement[k] = s[k].part
  BY <1>2
<1>7. PICK k \in DOMAIN v.statement : v.statement[k] \in {"shape", "about_f"}
  BY <1>5, <1>6 DEF Proper
<1>8. ~IsJust(v.statement, "True")
  BY <1>7 DEF IsJust
<1>9. s[h + 1].tactic = "native_decide" => IsJust(v.statement, "shape")
  <2> SUFFICES ASSUME s[h + 1].tactic = "native_decide" PROVE IsJust(v.statement, "shape")
    OBVIOUS
  <2>1. PICK j \in 1 .. h : s[j].part = "shape" /\ \A m \in 1 .. h : m # j => s[m].part = "nothing"
    BY DEF Proper
  <2>2. DOMAIN v.statement = {j} /\ v.statement[j] = "shape"
    BY <1>5, <1>6, <2>1
  <2> QED
    BY <2>2 DEF IsJust
<1>10. s[h + 1].tactic \in {"grind", "native_decide"}
  BY DEF Proper
<1> QED
  BY <1>4, <1>7, <1>8, <1>9, <1>10 DEF VerifyAllowed, Lettered, v

\* It is found behind lines that open no theorem.
LEMMA ProperFound ==
  ASSUME NEW s \in Seq(Lines), NEW r \in Seq(Lines), NEW h, Proper(r, h), lines = s \o r,
         \A k \in DOMAIN s : s[k].opens # "verify"
  PROVE  Opens("verify") # {} /\ VerifyAllowed(VerifyLine)
<1>1. /\ lines \in Seq(Lines) /\ Len(lines) = Len(s) + h + 1 /\ h \in Nat /\ h >= 1
      /\ Len(s) \in Nat /\ DOMAIN lines = 1 .. Len(s) + h + 1 /\ Len(r) = h + 1
  <2>1. lines \in Seq(Lines) /\ Len(lines) = Len(s) + Len(r)
    BY ConcatProperties
  <2>2. Len(s) \in Nat /\ h \in Nat /\ h >= 1 /\ Len(r) = h + 1
    BY DEF Proper
  <2> QED
    BY <2>1, <2>2
<1>2. \A k \in 1 .. Len(s) : lines[k] = s[k]
  BY <1>1, ConcatProperties
<1>3. \A k \in 1 .. h + 1 : lines[Len(s) + k] = r[k]
  BY <1>1, ConcatProperties
<1> DEFINE a == Len(s) + 1
<1>4. a \in DOMAIN lines /\ lines[a].opens = "verify"
  BY <1>1, <1>3 DEF Proper
<1>5. \A k \in a + 1 .. Len(lines) : lines[k].opens = "nothing" /\ ~Top(lines[k])
  <2>1. \A k \in a + 1 .. Len(lines) : k - Len(s) \in 2 .. h + 1 /\ Len(s) + (k - Len(s)) = k
    BY <1>1
  <2>2. \A k \in 2 .. h + 1 : k \in 1 .. h + 1 /\ r[k].opens = "nothing" /\ ~Top(r[k])
    BY DEF Proper
  <2> QED
    BY <1>3, <2>1, <2>2
<1>6. Opens("verify") # {}
  BY <1>4 DEF Opens
<1>7. VerifyLine = a
  <2>1. VerifyLine \in DOMAIN lines /\ lines[VerifyLine].opens = "verify"
    BY <1>1, <1>6, VerifyLineFirst
  <2>2. ~(VerifyLine < a)
    BY <1>1, <1>2, <2>1
  <2>3. ~(VerifyLine > a)
    BY <1>1, <1>5, <2>1
  <2> QED
    BY <1>1, <2>1, <2>2, <2>3
<1>8. Block(a) = r
  <2>1. PICK c \in a .. Len(lines) : Block(a) = SubSeq(lines, a, c) /\ (c = Len(lines) \/ Top(lines[c + 1]))
    BY <1>1, <1>4, BlockEnds
  <2>2. c = Len(lines)
    <3>1. PICK l \in Nat : l = Len(lines)
      BY <1>1
    <3>2. c # l => c + 1 \in a + 1 .. l
      BY <1>1, <2>1, <3>1
    <3> QED
      BY <1>5, <2>1, <3>1, <3>2
  <2>3. /\ Block(a) \in Seq(Lines) /\ Len(Block(a)) = h + 1
        /\ \A k \in 1 .. h + 1 : Block(a)[k] = lines[a + k - 1]
    <3>1. a \in 1 .. Len(lines) + 1 /\ c \in a - 1 .. Len(lines) /\ c - a + 1 = h + 1
      BY <1>1, <2>2
    <3> HIDE DEF a
    <3> QED
      BY <1>1, <2>1, <3>1, SliceLines
  <2>4. \A k \in 1 .. h + 1 : Block(a)[k] = r[k]
    <3>1. \A k \in 1 .. h + 1 : a + k - 1 = Len(s) + k
      BY <1>1
    <3> QED
      BY <1>3, <2>3, <3>1
  <2> QED
    BY <1>1, <2>3, <2>4, SeqEqual
<1> QED
  BY <1>6, <1>7, <1>8, ProperAllowed

LEMMA NativeProper == NativeBlock \in Seq(Lines) /\ Proper(NativeBlock, 2)
<1>1. /\ Theorem("nothing", "no") \in Lines /\ Continue("shape", "by") \in Lines
      /\ Tactic("native_decide") \in Lines
  BY DEF Lines, Begins, Endings, Words, Declares, Parts, Openings, Refusable, Theorem, Continue, Tactic, Line
<1>2. \A x, y, z \in Lines : /\ <<x, y, z>> \in Seq(Lines) /\ Len(<<x, y, z>>) = 3
                             /\ <<x, y, z>>[1] = x /\ <<x, y, z>>[2] = y /\ <<x, y, z>>[3] = z
  OBVIOUS
<1>3. /\ NativeBlock \in Seq(Lines) /\ Len(NativeBlock) = 3
      /\ NativeBlock[1] = Theorem("nothing", "no") /\ NativeBlock[2] = Continue("shape", "by")
      /\ NativeBlock[3] = Tactic("native_decide")
  BY <1>1, <1>2 DEF NativeBlock
<1>4. /\ \A k \in 2 .. 2 + 1 : k = 2 \/ k = 3
      /\ \A k \in 1 .. 2 - 1 : k = 1
      /\ \A k \in 1 .. 2 : k = 1 \/ k = 2
      /\ 2 \in 1 .. 2 /\ 2 + 1 = 3
  OBVIOUS
<1>5. /\ \A k \in 2 .. 2 + 1 : NativeBlock[k].opens = "nothing" /\ ~Top(NativeBlock[k])
      /\ NativeBlock[1].opens = "verify" /\ NativeBlock[1].ends # "by" /\ NativeBlock[1].part = "nothing"
      /\ NativeBlock[2].ends = "by" /\ NativeBlock[2].tactic = "none" /\ NativeBlock[2].part = "shape"
      /\ NativeBlock[2 + 1].tactic = "native_decide"
  BY <1>3, <1>4 DEF Top, Theorem, Continue, Tactic, Line
<1>6. \A k \in 1 .. 2 - 1 : NativeBlock[k].ends # "by"
  BY <1>4, <1>5
<1>7. \A k \in 1 .. 2 : k # 2 => NativeBlock[k].part = "nothing"
  BY <1>4, <1>5
<1>8. \E k \in 1 .. 2 : /\ NativeBlock[k].part = "shape"
                       /\ \A j \in 1 .. 2 : j # k => NativeBlock[j].part = "nothing"
  BY <1>4, <1>5, <1>7
<1>9. \E k \in 1 .. 2 : NativeBlock[k].part \in {"shape", "about_f"}
  BY <1>4, <1>5
<1>10. 2 \in Nat /\ 2 >= 1 /\ Len(NativeBlock) = 2 + 1
  BY <1>3
<1>11. Proper(NativeBlock, 2)
  BY <1>5, <1>6, <1>8, <1>9, <1>10 DEF Proper
<1> QED
  BY <1>3, <1>11

LEMMA GrindProper ==
  ASSUME NEW g \in Goals, \E k \in DOMAIN g : g[k] = "about_f"
  PROVE  GrindBlock(g) \in Seq(Lines) /\ Proper(GrindBlock(g), Len(g))
<1>1. /\ g \in Seq(Parts) /\ Len(g) \in Nat /\ Len(g) >= 1 /\ \A k \in 1 .. Len(g) : g[k] \in Parts
      /\ DOMAIN g = 1 .. Len(g)
  <2>1. g \in Seq(Parts) /\ g # <<>>
    BY ContractAssumption
  <2> QED
    BY <2>1
<1>2. PICK h \in Nat : h = Len(g) /\ h >= 1
  BY <1>1
<1> DEFINE end(k) == IF k = h THEN "by" ELSE "no"
           line(k) == IF k = 1 THEN Theorem(g[1], end(1)) ELSE Continue(g[k], end(k))
           head == [k \in 1 .. h |-> line(k)]
<1>3. \A x \in Parts, y \in {"no", "by"} :
        /\ Theorem(x, y) \in Lines /\ Theorem(x, y).part = x /\ Theorem(x, y).ends = y
        /\ Theorem(x, y).tactic = "none" /\ Theorem(x, y).opens = "verify"
        /\ Continue(x, y) \in Lines /\ Continue(x, y).part = x /\ Continue(x, y).ends = y
        /\ Continue(x, y).tactic = "none" /\ Continue(x, y).opens = "nothing"
        /\ ~Top(Continue(x, y))
  BY DEF Lines, Begins, Endings, Words, Declares, Top, Parts, Openings, Refusable, Theorem, Continue, Line
<1>4. ASSUME NEW k \in 1 .. h
      PROVE  /\ line(k) \in Lines /\ line(k).part = g[k] /\ line(k).ends = (IF k = h THEN "by" ELSE "no")
             /\ line(k).tactic = "none"
             /\ line(k).opens = (IF k = 1 THEN "verify" ELSE "nothing")
             /\ k # 1 => ~Top(line(k))
  <2>1. g[k] \in Parts
    BY <1>1, <1>2
  <2>2. end(k) \in {"no", "by"}
    OBVIOUS
  <2>3. line(k) = IF k = 1 THEN Theorem(g[k], end(k)) ELSE Continue(g[k], end(k))
    OBVIOUS
  <2>4. PICK y \in {"no", "by"} : y = end(k)
    BY <2>2
  <2>5. y = IF k = h THEN "by" ELSE "no"
    BY <2>4
  <2> HIDE DEF line, end
  <2>6. line(k) = IF k = 1 THEN Theorem(g[k], y) ELSE Continue(g[k], y)
    BY <2>3, <2>4
  <2> QED
    BY <1>3, <2>1, <2>5, <2>6
<1> HIDE DEF line
<1>5. head \in Seq(Lines) /\ Len(head) = h /\ \A k \in 1 .. h : head[k] = line(k)
  BY <1>2, <1>4
<1>6. <<Tactic("grind")>> \in Seq(Lines) /\ Len(<<Tactic("grind")>>) = 1
      /\ <<Tactic("grind")>>[1] = Tactic("grind")
  <2>1. Tactic("grind") \in Lines
    BY DEF Lines, Begins, Endings, Words, Declares, Parts, Openings, Refusable, Tactic, Line
  <2> QED
    BY <2>1
<1>7. GrindBlock(g) = head \o <<Tactic("grind")>>
  BY <1>2 DEF GrindBlock, line
<1> HIDE DEF head
<1> DEFINE r == GrindBlock(g)
<1>8. r \in Seq(Lines) /\ Len(r) = h + 1
  BY <1>5, <1>6, <1>7, ConcatProperties
<1>9. \A k \in 1 .. h : r[k] = line(k)
  BY <1>5, <1>6, <1>7, ConcatProperties
<1>10. r[h + 1] = Tactic("grind")
  <2>1. h + 1 \in 1 .. h + 1 /\ ~(h + 1 <= h) /\ (h + 1) - h = 1
    BY <1>2
  <2> QED
    BY <1>5, <1>6, <1>7, <2>1, ConcatProperties
<1> HIDE DEF r
<1>11. r[1].opens = "verify" /\ r[h].ends = "by" /\ r[h].tactic = "none"
  <2>1. 1 \in 1 .. h /\ h \in 1 .. h
    BY <1>2
  <2> QED
    BY <1>4, <1>9, <2>1
<1>12. \A k \in 2 .. h + 1 : r[k].opens = "nothing" /\ ~Top(r[k])
  <2>1. \A k \in 2 .. h + 1 : (k \in 1 .. h /\ k # 1) \/ k = h + 1
    BY <1>2
  <2>2. r[h + 1].opens = "nothing" /\ ~Top(r[h + 1])
    BY <1>10 DEF Top, Tactic, Line
  <2> QED
    BY <1>4, <1>9, <2>1, <2>2
<1>13. \A k \in 1 .. h - 1 : r[k].ends # "by"
  <2>1. \A k \in 1 .. h - 1 : k \in 1 .. h /\ k # h
    BY <1>2
  <2> QED
    BY <1>4, <1>9, <2>1
<1>14. \E k \in 1 .. h : r[k].part \in {"shape", "about_f"}
  <2>1. PICK k \in 1 .. h : g[k] = "about_f"
    BY <1>1, <1>2
  <2>2. r[k].part = "about_f"
    BY <1>4, <1>9, <2>1
  <2> QED
    BY <2>2
<1>15. r[h + 1].tactic = "grind"
  BY <1>10 DEF Tactic, Line
<1>16. Proper(r, h)
  BY <1>2, <1>8, <1>11, <1>12, <1>13, <1>14, <1>15 DEF Proper
<1> QED
  BY <1>2, <1>8, <1>16 DEF r

\* What stands before the theorem of a template.
LEMMA PrefixLines ==
  ASSUME NEW p \in {"A", "B"}, NEW f \in Formulas
  PROVE  LET s == Imports(p) \o Prelude \o f \o <<Plain("expected")>>
         IN  /\ s \in Seq(Lines)
             /\ \A l \in LinesOf(s) :
                  l.opens \in {"import_tactic", "options", "helpers", "expected", "f", "other", "nothing"}
             /\ \A name \in {"options", "helpers", "expected"} : \E l \in LinesOf(s) : l.opens = name
             /\ LinesOf(f) \subseteq LinesOf(s)
<1>1. \A x \in {"import_tactic", "options", "helpers", "expected"} : Plain(x) \in Lines /\ Plain(x).opens = x
  BY DEF Lines, Begins, Endings, Words, Declares, Parts, Openings, Refusable, Plain, Line
<1>2. /\ Imports(p) \in Seq(Lines)
      /\ \A l \in LinesOf(Imports(p)) : l.opens = "import_tactic"
  <2>1. /\ <<>> \in Seq(Lines) /\ LinesOf(<<>>) = {}
        /\ <<Plain("import_tactic")>> \in Seq(Lines)
        /\ LinesOf(<<Plain("import_tactic")>>) = {Plain("import_tactic")}
    BY <1>1 DEF LinesOf
  <2> QED
    BY <1>1, <2>1 DEF Imports
<1>3. Prelude \in Seq(Lines) /\ LinesOf(Prelude) = {Plain("options"), Plain("helpers")}
  <2>1. \A x, y \in Lines : <<x, y>> \in Seq(Lines) /\ LinesOf(<<x, y>>) = {x, y}
    BY DEF LinesOf
  <2> QED
    BY <1>1, <2>1 DEF Prelude
<1>4. <<Plain("expected")>> \in Seq(Lines) /\ LinesOf(<<Plain("expected")>>) = {Plain("expected")}
  BY <1>1 DEF LinesOf
<1>5. f \in Seq(Lines) /\ \A l \in LinesOf(f) : l.opens \in {"f", "other", "nothing"}
  BY ContractAssumption DEF LinesOf
<1> DEFINE s1 == Imports(p) \o Prelude
           s2 == s1 \o f
           s3 == s2 \o <<Plain("expected")>>
<1>6. s1 \in Seq(Lines) /\ LinesOf(s1) = LinesOf(Imports(p)) \cup {Plain("options"), Plain("helpers")}
  BY <1>2, <1>3, LinesOfConcat
<1> HIDE DEF s1
<1>7. s2 \in Seq(Lines) /\ LinesOf(s2) = LinesOf(s1) \cup LinesOf(f)
  BY <1>5, <1>6, LinesOfConcat
<1> HIDE DEF s2
<1>8. s3 \in Seq(Lines) /\ LinesOf(s3) = LinesOf(s2) \cup {Plain("expected")}
  BY <1>4, <1>7, LinesOfConcat
<1> HIDE DEF s3
<1>9. /\ \A l \in LinesOf(s3) :
           l.opens \in {"import_tactic", "options", "helpers", "expected", "f", "other", "nothing"}
      /\ \A name \in {"options", "helpers", "expected"} : \E l \in LinesOf(s3) : l.opens = name
      /\ LinesOf(f) \subseteq LinesOf(s3)
  BY <1>1, <1>2, <1>5, <1>6, <1>7, <1>8
<1> QED
  BY <1>8, <1>9 DEF s1, s2, s3

\* So a template whose formula defines f and whose theorem is proper is fine.
LEMMA TemplateFine ==
  ASSUME NEW p \in {"A", "B"}, NEW f \in Formulas, \E k \in DOMAIN f : f[k].opens = "f",
         NEW r \in Seq(Lines), NEW h, Proper(r, h), lines = Template(p, f, r)
  PROVE  /\ ContractHolds
         /\ \A k \in DOMAIN lines : Allowed("B", lines[k].opens)
<1> DEFINE s == Imports(p) \o Prelude \o f \o <<Plain("expected")>>
<1>1. lines = s \o r
  BY DEF Template
<1>2. /\ s \in Seq(Lines)
      /\ \A l \in LinesOf(s) :
           l.opens \in {"import_tactic", "options", "helpers", "expected", "f", "other", "nothing"}
      /\ \A name \in {"options", "helpers", "expected"} : \E l \in LinesOf(s) : l.opens = name
      /\ LinesOf(f) \subseteq LinesOf(s)
  BY PrefixLines
<1> HIDE DEF s
<1>3. LinesOf(lines) = LinesOf(s) \cup LinesOf(r)
  BY <1>1, <1>2, LinesOfConcat
<1>4. \A l \in LinesOf(r) : l.opens \in {"verify", "nothing"}
  <2>1. DOMAIN r = 1 .. h + 1 /\ h \in Nat
    BY DEF Proper
  <2>2. \A k \in 1 .. h + 1 : k = 1 \/ k \in 2 .. h + 1
    BY <2>1
  <2>3. \A k \in DOMAIN r : r[k].opens \in {"verify", "nothing"}
    BY <2>1, <2>2 DEF Proper
  <2> QED
    BY <2>3 DEF LinesOf
<1>5. \A k \in DOMAIN lines : lines[k] \in LinesOf(lines)
  BY DEF LinesOf
<1>6. \A name : Opens(name) # {} <=> \E l \in LinesOf(lines) : l.opens = name
  BY DEF Opens, LinesOf
<1>7. \E l \in LinesOf(f) : l.opens = "f"
  BY DEF LinesOf
<1>8. \A k \in DOMAIN s : s[k].opens # "verify"
  BY <1>2 DEF LinesOf
<1>9. Opens("verify") # {} /\ VerifyAllowed(VerifyLine)
  BY <1>1, <1>2, <1>8, ProperFound
<1>10. \A name \in Required : Opens(name) # {}
  <2>1. \A name \in {"options", "helpers", "expected"} : Opens(name) # {}
    BY <1>2, <1>3, <1>6
  <2>2. Opens("f") # {}
    BY <1>2, <1>3, <1>6, <1>7
  <2> QED
    BY <2>1, <2>2, <1>9 DEF Required
<1>11. Opens("directive") = {} /\ Opens("empty_expected") = {}
  BY <1>2, <1>3, <1>4, <1>6
<1>12. ContractHolds
  BY <1>9, <1>10, <1>11 DEF ContractHolds, VerifyLine
<1>13. \A k \in DOMAIN lines : Allowed("B", lines[k].opens)
  BY <1>2, <1>3, <1>4, <1>5 DEF Allowed, Refusable
<1> QED
  BY <1>12, <1>13

(* For every formula and every goal: what the package builds from a        *)
(* formula that defines f, with the native theorem or with a goal about f, *)
(* is refused for its imports or for a bad artifact only.                  *)
THEOREM BuiltTemplatesPass == ContractSpec => []TemplatesPass
<1>1. ContractInv => TemplatesPass
  <2> SUFFICES ASSUME ContractInv, stage = "refused",
                      ~(route = "artifact" /\ ~wellFormed), profile # "C",
                      ~(profile = "A" /\ Opens("import_tactic") # {}),
                      NEW p \in {"A", "B"}, NEW f \in Formulas, \E k \in DOMAIN f : f[k].opens = "f",
                      NEW r, Template(p, f, r) = lines,
                      \/ r = NativeBlock
                      \/ \E g \in Goals : (\E k \in DOMAIN g : g[k] = "about_f") /\ r = GrindBlock(g)
               PROVE  FALSE
    BY DEF TemplatesPass
  <2>1. \E h : r \in Seq(Lines) /\ Proper(r, h)
    BY NativeProper, GrindProper
  <2>2. ContractHolds /\ \A k \in DOMAIN lines : Allowed("B", lines[k].opens)
    BY <2>1, TemplateFine
  <2>3. profile \in {"A", "B"} /\ ~LinesPassed
    BY <2>2 DEF ContractInv
  <2>4. PICK k \in DOMAIN lines : ~Allowed(profile, lines[k].opens)
    BY <2>3 DEF LinesPassed
  <2>5. profile = "A" /\ lines[k].opens = "import_tactic"
    BY <2>2, <2>3, <2>4 DEF Allowed
  <2> QED
    BY <2>5 DEF Opens
<1> QED
  BY <1>1, ContractInvariance, PTL

=============================================================================
