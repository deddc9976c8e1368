----------------------------- MODULE LexicalScan -----------------------------
(***************************************************************************)
(* The two passes of the sanitizer that decide what of a source is code:   *)
(* _strip_comments_preserving_lines, then                                  *)
(* _strip_string_literals_preserving_lines, which sanitize_source applies  *)
(* to each line by itself and the template contract to the whole text.     *)
(* Both replace what is not code by blanks and copy the rest.              *)
(*                                                                         *)
(* A character is one of those the passes tell apart; "word" stands for a  *)
(* banned keyword, which is what the result is searched for.               *)
(***************************************************************************)
EXTENDS Naturals, Sequences

CONSTANT Sources
Characters == {"dash", "slash", "quote", "backslash", "newline", "word"}
ASSUME LexicalAssumption == \A s \in Sources : s \in Seq(Characters)

VARIABLES
  source,
  reading,    \* "lines" or "whole": how the second pass is applied
  pass,       \* "comments", "strings" or "done"
  text,       \* what the current pass reads
  i,          \* the next character of it
  out,        \* what the pass has put out
  depth,      \* of nested block comments
  inString, escaped

scanVars == <<source, reading, pass, text, i, out, depth, inString, escaped>>

ScanInit ==
  /\ source \in Sources
  /\ reading \in {"lines", "whole"}
  /\ pass = "comments" /\ text = source /\ i = 1 /\ out = <<>>
  /\ depth = 0 /\ inString = FALSE /\ escaped = FALSE

More == i <= Len(text)
At(a, b) == i < Len(text) /\ text[i] = a /\ text[i+1] = b

(* Slip: the newlines inside a comment go with it.                         *)
BlankAll(c) == "blank"
Blank(c) == IF c = "newline" THEN c ELSE "blank"

(* Takes k characters and puts out s for them.                             *)
Take(k, s) == i' = i + k /\ out' = out \o s /\ UNCHANGED <<source, reading, pass, text>>

(* Inside a string either pass follows escapes and looks for the quote.    *)
FollowString ==
  /\ escaped' = (~escaped /\ text[i] = "backslash")
  /\ inString' = ~(~escaped /\ text[i] = "quote")

-----------------------------------------------------------------------------
(* Slip: the end of a comment closes all of them.                          *)
CloseAll == 0
CloseOne == depth - 1

InsideComment ==
  /\ pass = "comments" /\ More /\ depth > 0
  /\ \/ At("slash", "dash") /\ depth' = depth + 1 /\ Take(2, <<"blank", "blank">>)
     \/ At("dash", "slash") /\ depth' = CloseOne /\ Take(2, <<"blank", "blank">>)
     \/ ~At("slash", "dash") /\ ~At("dash", "slash") /\ Take(1, <<Blank(text[i])>>) /\ UNCHANGED depth
  /\ UNCHANGED <<inString, escaped>>

InsideString ==
  /\ pass = "comments" /\ More /\ depth = 0 /\ inString
  /\ Take(1, <<text[i]>>)
  /\ FollowString
  /\ UNCHANGED depth

Code == pass = "comments" /\ More /\ depth = 0 /\ ~inString

RestOfLine ==
  CHOOSE k \in 1 .. Len(text) + 1 - i :
    /\ i + k = Len(text) + 1 \/ text[i + k] = "newline"
    /\ \A j \in 0 .. k - 1 : text[i + j] # "newline"

LineComment ==
  /\ Code /\ At("dash", "dash")
  /\ Take(RestOfLine, [j \in 1 .. RestOfLine |-> "blank"])
  /\ UNCHANGED <<depth, inString, escaped>>

OpenComment ==
  /\ Code /\ At("slash", "dash")
  /\ depth' = depth + 1
  /\ Take(2, <<"blank", "blank">>)
  /\ UNCHANGED <<inString, escaped>>

CodeCharacter ==
  /\ Code /\ ~At("dash", "dash") /\ ~At("slash", "dash")
  /\ inString' = (text[i] = "quote")
  /\ escaped' = (escaped /\ text[i] # "quote")
  /\ Take(1, <<text[i]>>)
  /\ UNCHANGED depth

-----------------------------------------------------------------------------
EndOfPass ==
  /\ pass # "done" /\ ~More
  /\ IF pass = "comments"
     THEN pass' = "strings" /\ text' = out /\ i' = 1 /\ out' = <<>>
     ELSE pass' = "done" /\ UNCHANGED <<text, i, out>>
  /\ depth' = 0 /\ inString' = FALSE /\ escaped' = FALSE
  /\ UNCHANGED <<source, reading>>

BlankString ==
  /\ pass = "strings" /\ More /\ inString /\ text[i] # "newline"
  /\ Take(1, <<"blank">>)
  /\ FollowString
  /\ UNCHANGED depth

(* Read by lines, the next line starts outside of strings.                 *)
StringNewline ==
  /\ pass = "strings" /\ More /\ text[i] = "newline"
  /\ Take(1, <<"newline">>)
  /\ inString' = (inString /\ reading = "whole")
  /\ escaped' = FALSE
  /\ UNCHANGED depth

CopyCode ==
  /\ pass = "strings" /\ More /\ ~inString /\ text[i] # "newline"
  /\ Take(1, <<IF text[i] = "quote" THEN "blank" ELSE text[i]>>)
  /\ inString' = (text[i] = "quote")
  /\ escaped' = FALSE
  /\ UNCHANGED depth

ScanNext ==
  \/ InsideComment \/ InsideString \/ LineComment \/ OpenComment \/ CodeCharacter
  \/ BlankString \/ StringNewline \/ CopyCode \/ EndOfPass

ScanSpec == ScanInit /\ [][ScanNext]_scanVars

-----------------------------------------------------------------------------
Keeps(o, s, p) == o[p] = s[p] \/ (o[p] = "blank" /\ s[p] # "newline")

(* Whatever the source is, be it malformed or cut off inside a comment or  *)
(* a literal: the passes move no character and add none, and no newline is *)
(* lost, so that the lines the gates report are lines of the source.       *)
LinesKept ==
  pass = "done" =>
    Len(out) = Len(source) /\ \A p \in DOMAIN source : Keeps(out, source, p)

(* What a Lean source is made of, read by descent: the lexemes from a      *)
(* position on, each with its kind and its first and last character.       *)
Pair(s, p, a, b) == p < Len(s) /\ s[p] = a /\ s[p+1] = b

LineEnd(s, p) ==
  CHOOSE e \in p .. Len(s) + 1 :
    /\ e = Len(s) + 1 \/ s[e] = "newline"
    /\ \A j \in p .. e - 1 : s[j] # "newline"

\* The position after a block comment whose body goes on at p.
CommentEnd(s) ==
  LET after[p \in 1 .. Len(s) + 1] ==
        IF p > Len(s) THEN p
        ELSE IF Pair(s, p, "dash", "slash") THEN p + 2
        ELSE IF Pair(s, p, "slash", "dash") THEN after[after[p + 2]] ELSE after[p + 1]
  IN  after

\* A quote is escaped by an odd number of backslashes before it.
Slashes(s, a, p) ==
  CHOOSE k \in 0 .. p - a - 1 :
    /\ \A j \in 1 .. k : s[p - j] = "backslash"
    /\ p - k - 1 > a => s[p - k - 1] # "backslash"
Closing(s, a) == {p \in a + 1 .. Len(s) : s[p] = "quote" /\ Slashes(s, a, p) % 2 = 0}
StringEnd(s, a) ==
  IF Closing(s, a) = {} THEN Len(s) + 1
  ELSE 1 + CHOOSE p \in Closing(s, a) : \A q \in Closing(s, a) : p <= q

KindAt(s, p) ==
  IF Pair(s, p, "dash", "dash") \/ Pair(s, p, "slash", "dash") THEN "comment"
  ELSE IF s[p] = "quote" THEN "string" ELSE "code"
EndAt(s, p) ==
  IF Pair(s, p, "dash", "dash") THEN LineEnd(s, p)
  ELSE IF Pair(s, p, "slash", "dash") THEN CommentEnd(s)[p + 2]
  ELSE IF s[p] = "quote" THEN StringEnd(s, p) ELSE p + 1

Lexemes(s) ==
  LET from[p \in 1 .. Len(s) + 1] ==
        IF p > Len(s) THEN {}
        ELSE {<<KindAt(s, p), p, EndAt(s, p) - 1>>} \cup from[EndAt(s, p)]
  IN  from[1]

LiteralsCloseOnTheirLine ==
  \A x \in Lexemes(source) :
    x[1] = "string" => \A p \in x[2] .. x[3] : source[p] # "newline"

(* The passes keep exactly the code of a source, each character at its own *)
(* line and column, so that a keyword is reported if and only if it is     *)
(* code, at its line.  (Docstring: "Strip Lean comments while respecting   *)
(* string literals and preserving line boundaries".)  Reading by lines     *)
(* does so for sources whose literals close on the line they open on.      *)
CodeExactlyKept ==
  (pass = "done" /\ (reading = "lines" => LiteralsCloseOnTheirLine)) =>
    out = [p \in DOMAIN source |->
             IF \E x \in Lexemes(source) : x[1] = "code" /\ p \in x[2] .. x[3]
             THEN source[p] ELSE Blank(source[p])]
=============================================================================
