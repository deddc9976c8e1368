----------------------------- MODULE MCSanitizer -----------------------------
(* The two levels of the sanitizer in one run: a behaviour either strips a *)
(* source character by character or judges one line by line.               *)
EXTENDS LexicalScan, TemplateContract

CONSTANTS MaxMixed, MaxComment, MaxString, MaxLines

UpTo(n, S) == UNION {[1 .. k -> S] : k \in 0 .. n}

(* All short sources, longer ones of comment delimiters (nesting takes     *)
(* eight characters) and longer ones of literals.                          *)
MCSources ==
  UpTo(MaxMixed, Characters) \cup UpTo(MaxComment, {"dash", "slash", "word"})
    \cup UpTo(MaxString, {"quote", "backslash", "newline", "word"})

(* Everything a verify theorem can be made of, behind a correct beginning, *)
(* and beginnings that lack something or have something refused.           *)
TheoremLines ==
  {Theorem("nothing", "no"), Theorem("True", "by"), Theorem("shape", "by"), Theorem("about_f", "by"),
   Theorem("letters", "by"), Theorem("other", "term")}
OtherLines ==
  {Continue("shape", "by"), Continue("about_f", "no"), Continue("other", "by"), Continue("letters", "term"),
   Line("nothing", "nothing", "shape", "by", "native_decide"),
   Tactic("native_decide"), Tactic("grind"), Tactic("none"), Plain("other"),
   Line("hidden", "other", "about_f", "by", "none"), Line("hidden", "other", "other", "no", "grind"),
   Line("lookalike", "nothing", "nothing", "no", "none")}
AnyLines == TheoremLines \cup OtherLines
Beginning == Prelude \o <<Plain("f"), Plain("expected")>>
MCDocuments ==
  {Beginning \o b : b \in UpTo(2, AnyLines)} \cup
  {Beginning \o <<t>> \o b : t \in TheoremLines, b \in UpTo(MaxLines - 1, AnyLines)} \cup
  {<<Plain(x)>> \o Beginning \o NativeBlock :
     x \in {"import_other", "option_other", "keyword", "placeholder", "directive", "empty_expected"}} \cup
  {Prelude \o <<Plain(x)>> \o NativeBlock : x \in {"f", "expected"}}
MCFormulas == {<<Plain("f")>>, <<Plain("other"), Plain("f"), Continue("nothing", "no")>>, <<Plain("other")>>}
MCGoals == {<<"about_f">>, <<"other", "about_f">>, <<"letters">>, <<"other">>, <<"True">>}

NoScan == source = <<>> /\ reading = "lines" /\ pass = "done" /\ text = <<>> /\ i = 1
          /\ out = <<>> /\ depth = 0 /\ inString = FALSE /\ escaped = FALSE
NoContract == lines = <<>> /\ route = "source" /\ wellFormed = FALSE /\ profile = "C"
              /\ enforce = TRUE /\ stage = "refused"

SanitizerInit ==
  \/ ScanInit /\ NoContract
  \/ NoScan /\ ContractInit
SanitizerNext ==
  \/ ScanNext /\ UNCHANGED contractVars
  \/ ContractNext /\ UNCHANGED scanVars
SanitizerSpec == SanitizerInit /\ [][SanitizerNext]_<<scanVars, contractVars>>
=============================================================================
