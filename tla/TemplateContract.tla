-------------------------- MODULE TemplateContract --------------------------
(***************************************************************************)
(* What the sanitizer does with a source line by line, by either route:    *)
(* sanitize_source, called with a configuration, and sanitize_artifact_    *)
(* dict, which validates an artifact and makes a configuration of its own. *)
(* The sources are line sequences; build_checker_template makes some.      *)
(*                                                                         *)
(* A line is one of the classes that the code's patterns, or Lean, tell    *)
(* apart, after LexicalScan's passes: comments and strings are gone.  The  *)
(* seven lines or groups of lines that a template always has are one class *)
(* each where the code treats them differently.  At most one declaration   *)
(* begins on a line, and at its beginning.                                 *)
(***************************************************************************)
EXTENDS Naturals, Sequences, SequencesExt

CONSTANTS
  Documents,    \* the line sequences explored
  Formulas,     \* the formula definitions templates are built from
  Goals         \* the goals of grind templates: sequences of statement parts

(* A line: what begins on it and what it opens, the part of a statement it *)
(* holds, how it ends that statement, and the tactic it names.             *)
Line(begins, opens, part, ends, tactic) ==
  [begins |-> begins, opens |-> opens, part |-> part, ends |-> ends, tactic |-> tactic]
Plain(name) == Line("decl", name, "nothing", "no", "none")
Tactic(t)   == Line("nothing", "nothing", "nothing", "no", t)
Theorem(part, ends)  == Line("decl", "verify", part, ends, "none")
Continue(part, ends) == Line("nothing", "nothing", part, ends, "none")

(* Lean and TOP_LEVEL_DECL_RE both see a declaration begin ("decl"), only  *)
(* Lean does ("hidden": private, with an attribute, mutual or indented) or *)
(* only the pattern ("lookalike": unindented `classical` or `set_option .. *)
(* in` among the tactics).                                                 *)
Begins == {"nothing", "decl", "hidden", "lookalike"}
Top(l)      == l.begins \in {"decl", "lookalike"}
Declares(l) == l.begins \in {"decl", "hidden"}

(* A statement ends for both in ":= by", or for Lean alone in another way  *)
(* ("term": := without by, equations).                                     *)
Endings == {"no", "by", "term"}

Refusable == {"import_other", "option_other", "keyword", "placeholder"}
Openings  == Refusable \cup {"nothing", "import_tactic", "options", "helpers", "f", "expected", "verify",
                             "directive", "empty_expected", "other"}

(* True, the exact shape of native templates, a reference to f or expected,*)
(* only the letter f in some other word (fun, if), and text without it.    *)
Parts == {"nothing", "True", "shape", "about_f", "letters", "other"}
Words == {"about_f", "letters", "other"}

\* What only Lean reads as a beginning or an end is words of a statement to the code.
Lines == {l \in [begins : Begins, opens : Openings, part : Parts, ends : Endings,
                 tactic : {"none", "native_decide", "grind"}] :
            /\ l.begins = "hidden" \/ l.ends = "term" => l.part \in Words
            /\ l.opens = "verify" => Declares(l)}

\* A formula is definitions, of f and of what f needs; a goal says something.
ASSUME ContractAssumption ==
  /\ Documents \subseteq Seq(Lines)
  /\ \A f \in Formulas :
       f \in Seq(Lines) /\ \A k \in DOMAIN f : f[k].opens \in {"f", "other", "nothing"}
  /\ \A g \in Goals : g \in Seq(Parts) /\ g # <<>>

VARIABLES
  lines,      \* the source
  route,      \* "artifact" or "source"
  wellFormed, \* the artifact satisfies the schema, under its strictness
  profile,
  enforce,    \* enforce_template_contract of the caller's configuration
  stage       \* "schema", "lines", "contract", "passed" or "refused"

contractVars == <<lines, route, wellFormed, profile, enforce, stage>>

-----------------------------------------------------------------------------
(* build_checker_template.                                                 *)
Imports(p) == IF p = "B" THEN <<Plain("import_tactic")>> ELSE <<>>
Prelude == <<Plain("options"), Plain("helpers")>>   \* set_option, powMod, factorial, choose
NativeBlock == <<Theorem("nothing", "no"), Continue("shape", "by"), Tactic("native_decide")>>
GrindBlock(goal) ==
  LET End(k) == IF k = Len(goal) THEN "by" ELSE "no"
  IN  [k \in 1 .. Len(goal) |->
         IF k = 1 THEN Theorem(goal[1], End(1)) ELSE Continue(goal[k], End(k))]
  \o <<Tactic("grind")>>
Template(p, formula, block) ==
  Imports(p) \o Prelude \o formula \o <<Plain("expected")>> \o block

ContractInit ==
  /\ route \in {"artifact", "source"}
  /\ wellFormed \in BOOLEAN
  /\ profile \in {"A", "B", "C"}
  /\ enforce \in BOOLEAN
  /\ \/ lines \in Documents
     \/ \E p \in {"A", "B"}, f \in Formulas :
          lines \in {Template(p, f, NativeBlock)} \cup {Template(p, f, GrindBlock(g)) : g \in Goals}
  /\ stage = "schema"

Become(s) == stage' = s /\ UNCHANGED <<lines, route, wellFormed, profile, enforce>>

(* validate_artifact_schema; a source has no schema.                       *)
ValidateArtifact ==
  /\ stage = "schema"
  /\ Become(IF route = "artifact" /\ (~wellFormed \/ profile = "C") THEN "refused" ELSE "lines")

(* Slip: the caller's switch is taken over for artifacts.                  *)
CallersSwitch == enforce
EnforceContract == route = "artifact" \/ enforce

Opens(name) == {k \in DOMAIN lines : lines[k].opens = name}

Allowed(p, name) ==
  /\ name \notin Refusable
  /\ name = "import_tactic" => p = "B"

LineGates ==
  /\ stage = "lines"
  /\ Become(IF profile \in {"A", "B"} /\ \A k \in DOMAIN lines : Allowed(profile, lines[k].opens)
            THEN IF EnforceContract THEN "contract" ELSE "passed"
            ELSE "refused")

-----------------------------------------------------------------------------
(* _extract_verify_theorem_block: up to the next line that the pattern     *)
(* takes for a top-level declaration.                                      *)
(* Slip: up to the end of the source.                                      *)
BlockToEnd(start) == SubSeq(lines, start, Len(lines))
Block(start) ==
  LET stops == {k \in start + 1 .. Len(lines) : Top(lines[k])}
  IN  SubSeq(lines, start,
             IF stops = {} THEN Len(lines) ELSE (CHOOSE k \in stops : \A j \in stops : k <= j) - 1)

(* _split_verify_theorem_parts: the header goes on to the first ":= by";   *)
(* without one, or with a tactic behind it, there is no statement and the  *)
(* whole block is the proof.                                               *)
(* Slip: the header is the first line.                                     *)
FirstLine(block) == 1
HeaderLength(block) == SelectInSeq(block, LAMBDA l : l.ends = "by")
Split(block) ==
  LET n == HeaderLength(block)
  IN  IF n = 0 \/ block[n].tactic # "none" \/ block[n].ends # "by"
      THEN [statement |-> <<>>, proof |-> block]
      ELSE [statement |-> [k \in {i \in 1 .. n : block[i].part # "nothing"} |-> block[k].part],
            proof |-> SubSeq(block, n + 1, Len(block))]

\* Parts with the letter f.
Lettered == {"shape", "about_f", "letters"}

\* The statement, which is kept by its lines, is one part and nothing else.
IsJust(statement, part) ==
  \E k \in DOMAIN statement : DOMAIN statement = {k} /\ statement[k] = part

(* _detect_verify_tactic.                                                  *)
TacticOf(proof) ==
  LET named == {proof[k].tactic : k \in DOMAIN proof}
  IN  IF "native_decide" \in named THEN "native_decide"
      ELSE IF "grind" \in named THEN "grind" ELSE "none"

(* The rules for the theorem; "reference f or expected" is a search for    *)
(* the letter.                                                             *)
VerifyAllowed(start) ==
  LET v == Split(Block(start))
      t == TacticOf(v.proof)
  IN  /\ t # "none"
      /\ ~IsJust(v.statement, "True")
      /\ t = "native_decide" => IsJust(v.statement, "shape")
      /\ t = "grind" => \E k \in DOMAIN v.statement : v.statement[k] \in Lettered

Required == {"options", "helpers", "f", "expected", "verify"}

ContractHolds ==
  /\ Opens("directive") \cup Opens("empty_expected") = {}
  /\ \A name \in Required : Opens(name) # {}
  /\ VerifyAllowed(SelectInSeq(lines, LAMBDA l : l.opens = "verify"))

ValidateContract ==
  stage = "contract" /\ Become(IF ContractHolds THEN "passed" ELSE "refused")

ContractNext == ValidateArtifact \/ LineGates \/ ValidateContract

ContractSpec == ContractInit /\ [][ContractNext]_contractVars

-----------------------------------------------------------------------------
(* How Lean reads the first theorem named verify: lines a to b state it,   *)
(* those from there to c, before the next declaration, prove it.           *)
LeanReads(a, b, c) ==
  /\ lines[a].opens = "verify" /\ \A k \in 1 .. a - 1 : lines[k].opens # "verify"
  /\ lines[b].ends # "no" /\ \A k \in a .. b - 1 : lines[k].ends = "no"
  /\ \A k \in a + 1 .. c : ~Declares(lines[k])
  /\ c = Len(lines) \/ Declares(lines[c + 1])

Statement(a, b) == {lines[k].part : k \in a .. b} \ {"nothing"}
Tactics(b, c)   == {lines[k].tactic : k \in b .. c} \ {"none"}

(* Lean's statement and proof obey one of the rules.  A native_decide that *)
(* is under the rule for grind stands behind a lookalike.                  *)
ProvedByRule(a, b, c) ==
  /\ LeanReads(a, b, c) /\ lines[b].ends = "by"
  /\ \/ "native_decide" \in Tactics(b, c) /\ Statement(a, b) = {"shape"}
     \/ /\ "grind" \in Tactics(b, c) /\ Statement(a, b) \cap Lettered # {}
        /\ "native_decide" \in Tactics(b, c) => \E k \in b + 1 .. c : Top(lines[k])

(* Lean's reading of the theorem on line a is not the code's: the next     *)
(* declaration is one the pattern does not see, or the statement does not  *)
(* end in ":= by".                                                         *)
Misread(a) ==
  \/ \E k \in a + 1 .. Len(lines) :
       lines[k].begins = "hidden" /\ \A j \in a + 1 .. k - 1 : ~Declares(lines[j])
  \/ \E k \in a .. Len(lines) :
       lines[k].ends = "term" /\ \A j \in a .. k - 1 : lines[j].ends = "no"

(* Whatever configuration the caller gives, an artifact that passes states *)
(* and proves its theorem verify by one of the two rules as Lean reads it, *)
(* and so does a source under the contract, unless Lean reads the theorem  *)
(* as the code does not; nothing passes with a line that is refused by     *)
(* itself.                                                                 *)
PassedMeansVerified ==
  stage = "passed" =>
    /\ \A k \in DOMAIN lines : lines[k].opens \notin Refusable
    /\ EnforceContract =>
         \E a \in DOMAIN lines :
           /\ lines[a].opens = "verify" /\ \A k \in 1 .. a - 1 : lines[k].opens # "verify"
           /\ Misread(a) \/ \E b \in a .. Len(lines), c \in a .. Len(lines) : ProvedByRule(a, b, c)

(* The sanitizer accepts what the package itself builds: a template whose  *)
(* formula defines f, proved natively or by grind about f, is refused only *)
(* for its imports or for a bad artifact.  (verify_answer would otherwise  *)
(* answer every request with an operational error.)                        *)
TemplatesPass ==
  stage = "refused" =>
    \/ route = "artifact" /\ ~wellFormed
    \/ profile = "C"
    \/ profile = "A" /\ Opens("import_tactic") # {}
    \/ \A p \in {"A", "B"}, f \in Formulas :
         (\E k \in DOMAIN f : f[k].opens = "f") => lines \notin
           {Template(p, f, NativeBlock)} \cup
           {Template(p, f, GrindBlock(g)) : g \in {h \in Goals : \E k \in DOMAIN h : h[k] = "about_f"}}
=============================================================================
