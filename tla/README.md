# A TLA+ verification of mathcheck-engine

mathcheck-engine decides bounded mathematical claims by generating a Lean source and running Lean on it. This directory
holds TLA+ models of the parts where things can go wrong in ways tests hardly reach, along the whole way of a request:
the command line and the compiler of specifications, the sanitizer, the checker runner with its version
gate, its pool of persistent Lean servers and its command-line confirmation, the isolation wrapper around Lean, and the reader of
Lean's diagnostics that turns a failed check into a rejection or leaves it undecided. Beside them stand models of the exact
algorithms that find formulas in traces. File names below are relative to `lean_kernel_verifier/`.

## The system

| component | state | operations | talks to |
|---|---|---|---|
| command line (`__main__.py`) | none | one request, one verdict, one exit code | all of the below |
| specification compiler, pair certificates (`specification.py`, `certificates.py`, `sanitizer/template.py`) | none | check the expression and the bounds, produce the Lean goal | `run_source` |
| sanitizer (`sanitizer/sanitizer.py`) | none | blank comments and literals, search for what is banned, hold a source to the template contract | called by the pipeline |
| version gate (`runner/checker_runner.py`, `_ensure_lean_compatible`) | `_preflight_checked`, `_preflight_error`, `_preflight_timed_out` | probe `lean --version` once, cache the outcome, retry after a timeout | every request passes it |
| request pipeline (`run_source`, `verify_artifact_dict`, `_run_checked_source`, `_run_lean_file`) | fallback counter; one result per request | sanitize, gate, persistent worker, CLI confirmation or CLI fallback | sanitizer, gate, pool, Lean |
| worker pool (`_run_persistent_backend*`, `_ensure_persistent_pool`, `close`) | list of workers, list of locks, semaphore, round-robin index, counters | create lazily, queue, choose a slot, restart dead or failed workers within a budget, close | workers; shared by threads |
| language server backend (`_PersistentLeanServerBackend`) | process, queue, document version, request id, flags | start and handshake, open or change the document, collect diagnostics until quiet or late, shut down | Lean server over pipes, reader thread over a queue |
| verdict (`specification.py`, `checker_status`, `_native_false_diagnostics`) | none | classify a result; scan the output | the result |
| isolation wrapper (`isolation.py`) | temporary directory | run Lean in namespaces under limits, map failures to exit codes 124 and 125 | stands in for the `lean` executable |
| trace consensus (`consensus/trace_consensus.py`) | none | cluster traces of several sources, take the common prefix of the largest cluster | callers outside the verification path, as the next two |
| formula mining (`symbolic/mining.py`) | none beyond a call: the loop variables of `berlekamp_massey` | fit a Newton polynomial or a linear recurrence to the training terms of a trace, test it on the terms held out, emit a Lean definition | |
| structural and holonomic fits (`gating/structural.py`, `symbolic/holonomic_lite.py`) | none | search small families for one that gives every term | |
| trace checks, geometry | none | pass or fail single observations | |

What is hard: a runner may be used by several threads (the pool exists for them) while the gate and the pool's creation
have no lock; `close()` replaces attributes that requests in flight read again; the reader thread of a dead server may
outlive it; a server may answer about an earlier document, pause, die, fall silent or never stop talking; each of the
probe, the worker, the queue, the CLI and the wrapper has a timeout of its own; the scanner decides from text which failures are
mathematical. The compiler, the sanitizer and the miners are sequential, and hard in another way: two languages whose division differs,
goals that count from zero about intervals that do not, comments and strings that contain each other's delimiters, exact fractions
with several index offsets, where a slip shows on particular inputs only. What makes each part correct is the list of
properties below. PROJECT.json lists the hazards at their lines.

## Modules

| module | models | properties |
|---|---|---|
| `Expressions` | the expression language: the trees `ast.parse` returns (`Tree`) and their count of nodes (`TooComplex`), what `_expression` accepts, what the Lean text computes, what the Python text means | |
| `AnswerCheck` (extends `Expressions`) | a request of the command line: `Parse`, `Construct`, `Compile`, `Checked` or `OutputUndecodable`, `CloseRunner`; the five goals as Lean computes them | `AcceptedExpressionsAgree`, `VerdictMeansSpec`, `InvalidInputBeforeLean` |
| `LexicalScan` | the passes that blank comments and string literals, one action per kind of character taken; for comparison, the lexemes of a source read by descent (`Lexemes`) | `CodeExactlyKept`, `LinesKept` |
| `TemplateContract` | `validate_artifact_schema`, the gates on lines and the template contract, and what `build_checker_template` builds | `PassedMeansVerified`, `TemplatesPass` |
| `Preflight` | the version gate: `UseCachedVerdict`, `StartProbe`, `ProbeReturns` are the three ways through `_ensure_lean_compatible`, the last with every way the version subprocess may end, the exception that no handler names among them | `SingleProbe`, `TimeoutNotCached`, `NotPoisoned`, `TightUntilException`, `AdmittedOnlyCompatible` |
| `TrustedVerdict` | the abstract contract of the checker: one answer per request, a decision only if it is right | used as a property |
| `CheckerRunner` (extends `Preflight`) | the pipeline: `RejectSource`, `SanitizeSource`, `PassGate`, `RunPersistent`, `RunLeanFile` or `RunLeanFileRaises`, and `CheckerStatus` on the result | `VerdictsTrustworthy` (refinement of `TrustedVerdict`), `SuccessConfirmedByCli`, `FallbackAccounted`, `EveryRequestAnswered` |
| `PersistentPool` | the pool with threads, crashes and `close()` | `WorkerExclusive`, `PermitsConserved`, `NoException`, `NoWorkerOrphaned`, `TelemetryBalanced`, `EveryCallReturns` |
| `Worker` | the abstract contract of one worker | used as a property |
| `LspBackend` | one worker, its reader threads and the server | `WorkerContract` (refinement of `Worker`), `AnswerAboutThisRequest`, `NoServerLeaked`, `RunningMeansInitialized`, `ProtocolFollowed`, `EveryRequestEnds` |
| `NativeDiagnostics` | the line scanner, one action per line read or loop left | `AcceptsTheGrammar`; `AcceptedMeansDecided`, which it implies, is proved by itself |
| `DiagnosticReports` (extends `NativeDiagnostics`) | how a report becomes text: Lean's CLI form, and `_format_diag` with errors after warnings | `ReportsClassified` |
| `Isolation` (instantiates `CheckerRunner`) | one call of the wrapper: version check, run, limits, its two timers and the runner's | `IsolatedLeanTrusted`, `NothingLeftBehind`, `EveryRunEnds` |
| `Rationals` | the arithmetic of `fractions.Fraction`, in lowest terms | |
| `BerlekampMassey` (extends `Rationals`) | the loop of `berlekamp_massey`: `ZeroDiscrepancy`, `Grow` and `Correct` are its three ways through a pass | `IndicesInRange`, `PrefixGenerated` |
| `IntegerRecurrence` (extends `Rationals`) | `find_smallest_integer_recurrence` with its Gauss-Jordan elimination: `Pivot` and `SkipColumn` are a column, `Accept`, `TryNextOrder` and `Exhausted` decide on an order | `ReducedEchelon` |
| `Mining` (extends `BerlekampMassey` and `IntegerRecurrence`) | `find_bm_candidate` around the two (`TooShort`, `SearchStep`, `LoopStep`, `Mined`); the difference table and `find_polynomial_candidate` as operators; what the emitted definitions compute | `SearchesAgree`, `MinersAgree`, `LeanReproducesTrace` |
| `Discovery` | samples that arrive in any order, `select_consensus_trace`, then both fits on the trace it returned | `ConsensusDetermined`, `FitsReproduceTrace`, `HolonomicComplete` |
| `CheckerRunnerProofs` (the gate's too), `PersistentPoolProofs`, `LspBackendProofs`, `LeanOutputProofs`, `SanitizerProofs`, `AnswerCheckProofs`, `MiningProofs` | theorems | |
| `LinearRecurrences` (extends `Rationals`) | lemmas that `MiningProofs` rests on: fractions, sums, recurrences as polynomials | |
| `MC...` | small instances for TLC | |

How they compose: the verdict that `AnswerCheck` receives is any that `TrustedVerdict` permits, `CheckerRunner` is shown to implement
`TrustedVerdict`, `Isolation` shows that Lean behind the wrapper stays within what `CheckerRunner` assumes of Lean, and the pool's
worker is the contract `Worker`, which `LspBackend` is shown to implement. `CheckerRunner` takes a run of the pool as one step with any result.

Definitions marked *slip* in the modules are plausible mistakes in the code. PROJECT.json pairs each checked property
with a slip that breaks it.

### How state and actions correspond to the code

Variables carry the attribute names of the code. A result is a record of the fields of `CheckerRunResult` that
`checker_status` and the callers tell apart; exit codes fall into the classes 0, 1, 124 (which the isolation wrapper uses
for its timeout) and the rest. The gate's probe has an outcome instead of a version text. A request that an exception ends
has the phase `raised` and no verdict; it happens where the output of the probe or of a file does not decode.

*Granularity.* A step ends where CPython may switch threads, that is at a call or a blocking operation. A run of attribute
accesses without a call in between is one step, and so is `x += 1` on an attribute (CPython 3.11 to 3.13 tests for a switch
at calls and backward jumps only). The gate sets its flag and resets its verdict in one step, before the subprocess starts. The
pool's creation is four steps: check, list, locks and index, semaphore. Two models abstract this further: in
`CheckerRunner` a whole run of the pool is one step with any result it may have, and in `LspBackend` the poll of the queue
is one step.

*The pool's attributes* are replaced, not mutated, by creation and `close()`. An incarnation of the list, the locks or the
semaphore is named by the thread that made it, and each step says which incarnation it uses: the one the attribute names
now, or the one read earlier. The finally clause, for instance, reads the semaphore attribute again.

*The Lean server* in `LspBackend` may report on any document it has received, at any time, in any order, and may exit at
any time. A reader that lags behind a restart delivers to the queue of the next server, as the code's `self._messages`
does. A reader is taken to have read `self._proc.stdout` before its server was replaced. What the diagnostics say is
left to `CheckerRunner`; `LspBackend` is about which document they belong to. Its refinement mapping to `Worker` forgets
everything except whether a request is inside, whether there is a process and whether it lives, and how the last request
ended. The pool's `Ask`, `Answered`, `Erred`, `Crash` and `CloseWorker` are `Worker`'s `Begin` (with `Spawn`), `Answer`, `Fail`, `Die` and `Close`.

*The scanner* sees classes of lines. `spaces` (white space only) is in both the class of indented and of blank lines, as
in the code. `DiagnosticReports` produces the text of reports; its transport "text" is any text at all. An LSP message without a
severity (`unmarked`) counts as an error and as a warning, because the two lists of `_collect_diagnostics_locked` default it differently.

*Expressions* are trees: the model starts where `ast.parse` ends. `Tree` is built by levels, up to the depth `MaxDepth` at which the
parser gives up, and what is computed over a tree (`Nodes`, `Kind`, `Value`) is a recursive function on that set. `Value` has two readings, which differ in division and
remainder by negative numbers and by zero. A goal is what the Lean text computes (a fold over
`List.range` for a sum, a filtered list for a count, text split at two separators for a certificate); the property compares it
with the meaning of the specification, in which order and representation do not occur. JSON syntax is one Boolean.

*The sanitizer* is modelled at two levels. `LexicalScan` sees the six kinds of characters that matter; a banned word is one
of them, because the result of the passes is searched for banned words. `TemplateContract` sees what the passes leave, as classes of lines: whether
a declaration begins and who sees it, what the line opens (or `nothing`), which part of the theorem's statement it holds, how it ends that statement, which tactic it names. A
statement is kept by the lines that hold its parts; joining them with single spaces, as `_normalize_space` does, adds nothing to that.
Lean and the code's patterns do not read a source alike, and the lines keep the two readings apart: a declaration may begin for both (`decl`), for Lean
only (`hidden`: private, with an attribute, mutual, indented) or for `TOP_LEVEL_DECL_RE` only (`lookalike`: an unindented `classical` or `set_option .. in` among
tactics); a statement may end in `:= by` or, for Lean only, otherwise (`term`); and a part may refer to `f` (`about_f`) or only have the letter in some other word
(`letters`: `fun`, `if`), which the test at line 268 does not tell apart. `Block`, `Split` and `VerifyAllowed` are the code's reading; `LeanReads` and
`ProvedByRule` are Lean's, and `Misread` says where the two part. At most one declaration begins on a line. A line that only Lean takes for a beginning or an end
carries words, since to the code it is text of the statement.

*Time* in `Isolation` passes only while the wrapper waits for a process. The three timers are the deadline of the version check,
that of the run and the runner's own. Lean may end in every way `CheckerRunner` allows for the toolchain that is installed,
and at any moment by a signal.

*The miners.* Lists of the code count from 0 and sequences from 1, so `c[i]` is `c[i + 1]`. The constant `Sequences` of
`BerlekampMassey` is the set of arguments of that function; in `Mining` it must contain the training terms of the traces.
The search for an integer recurrence is a function of the training terms alone; `Mining` runs it before the loop on every trace, so
that the two can be compared, and uses its result where the code calls it.
The emitted Lean text is modelled by what it computes: a Newton polynomial is evaluated as `evaluate_newton_polynomial` does; a
recurrence is rebuilt from its seeds in `Nat`, or with a negative coefficient in `Int` and cut off at zero (`toNat`). For a trace
with negative terms this may differ from the value the holdout was judged by, and `LeanReproducesTrace` is stated
for traces of natural numbers.

*Consensus and fits.* `Discovery` takes the samples in the order of arrival, because Python's dictionaries and sorts keep it. The
nested loops of a detector are the least parameters, in the order of the loops, that fit. The fits are what the
package offers for a trace on which sources agree; nothing in the package itself calls them in this order.

### Assumptions about the environment

- Lean from a toolchain that the gate accepts exits 0 only on a theorem that holds and prints a complete `native_decide`
  refutation only of one that does not. Everything else it may do for any source. The README's trust boundary (compiler
  and runtime) says the same.
- The text that Lean prints may fail to decode, in the gate, in `_run_lean_file` and in `AnswerCheck`. Only `VerdictsTrustworthy` is checked and proved
  without the gate's case: after it a request may run on an unchecked toolchain, of which nothing is assumed.
- The server tags diagnostics with the document version. The code takes an untagged message for current.
- A write to a live server's stdin returns. The code has no deadline for it (and nobody reads the server's stderr).
- `bwrap --die-with-parent` works: the kernel ends the sandbox when the wrapper is killed.
- Where a model restricts its environment a constant names the restriction: `Sequential`, `Toolchains`, `Faults`, `FirstUseAlone`,
  `Closing`. Two of the runs that expect a violation (`preflight_race`, `pool_cold`) drop one.

## Runs

| run | bounds | what it shows |
|---|---|---|
| `answers` | intervals of up to 5 values with both limits in reach (`MaxBound` 5, `MaxTerms` 4, `AnswerLimit` 8, `MaxLiteral` 3, `MaxExponent` 2), expressions of up to three operators and at most `MaxNodes` 14 nodes, nested `MaxDepth` 4 deep, pair certificates of up to 3 pairs, right, wrong, unsorted and out of range | an accepted expression means the same in both languages; exit code 0 and rejection are about the specification |
| `cli_invalid_input` (violation) | the same | output of Lean that does not decode is reported as invalid input |
| `sanitizer` | every source of up to 4 characters of 6 kinds, of up to 8 comment delimiters and of up to 6 characters of literals; every theorem of up to 4 lines of 18 kinds, five of which Lean and the code read differently; templates of both profiles | comments and literals are blanked and nothing else, and lines keep their places; Lean reads what passes as a theorem that one of two rules proves, or `Misread` holds; what the package builds passes |
| `runner_sequential` | 3 requests, one at a time, over all toolchains: through the gate alone with all probe faults, or through the pipeline with those that the gate handles, with all configurations and with output of files that may not decode | the gate is tight until a probe raises, and exact about timeouts; the runner implements `TrustedVerdict` |
| `runner_concurrent` | 3 concurrent requests, persistent mode, usable or missing toolchain, probes that time out or do not decode, fairness | one probe at a time, no lock-out, CLI confirmation, fallback accounting, an answer or an exception for every request |
| `preflight_race` (violation) | concurrent requests, incompatible toolchain | a request is admitted during the first one's probe |
| `diagnostics` | every text of up to 6 lines of 8 kinds; every report of up to 4 diagnostics of 5 kinds by CLI and LSP | the scanner accepts a grammar stated without reading order, is conservative, and classifies reports |
| `pool` | 3 threads, 2 workers, restart budget 1, crashes, `close()` between requests, fairness | the pool's safety properties, also over a reopened pool, and that every call returns |
| `pool_cold` (violation) | 2 threads, 1 worker, concurrent first use | a request ends with an exception |
| `lsp` | 2 requests, 2 servers, one message in each pipe, in each reader's hand and in the queue; fairness | the backend's properties, and that it implements `Worker` |
| `isolation` | version check 1, run 3, runners of patience 1 to 5; both modes, both toolchains, every claim; fairness | whichever timer wins, the runner sees only what a trusted Lean could show, and nothing is left behind |
| `mining` | every trace of 6 terms from -1, 0, 2, of 7 and of 8 from 0, 1, 2, and twelve with a known formula, up to 10 terms; holdouts of -1 (taken for 0), 2 and 4. Four sources with reports of up to 3 terms in every order of arrival; traces of the fitted families with parameters up to 3 | the loop and the elimination keep their invariants; the recurrence generates what has been read; both searches find the same one; polynomial, recurrence and Lean definition agree; consensus does not depend on order; fits reproduce their traces and none is lost |

Why the bounds are enough. An interval of five values is over the limit of four, lies at both ends of the range and can start at a
value greater than its length, which is what the shift of `List.range` needs; literals and exponents go beyond their limits, and 3 pairs
allow for one missing, one too many and one out of order. Eight comment delimiters nest two comments, close them and leave code behind;
four lines hold a theorem, its statement in two parts, its proof and a declaration after it, and each of the lines where Lean and the
patterns differ fits into each of these places. The gate's and pipeline's requests interact only through the three gate attributes and the counter, and
three requests already have one probing, one meeting its flag and one arriving later. Six lines contain every pair of
neighbouring blocks with a line too many or too few between them; the scanner's state has no memory beyond its loop.
Three threads on two workers is the smallest instance where round robin sends two requests to a busy slot, a queue forms
and a restart happens beside both. Two servers give a lagging reader a successor, and two requests give it a document to
confuse; a message can wait in three places, so three are enough to arrive late together. The bounds of `LspBackend` (`MaxPipe`,
`MaxQueue`) limit how far the reader may run ahead, not what arrives. In `Isolation` a patience of 1 ends with the version check, 2 and
3 during the run, 4 together with the last deadline and 5 after it.
Eight terms make the recurrence grow up to four times, after corrections in between, with fractions as coefficients, and pin
every recurrence of order up to four. The longer traces are those for which polynomials of degree two and three are pinned.
A prediction is compared with the trace and three terms past it. Four sources form every division into clusters that matters: one, two of
different size, a tie.

### Fairness

`FairRunnerSpec`: each request goes on, because the probe, the worker and the CLI run under timeouts. `FairPoolSpec`: a
thread that can go on does so; nothing is assumed of the order in which locks and the semaphore serve waiters.
`FairLspSpec`: the client's sends happen, and the two loops look at the clock in each turn, so a deadline that has passed ends
them; nothing is assumed of the server or the reader. `FairIsolationSpec`: time passes, the wrapper and the runner act when
their timers do, and the kernel delivers the signal of a parent's death; nothing is assumed of Lean.

### What `SearchesAgree` says of the fallback

`find_bm_candidate` falls back on `find_smallest_integer_recurrence` when a coefficient is not integral, after it has required
at least twice as many terms as the order. With that many terms the recurrence is the only one of its order and
every longer system is rank-deficient, so the search finds nothing. The fallback can only make a candidate when
`berlekamp_massey` returns something else than the shortest recurrence, which is how its unit test reaches it (by a patch).

### What the violations say

- *Concurrent first requests* (`preflight_race`): `_preflight_checked` is set before the version is known, so a second
  thread gets `None` (no error) from the cache and runs Lean on an unchecked toolchain.
- *Pool creation* (`pool_cold`): `release()` raises out of the finally clause, and the caller
  gets an exception where the documentation promises `operational_error`.
- *Output that does not decode* (`cli_invalid_input`): `subprocess.run(text=True)` raises a `ValueError`, for which `main()`
  prints `invalid_input`, although Lean has run on an admissible request.

The properties themselves name three more places where the code does less than its documentation or its messages say.

- *Version output that does not decode.* The flag of line 774 survives a `UnicodeDecodeError` of the probe, which no handler at 787-802 names. The request that
  meets it ends with the exception, and every later one, also without any concurrency, is admitted unchecked. `TightUntilException` holds because of its first
  disjunct: without it, which is `AdmittedOnlyCompatible`, `runner_sequential` fails after a start, an exception and a cached answer.
- *The end of the theorem.* The contract cuts the theorem's block at lines that `TOP_LEVEL_DECL_RE` recognises. A private, attributed, mutual
  or indented declaration behind it belongs to the block for the code and not for Lean, so its tactic counts as that of `verify`, although the message at
  `sanitizer.py:256` says that "`theorem verify` must use `native_decide` or `grind`". That is what `Misread` in `PassedMeansVerified` stands for;
  without it the run `sanitizer` fails on such a source. Lean still checks the whole file; what is lost is that `verify` is proved by the named tactic.
- *About f.* The message at `sanitizer.py:270` says that a theorem proved by `grind` "must reference `f` or `expected`"; the test is for the letter `f`, which any `fun` or `if`
  has. The second rule in `ProvedByRule` asks for `Lettered` and not for `about_f`, since that is all the code ensures.

The models show three more limits when a constant is widened; they are no runs of their own, since each only confirms a
known trade-off. With all `Faults`, `NotPoisoned` fails: an OS error or a bad exit code of the probe is kept for good, while the comment at
the timeout branch speaks of load-related failures. With `Closing = "any"`, `NoException` fails:
a request in flight meets the attributes that `close()` has reset. And an LSP report with a warning beside a
false decision is inconclusive, because `_format_diag` drops the severity; `ReportsClassified` therefore promises a
rejection for the CLI form only. Nothing wrong is decided in any of them. (`NotPoisoned` is checked with the two faults that are not cached, timeouts and undecodable output: it is about
lock-out by these, under concurrency, and says nothing of the failures that are kept on purpose.)

## Proofs

| theorem | for every | argument |
|---|---|---|
| `PreflightTypeCorrect`, `OneProbeAtATime`, `TimeoutsAreRetried` | set of requests, toolchains and faults | the flag is up while a probe is in flight, so a second probe cannot start; from that, the verdict fields change only with the probe's own outcome |
| `WorkingToolchainNotPoisoned` | the same, if the only faults are those that are not cached (timeouts, undecodable output) | a checked gate with a compatible toolchain and no probe in flight has no error |
| `SequentialGateIsTight` | the same, if requests are sequential, whatever fails | a checked, idle gate without an error has a compatible toolchain, or some probe has raised |
| `DecodableGateIsTight` | the same, if requests are sequential and version output decodes | no probe raises then, and the theorem above leaves `AdmittedOnlyCompatible` |
| `RunnerTypeCorrect` | and every set of configurations | |
| `PipelineKeepsPromise` | the same, if requests are sequential and version output decodes, or no toolchain is incompatible | the runner's steps map to an answer or a stutter of `TrustedVerdict`; the invariant says that a request past the gate runs on a trusted toolchain |
| `WorkerSuccessNeverFinal`, `FallbacksCountedOnce` | all | the worker's success leads to a CLI phase only; the set of requests that fell back grows with the counter |
| `PoolTypeCorrect` | set of threads, number of workers, restart budget, way to use and close the pool | |
| `WorkersExclusive`, `PermitsAreConserved`, `NoRequestRaises`, `NoProcessOrphaned`, `CountersBalance` | threads, workers and budgets, if the first use of the pool is alone and `close()` does not cut a request short | see below |
| `NoServerIsLeaked`, `RunningIsInitialized`, `AnswersAreOwn`, `ProtocolIsFollowed` | number of requests and servers, and of messages under way | see below |
| `BackendIsWorker` | the same | every step maps to a step or a stutter of `Worker` |
| `ScannerTypeCorrect`, `AcceptanceIsConservative` | text of any length | the invariant says that every header read so far is complete or being read, and no unrecognised line has been passed |
| `ScannerAcceptsTheGrammar` | text of any length | see below |
| `PassesKeepLines` | set of sources, of any length | what a pass has put out is as long as what it has read, and each character of it is that of the source or a blank for one that ends no line |
| `PassingIsVerified` | set of documents, of any length | a source goes past the gates on lines only if no line is refused by itself, and past the contract only if the block that the code cuts out, split at its first `:= by`, satisfies a rule. If Lean does not misread the theorem, its next declaration is one the pattern sees, so the code's block ends no later than Lean's proof,
and no earlier line ends the statement: Lean reads the same statement, and every tactic the code has found |
| `BuiltTemplatesPass` | set of formulas and goals, of any length | in prelude, formula, and what follows, the theorem block is the last; its header ends at the goal's last line, before which no line holds `:= by` |
| `WrapperCleansUp` | timeouts and patience | the clock does not pass the deadline of the process waited for, and the run starts before the version check's deadline, so a call takes no longer than both; Lean has ended or been killed at each exit |
| `WrapperShowsTrustedLean` | timeouts and patience | a file reaches Lean only under the pinned toolchain, so an exit that is passed on unchanged is one that `CheckerRunner` allows a trusted Lean; every other exit is a failure, which decides nothing |
| `AnswerInvAlways` | limits, requests, answers and certificates | see below |
| `AcceptedExpressionsAgreeAlways`, `VerdictMeansSpecAlways` | the same | see below |
| `ReportsFollowTheGrammar`, `ReportsAreClassified` | set of reports, with any number of diagnostics | see below |
| `CodeIsExactlyKept` | set of sources, of any length | see below |
| `IndicesAreInRange`, `ComplexityGrows` | set of sequences | `Len(b) + shift = n - linear_complexity + 2` at the top of each pass: a correction pads `c` exactly as far as the growth of the recurrence needs |
| `MiningRunsTheLoop`, `MinerIndicesAreInRange` | traces, holdouts, index sets | the miner's steps map to passes of the loop or stutters |
| `LoopGenerates`, `LoopIsMinimal` | set of sequences | see below |
| `EliminationIsReduced` | traces, caps on the order | the columns passed stay reduced: a pivot row is zero in the columns before its pivot, so subtracting it disturbs none of them |
| `SearchFindsTheSmallest`, `TheSearchesAgree` | the same | see below |
| `TheDefinitionReproduces` | traces, holdouts, index sets | a candidate reproduced its training terms when it was made, and its holdout is the rest of the trace; cutting off at zero changes no term of a trace of natural numbers |
| `TheMinersAgree` | traces, holdouts, bounds on the degree | see below |
| `TheConsensusIsDetermined` | sets of sources and their reports, in every order of arrival | see below |
| `FitsAreReproduced`, `HolonomicSearchIsComplete` | the same, and every bound on the parameters | see below |

Each proof module states an inductive invariant, the lemma that `Init` implies it, one lemma or step per action, and the
theorem. The inductive strengthening is needed because the properties speak of finished requests or of the accepted text only.
`PipelineKeepsPromise` needs its hypothesis: without it the gate's race is a counterexample, and so is a probe that raises.

**The pool.** These theorems are proved under `Calm`: `FirstUseAlone`, and `Closing` other than "any". Both are
needed. `pool_cold` is a counterexample without the first, and with `close()` under a request the finally clause releases the
semaphore of another incarnation, or none. The inductive invariant has seven parts: who may create the pool and what it has made so far
(`CreationInv`: one thread at a time creates, and whoever is inside finds all three attributes of one incarnation); that an incarnation not yet made is unused (`FreshInv`);
that each request holds the lock of its slot while it is in it, and knows the worker there (`LocalInv`); that a worker is in one slot at most, and a worker yet to be started in
none (`SlotInv`); that every process is a slot's, with at most one request inside, and that `close()` leaves none behind it (`ProcessInv`); that permits and the threads that hold one add up to the pool's size (`PermitInv`); and
that each counter is the number of requests that have passed the place where it is incremented (`TelemetryInv`). The last two are sums over threads and rest on
the cardinality theorems of the library.

**The language server backend.** `ControlInv` ties the client's place in the code to the process and to the flags. `VersionInv` says that no
document version is used twice, `IdInv` the same of request ids, also after a restart, because neither counter is
reset. Both speak of everything on its way to the client, in a server's pipe, a reader's hand or the queue: it carries a version or an
id already given out, and the current one only if it is about the current request or from the current server. That is why a lagging reader of a dead server
can deliver nothing that is taken for an answer. `InboxInv` is the order of what each server has received.
In the refinement `RunSource` maps to `Begin`, a launch to `Spawn`, quiet and deadline to `Answer`, every failing step to `Fail`, the exit of
the current server to `Die`.

**The grammar.** `IsRefutation` cuts a text into blocks, at the lines that start one, and asks of each that it has one of two forms; it does not say how to find out. The
scanner is greedy. `GrammarByPlaces` puts the grammar in terms of places in the whole text. The invariant `GrammarInv` says that
the blocks behind the last start are good, and what has been read of the last one: a body is as long as it can be. That greed loses nothing is then a fact
about blocks: where the loop stops, no other choice of the body's end would go on (`GapStuck`, `CompleteStuck`, `PropositionStuck`). A block's end is the least line
that could be one, whose existence is `LeastNatural`.

**The recurrence miner.** `LinearRecurrences` begins with Euclid's algorithm: it returns the greatest common divisor, so a fraction in
lowest terms is unique, and the laws of the field follow from cross multiplication (of `Fraction` of `Rationals`, with its reduction, and not
of assumed rationals). A total is the last of its partial sums; it is linear, and a table has the same total by rows and by columns. A recurrence
is taken as the polynomial `1 - q[1]x - ...`, which annihilates the sequence where the recurrence reproduces it. Massey's lemma: two
polynomials that annihilate the same terms agree on the next one, if there are as many terms as their orders together.

*The loop.* `LoopInv` says that `c` annihilates what has been read, and that `b`, moved by `shift`, annihilates all of it but one term, where
it leaves `discrepancy_scale`; hence a correction cancels the discrepancy and disturbs no earlier term (`LoopGenerates`). `Shortest` says that
no shorter polynomial annihilates as much: one that did after a growth would, by Massey's lemma, agree with `c` on the term at which `c` was wrong
(`LoopIsMinimal`).

*The search.* Each step of the elimination keeps the solutions of the system, which are the recurrences of that order (`SameSolutions`).
When all columns are passed, either every one has a pivot and the last column is the only solution, or some row contradicts, or a column without a pivot
gives a direction along which every solution can be moved, so there are none or several. The search therefore accepts an order
exactly if it has one recurrence and that one is integral, and goes on otherwise; that is `SearchInv`, and at the end `SearchFindsTheSmallest`.

*Both.* If the loop's recurrence is pinned, there is none of a smaller order, it is the only one of its own, and of a larger order there are
several: the loop's polynomial plus any multiple of itself, moved by one place (`LongerIsNotUnique`). So the search ends with it or, if it
is not integral, with nothing (`TheSearchesAgree`). This is the general form of the remark on the fallback above.

*The polynomial.* `CombFacts` derives Pascal's rule from the quotient of factorials that `choose` is, so the step of a Newton formula is the
formula without its first coefficient (`NewtonStep`). The last row of the table that is used is constant, and each row above follows from the one below and
its first entry: the polynomial takes every training term (`PolynomialFits`). Take now the difference between a polynomial and what the recurrence
makes of its earlier terms, and the same for the polynomials behind it. These form a table of differences too, whose first row begins with as many
zeros as the polynomial has coefficients, and such a table is zero throughout (`VanishingTable`). So the polynomial obeys the recurrence for ever,
and two sequences that obey it and begin alike are the same (`GeneratedForEver`). `TrainingInv` ties the candidate to the training terms,
and `TheMinersAgree` follows, for every index.

**Requests.** `AcceptedExpressionsAgreeAlways` goes by induction over the levels of `Tree`, where a step of `Kind` or `Value` asks only for the arguments
of one node: an accepted expression divides by positive literals only and raises to small ones, where both languages agree. `VerdictMeansSpecAlways`
gives each of the five goals its meaning: the fold over `List.range` is the sum over the interval, the filtered list counts the elements of a set, text
split at its two separators gives back the numbers of the certificate, and the shift from zero to the start of the interval loses none. `AnswerInv`, which
`AnswerInvAlways` states, says which stage has passed which check and that a verdict is the goal's.

**Reports.** `ReportInv` adds to the scanner's invariant that the lines are those of the report, so the scanner accepts a report exactly if it follows
the grammar (`ReportsFollowTheGrammar`). A diagnostic is written as lines of which only the first can start a block. An error among the diagnostics puts a
line into the text that no block of the grammar has room for. The text of decisions and warnings in CLI form is a concatenation of blocks in one
of the two forms, of which stripping takes at most the last blank line (`ReportsAreClassified`).

**The sanitizer's passes.** The lexemes read by descent exist (the recursions of `CommentEnd` and `Lexemes` always ask at a later position), they follow each other without a gap,
and each position lies in one. `KeptInv` says that a pass is inside a comment or a literal exactly if its position is inside such a lexeme: in a nested
comment `depth` is the length of the chain of comment ends that are still to come, and in a literal `escaped` is the parity of the backslashes just read. From this
`CodeIsExactlyKept` follows, for the whole text, and line by line if the literals close on their line.

**Consensus and fits.** The bucket of a key holds the sources of a group, in the order of arrival and each once (`BucketFacts`). The ranking is total on
groups, because two of them differ in their first source, so there is a best one (`BestExists`), it is a largest, and the common prefix of a list is
what its members share, in any order (`CommonPrefixIsShared`). For the fits: the first of a finite set of parameters exists; the fuel of `vPow` lasts, because
each division leaves a smaller number (`GoCounts`); and while the ratio's value is a natural number the emitted loop takes the same steps as the evaluator.
That no holonomic recurrence is lost rests on two points: two samples fix the slope, so a pair of denominators has at most one pair of numerators, which
is the one the code computes (`TwoPoints`, `GoodIsUnique`); and where a single sample leaves the slope free, the recurrence reached zero at once, and zero
slope does as well (`SlopeIsFree`). `HolonomicComplete` asks for four training terms, as the code does.

Inductions over positions, levels and partial sums in these proofs go by least counterexample (`LeastNatural`, `Inductive`), on sets of numbers; that a
recursive function exists is proved each time, from the finite approximations of it.

**The contract's alphabet.** `ContractAssumption` (checked by TLC) says that documents are sequences of lines, that a formula's lines open `f`,
something else or nothing, and that a goal has at least one line.

Only model-checked is liveness (`EveryRequestAnswered`, `EveryCallReturns`, `EveryRequestEnds`, `EveryRunEnds`): the provers here reason neither about
fairness nor about ENABLED. Every invariant and action property of a passing run, and both refinements of an abstract contract, are stated by a theorem, under
the hypotheses in the table where it names any; the constants of the runs satisfy them.

## Not modelled

- The atexit handler, `__del__` and `telemetry_snapshot` (the first two call `close()`, the last reads). A runner that is used after
  `close()` is no longer known to the atexit handler; process exit is outside the models.
- Version texts, temporary files of the runner, durations and wording.
- Of the definitions that mining emits, the loop's fuel (`mining.py:291` and `319`): `LeanReproducesTrace` gives Lean the evaluator's operator
  and is about the training and holdout parts, the seeds and the cut-off at zero. Of the families in `structural.py` and `holonomic_lite.py`, only
  `vPow` and the holonomic loop have a Lean reading of their own; for the others the detector, `evaluate_candidate_at` and the Lean text share
  one operator, so that `FitsReproduceTrace` does not notice if one of the three places drifts.
- A source that reports twice: each source of `Discovery` has one sample, while the code counts repeated samples of one `source_id`.
- Of the sanitizer, the stripping of attributes and the normal form of a native statement (white space and outer parentheses).
  Only `\n` ends a line. A literal that spans lines is read differently by the pass over single lines than by the pass over
  the whole source; `CodeExactlyKept` asks of the former only what it does for literals that close on their line.
- Of formula mining, the kinds of candidate that `evaluate_candidate_at` accepts and nothing here produces.
- Of consensus, its warnings and the list of alternative clusters.
- Trace checks: regular expressions over the problem text, then direct comparisons of single terms. Geometry: its algebra is sympy's.
  Neither keeps state, and a model would repeat the code.
- Data classes, scripts and examples.

## Plan

Done, in this order: the gate, the pipeline with its abstract contract, the scanner and its reports, the pool, the worker, the
miners; the compiler with the command line, the wrapper, the sanitizer, consensus and the fits, the worker's contract.
Then the proofs: gate, pipeline, scanner, wrapper; pool, worker and its contract, the grammar, the sanitizer's contract; the arithmetic and
the recurrence miner; requests, reports, the sanitizer's passes, consensus, the fits and the two miners. What is left:

1. A composition of `CheckerRunner` with `PersistentPool` in place of its `RunPersistent`, which takes a run of the pool as one step.
2. The parts listed as not modelled that keep state: process exit and the telemetry snapshot.
