------------------------------ MODULE MCMining ------------------------------
(* The miners over every short trace of a few values and some longer ones  *)
(* with a known formula; and consensus with the fits that follow, over     *)
(* every report of four sources and over pairs that agree on a trace to be *)
(* fitted.  A behaviour is a call of find_bm_candidate or a consensus.     *)
EXTENDS Mining, Discovery

MCNamedTraces ==
  { <<0, 1, 1, 2, 3, 5, 8, 13, 21, 34>>,        \* Fibonacci
    <<0, 1, 3, 6, 10, 15, 21, 28>>,             \* triangular numbers
    <<0, 1, 4, 9, 16, 25, 36, 49, 64, 81>>,     \* squares
    <<0, 1, 8, 27, 64, 125, 216, 343, 512, 729>>,
    <<3, 5, 8, 12, 17, 23, 30, 38>>,
    <<1, 2, 4, 8, 16, 32, 64, 128>>,
    <<64, 32, 16, 8, 4, 2, 1>>,                 \* ratio 1/2: not integral
    <<1, 0, 1, 2, 1, 0, 1, 2, 1, 0>>,
    <<10, 8, 6, 4, 2, 0, 0, 0>>,                \* negative when extended
    <<1, -1, 1, -1, 1, -1, 1, -1>>,             \* negative terms
    <<1, 1, 0, -1, -1, 0, 1, 1, 0, -1>>,
    <<5, 5, 5, 5>> }

MCTraces == [1 .. 6 -> {-1, 0, 2}] \cup [1 .. 7 -> {0, 1, 2}]
              \cup [1 .. 8 -> {0, 1, 2}] \cup MCNamedTraces

MCHoldouts    == {-1, 2, 4}
MCAdversarial == {{-1, 1, 5, 99}}
Small(k)      == [1 .. k -> -1 .. 2]
MCSequences   == Small(3) \cup Small(4) \cup Small(5) \cup Small(6)
                   \cup Small(7) \cup Small(8)
                   \cup { Train(t, h) : t \in MCNamedTraces, h \in MCHoldouts }
                   \cup {<<>>}    \* where no call is made

-----------------------------------------------------------------------------
MCReports  == {<<>>, <<1>>, <<1, 2>>, <<1, 2, 3>>, <<1, 2, 4>>, <<2>>}
Agreed(t)  == [s \in {1, 2} |-> t]
Eight(Op(_)) == [k \in 1 .. 8 |-> Op(k - 1)]
HolonomicTraces ==
  {t \in {[k \in 1 .. 8 |-> HolonomicValue(s, u, v, w, z, k - 1)] :
            s \in {1, 6}, <<u, w>> \in {<<x, y>> \in (0 .. 3) \X (0 .. 3) : x <= y},
            v, z \in 0 .. 3} : Natural(t)} \cup {<<1, 1, 2, 6, 24, 120, 720, 5040>>}
StructuralTraces ==
  {Eight(LAMBDA m : m \div d + o) : d \in {2, 3, 9}, o \in {0, 5}} \cup
  {Eight(LAMBDA m : gcd(m + s, d)) : s \in {0, 1, 5}, d \in {4, 6}} \cup
  {Eight(LAMBDA m : gcd(3 * m + s, d) + 2) : s \in {0, 1, 5}, d \in {4, 6}} \cup
  {Eight(LAMBDA m : Valuation(m + s, p) + o) : s \in {0, 1, 7}, p \in {2, 3, 5}, o \in {0, 1}}
MCOffers ==
  [1 .. 4 -> MCReports] \cup {<<>>} \cup
  {Agreed(t) : t \in HolonomicTraces \cup StructuralTraces \cup [1 .. 8 -> {0, 3}]}
MCPrefixTerms == {0, 2}
MCMinSizes    == {2, 3}

NoCall ==
  /\ trace = <<>> /\ holdoutTerms = 0 /\ adversarial = {} /\ candidate = None
  /\ sequence = <<>> /\ SearchInit(sequence) /\ BMInit
NoOffer ==
  /\ offer = <<>> /\ prefixTerms = 0 /\ minSize = 0 /\ arrived = <<>>
  /\ consensus = [Unselected EXCEPT !.selected = TRUE]
  /\ structural = Unfitted /\ holonomic = Unfitted

MCInit ==
  \/ MiningInit /\ NoOffer
  \/ NoCall /\ DiscoveryInit
MCNext ==
  \/ MiningNext /\ UNCHANGED discoveryVars
  \/ DiscoveryNext /\ UNCHANGED miningVars
MCSpec == MCInit /\ [][MCNext]_<<miningVars, discoveryVars>>
=============================================================================
