------------------------------ MODULE Discovery ------------------------------
(***************************************************************************)
(* From observed traces to fitted formulas.  Samples come in from several  *)
(* sources in any order; select_consensus_trace clusters them by their     *)
(* leading terms and takes the common prefix of the largest cluster; the   *)
(* trace is then given to find_structural_candidate and                    *)
(* find_holonomic_lite_candidate.                                          *)
(***************************************************************************)
EXTENDS Rationals, SequencesExt

CONSTANTS
  Offers,          \* what the sources will report: functions to sequences
  PrefixTerms,     \* values of prefix_terms
  MinSizes,        \* values of min_cluster_size
  HoldoutTerms,    \* holdout_terms of the fits
  ParameterBound   \* parameter_bound of the holonomic fit

ASSUME DiscoveryAssumption ==
  /\ \A o \in Offers : DOMAIN o \subseteq Nat /\ o \in [DOMAIN o -> Seq(Int)]
  /\ PrefixTerms \subseteq Int /\ MinSizes \subseteq Int
  /\ HoldoutTerms \in Int /\ ParameterBound \in Nat

VARIABLES
  offer, prefixTerms, minSize,
  arrived,         \* the sources in the order their samples were received
  consensus,       \* what select_consensus_trace returned
  structural, holonomic   \* the candidates, Unfitted before the call

discoveryVars == <<offer, prefixTerms, minSize, arrived, consensus, structural, holonomic>>

Unselected  == [selected |-> FALSE, accepted |-> FALSE, trace |-> <<>>]
Unfitted    == [kind |-> "unfitted"]
NoCandidate == [kind |-> "none"]
Found(cand) == cand.kind \notin {"unfitted", "none"}

DiscoveryInit ==
  /\ offer \in Offers
  /\ prefixTerms \in PrefixTerms
  /\ minSize \in MinSizes
  /\ arrived = <<>>
  /\ consensus = Unselected
  /\ structural = Unfitted /\ holonomic = Unfitted

Arrive(s) ==
  /\ ~consensus.selected
  /\ s \in DOMAIN offer \ Range(arrived)
  /\ arrived' = Append(arrived, s)
  /\ UNCHANGED <<offer, prefixTerms, minSize, consensus, structural, holonomic>>

-----------------------------------------------------------------------------
(* Consensus *)

ClusterKey(values) ==
  IF prefixTerms <= 0 \/ prefixTerms >= Len(values) THEN values
  ELSE SubSeq(values, 1, prefixTerms)

Keys == {ClusterKey(offer[s]) : s \in Range(arrived)}

\* The bucket of a key after the samples of the list.
Cluster(key) ==
  LET bucket[k \in 0 .. Len(arrived)] ==
        IF k = 0 THEN <<>>
        ELSE IF ClusterKey(offer[arrived[k]]) = key THEN Append(bucket[k - 1], arrived[k])
        ELSE bucket[k - 1]
  IN  bucket[Len(arrived)]

(* Slip: the cluster of the smallest source is taken, whatever its size.   *)
RankedBySource(d, e) == d[1] < e[1]
RankedBefore(d, e) == Len(d) > Len(e) \/ (Len(d) = Len(e) /\ d[1] < e[1])

Best ==
  LET clusters == {Cluster(key) : key \in Keys}
  IN  CHOOSE d \in clusters : \A e \in clusters \ {d} : RankedBefore(d, e)

CommonPrefix(cluster) ==
  LET traces == [j \in DOMAIN cluster |-> offer[cluster[j]]]
      agree(k) == \A j \in DOMAIN traces : Len(traces[j]) >= k /\ traces[j][k] = traces[1][k]
      upTo[k \in 0 .. Len(traces[1])] ==   \* terms taken when k were looked at
        IF k = 0 THEN 0 ELSE IF upTo[k - 1] = k - 1 /\ agree(k) THEN k ELSE upTo[k - 1]
  IN  SubSeq(traces[1], 1, upTo[Len(traces[1])])

SelectConsensus ==
  /\ ~consensus.selected
  /\ Range(arrived) = DOMAIN offer
  /\ LET trace == IF arrived = <<>> THEN <<>> ELSE CommonPrefix(Best)
     IN  consensus' = [selected |-> TRUE, trace |-> trace,
                        accepted |-> trace # <<>> /\ Len(Best) >= minSize]
  /\ UNCHANGED <<offer, prefixTerms, minSize, arrived, structural, holonomic>>

-----------------------------------------------------------------------------
(* The structural families, tried in this order; of each the first         *)
(* parameters that give every term of the trace.                           *)

Lexicographic(p, q) ==
  \E k \in DOMAIN p : p[k] < q[k] /\ \A j \in 1 .. k - 1 : p[j] = q[j]
First(params) == CHOOSE p \in params : \A q \in params \ {p} : Lexicographic(p, q)

Valuation(m, p) ==
  LET v[x \in Nat \ {0}] == IF x % p # 0 THEN 0 ELSE 1 + v[x \div p]
  IN  IF m <= 0 \/ p <= 1 THEN 0 ELSE v[m]

StructuralValue(cand, m) ==
  LET p == cand.params
  IN  CASE cand.kind = "floor_affine"    -> m \div p[1] + p[2]
        [] cand.kind = "gcd_shift_mod"   -> gcd(m + p[2], p[1])
        [] cand.kind = "gcd_affine"      -> gcd(p[1] * m + p[3], p[2]) + p[4]
        [] cand.kind = "valuation_shift" -> Valuation(m + p[2], p[1]) + p[3]

Fits(t, kind, params) ==
  {p \in params : \A k \in DOMAIN t : StructuralValue([kind |-> kind, params |-> p], k - 1) = t[k]}

Top(t) == Max(Range(t))
Clamp(x, low, high) == Min({high, Max({low, x})})

(* The parameters of a family, first the one its outermost loop runs over; *)
(* an offset is what is left of the first term, if that is not negative.   *)
Parameters(t, kind) ==
  CASE kind = "floor_affine" -> {<<d, t[1]>> : d \in 2 .. 10}
    [] kind = "gcd_shift_mod" ->
         UNION {{<<m, s>> : s \in 0 .. m} : m \in 2 .. Clamp(Top(t) + 1, 2, 30)}
    [] kind = "gcd_affine" ->
         UNION {UNION {{<<c, m, s, t[1] - gcd(s, m)>> : s \in {x \in 0 .. m : gcd(x, m) <= t[1]}} :
                         m \in 2 .. Clamp(Top(t) + 8, 2, 40)} : c \in 1 .. 4}
    [] kind = "valuation_shift" ->
         UNION {{<<p, s, t[1] - Valuation(s, p)>> :
                   s \in {x \in 0 .. 7 : Valuation(x, p) <= t[1]}} : p \in {2, 3, 5}}

Families == <<"floor_affine", "gcd_shift_mod", "gcd_affine", "valuation_shift">>

Natural(t) == \A k \in DOMAIN t : t[k] >= 0

StructuralCandidate(t) ==
  LET fits(j) == Fits(t, Families[j], Parameters(t, Families[j]))
      found   == SelectInSeq([j \in DOMAIN Families |-> j], LAMBDA j : fits(j) # {})
  IN  IF Len(t) < 6 \/ ~Natural(t) \/ found = 0 THEN NoCandidate
      ELSE [kind |-> Families[found], params |-> First(fits(found))]

-----------------------------------------------------------------------------
(* a(n + 1) = a(n) * (u n + v) / (w n + z), over the natural numbers.      *)

(* evaluate_holonomic_lite, with -1 for None.                              *)
HolonomicValue(seed, u, v, w, z, m) ==
  LET value[k \in 0 .. m] ==
        IF k = 0 THEN seed
        ELSE LET den == w * (k - 1) + z
                 num == (u * (k - 1) + v) * value[k - 1]
             IN  IF value[k - 1] < 0 \/ den = 0 THEN -1
                 ELSE IF num % den # 0 THEN -1 ELSE num \div den
  IN  value[m]

(* The ratios the training terms ask for; a zero term asks for none.       *)
Samples(train, w, z) ==
  {<<k - 1, (train[k + 1] * (w * (k - 1) + z)) \div train[k]>> :
     k \in {j \in 1 .. Len(train) - 1 : train[j] # 0}}

(* Slip: a zero term rules the parameters out.                             *)
NonzeroSampled(train, w, z) ==
  \A k \in 1 .. Len(train) - 1 :
    /\ w * (k - 1) + z # 0 /\ train[k] # 0
    /\ (train[k + 1] * (w * (k - 1) + z)) % train[k] = 0
Sampled(train, w, z) ==
  \A k \in 1 .. Len(train) - 1 :
    LET scaled == train[k + 1] * (w * (k - 1) + z)
    IN  /\ w * (k - 1) + z # 0
        /\ IF train[k] = 0 THEN scaled = 0 ELSE scaled % train[k] = 0

(* _fit_linear_samples: two samples determine u and v, one only v.         *)
LinearFits(samples, u, v) ==
  /\ \A s \in samples : u * s[1] + v = s[2]
  /\ Cardinality(samples) = 1 => u = 0

Coefficients ==
  LET Bounded == 0 .. ParameterBound
  IN  [u : Bounded, v : Bounded, w : Bounded, z : Bounded]

HolonomicCandidate(t) ==
  LET held  == Clamp(HoldoutTerms, 0, Len(t) - 3)
      train == SubSeq(t, 1, Len(t) - held)
      good  == {q \in Coefficients :
                  /\ q.w + q.z > 0
                  /\ Sampled(train, q.w, q.z)
                  /\ Samples(train, q.w, q.z) # {}
                  /\ LinearFits(Samples(train, q.w, q.z), q.u, q.v)
                  /\ \A k \in DOMAIN train :
                       HolonomicValue(t[1], q.u, q.v, q.w, q.z, k - 1) = train[k]}
      p == CHOOSE x \in good : \A y \in good : Lexicographic(<<x.w, x.z>>, <<y.w, y.z>>) \/ x = y
  IN  IF Len(t) < 8 \/ ~Natural(t) \/ Len(train) < 4 \/ good = {} THEN NoCandidate
      ELSE [kind |-> "holonomic_lite", seed |-> t[1],
            u |-> p.u, v |-> p.v, w |-> p.w, z |-> p.z,
            holdoutPassed |-> \A k \in Len(train) + 1 .. Len(t) :
              HolonomicValue(t[1], p.u, p.v, p.w, p.z, k - 1) = t[k]]

Fit ==
  /\ consensus.accepted /\ holonomic = Unfitted
  /\ structural' = StructuralCandidate(consensus.trace)
  /\ holonomic' = HolonomicCandidate(consensus.trace)
  /\ UNCHANGED <<offer, prefixTerms, minSize, arrived, consensus>>

DiscoveryNext == (\E s \in DOMAIN offer : Arrive(s)) \/ SelectConsensus \/ Fit

DiscoverySpec == DiscoveryInit /\ [][DiscoveryNext]_discoveryVars

-----------------------------------------------------------------------------
(* The Lean definitions the two emit. *)

(* Slip: the loop of vPow is given a fixed amount of fuel.                 *)
FixedFuel(m) == 3
Fuel(m) == m + 1

VPow(p, m) ==
  LET go[fuel \in Nat] == [x \in Nat |-> [acc \in Nat |->
        IF fuel = 0 \/ x = 0 \/ x % p # 0 THEN acc ELSE go[fuel - 1][x \div p][acc + 1]]]
  IN  IF p <= 1 THEN 0 ELSE go[Fuel(m)][m][0]

LeanFit(cand, m) ==
  CASE cand.kind = "holonomic_lite" ->
         LET build[k \in 0 .. m] ==
               IF k = 0 THEN cand.seed
               ELSE LET den == cand.w * (k - 1) + cand.z
                    IN  IF den = 0 THEN 0
                        ELSE ((cand.u * (k - 1) + cand.v) * build[k - 1]) \div den
         IN  build[m]
    [] cand.kind = "valuation_shift" ->
         VPow(cand.params[1], m + cand.params[2]) + cand.params[3]
    [] OTHER -> StructuralValue(cand, m)

-----------------------------------------------------------------------------
Group(s) == {r \in DOMAIN offer : ClusterKey(offer[r]) = ClusterKey(offer[s])}
Largest  == {s \in DOMAIN offer : \A r \in DOMAIN offer : Cardinality(Group(r)) <= Cardinality(Group(s))}
Shared(s) ==
  LET Common(k) == \A r \in Group(s) : IsPrefix(SubSeq(offer[s], 1, k), offer[r])
  IN  SubSeq(offer[s], 1, Max({k \in 0 .. Len(offer[s]) : Common(k)}))

(* In whatever order the samples arrive, the consensus is what a largest   *)
(* group of sources that agree on their leading terms all report, and it   *)
(* is accepted if and only if that is something and the group is of the    *)
(* required size: order can only decide between groups of the same size,   *)
(* and not at all when the required size is a majority.                    *)
ConsensusDetermined ==
  consensus.selected =>
    \/ offer = <<>> /\ ~consensus.accepted
    \/ \E s \in Largest :
         /\ consensus.trace = Shared(s)
         /\ consensus.accepted <=> Cardinality(Group(s)) >= minSize /\ Shared(s) # <<>>

(* Every emitted Lean definition takes the value of every term it was      *)
(* judged by, and what evaluate_candidate_at says of it beyond the trace,  *)
(* where that says anything.                                               *)
FitsReproduceTrace ==
  LET t == consensus.trace
      beyond == 0 .. Len(t) + 2
  IN  /\ Found(structural) =>
           /\ \A k \in DOMAIN t : LeanFit(structural, k - 1) = t[k]
           /\ \A m \in beyond : LeanFit(structural, m) = StructuralValue(structural, m)
      /\ Found(holonomic) =>
           /\ \A k \in 1 .. Len(t) - Clamp(HoldoutTerms, 0, Len(t) - 3) : LeanFit(holonomic, k - 1) = t[k]
           /\ holonomic.holdoutPassed => \A k \in DOMAIN t : LeanFit(holonomic, k - 1) = t[k]
           /\ \A m \in beyond :
                LET x == HolonomicValue(holonomic.seed, holonomic.u, holonomic.v, holonomic.w, holonomic.z, m)
                IN  x >= 0 => LeanFit(holonomic, m) = x

(* The search loses no recurrence: when any parameters within the bound    *)
(* give the terms of a trace that does not begin with zero, also one that  *)
(* reaches zero, and enough terms are left to train on, some are found.    *)
HolonomicComplete ==
  LET t == consensus.trace
      train == Len(t) - Clamp(HoldoutTerms, 0, Len(t) - 3)
  IN  (holonomic = NoCandidate /\ Len(t) >= 8 /\ Natural(t) /\ t[1] # 0 /\ train >= 4) =>
        ~ \E u, v, w, z \in 0 .. ParameterBound :
            \A k \in DOMAIN t : HolonomicValue(t[1], u, v, w, z, k - 1) = t[k]
=============================================================================
