---------------------------- MODULE Aggregation ----------------------------
(***************************************************************************)
(* The joint model of a federated job: the weighted mean of the parties'   *)
(* parameters (aggregator.go), the same from masked contributions          *)
(* (secagg.go), and the clipped mean whose noise is scaled to one party's  *)
(* influence (dp.go).                                                      *)
(*                                                                         *)
(* A model is one of its coordinates: each parameter and the intercept is  *)
(* masked, clipped, averaged and noised apart from the others, with one    *)
(* noise scale for all, so what is said is said of one coordinate and not  *)
(* of the model's dim + 1 together.  A mean is kept as the sum over the    *)
(* total sample count, which all three divide by last, so that numbers     *)
(* stay whole: floating point rounding is not modelled.  A party reports   *)
(* its sample count itself, and a negative one is not refused.  The        *)
(* partials and masks are inputs, chosen once; the parties' keys and masks *)
(* are drawn before the masked contributions are sent, one party after the *)
(* other.                                                                  *)
(***************************************************************************)
EXTENDS Integers, FiniteSets, Functions

CONSTANTS Weights, Samples,  \* the parameter and the sample count a party may report
          Masks,             \* values of a pair's shared mask
          PartySets,         \* cohorts 1 .. n
          Clip               \* defaultDPClip

ASSUME AggregationAssumption == Weights \subseteq Int /\ Samples \subseteq Int
                                /\ Masks \subseteq Int /\ Clip \in Nat \ {0}
                                /\ \A c \in PartySets : IsFiniteSet(c) /\ c \subseteq Nat

VARIABLES cohort,
          weight, samples, \* each party's local model
          pairMask,        \* the mask of each pair, from its ECDH secret
          sent,            \* masked contributions the aggregator has
          model            \* what MaskedSumAggregator released: a sum and the total, or <<>>

aggregationVars == <<cohort, weight, samples, pairMask, sent, model>>

Pairs(c) == {pq \in c \X c : pq[1] < pq[2]}

AggregationInit ==
  /\ cohort \in PartySets
  /\ weight \in [cohort -> Weights] /\ samples \in [cohort -> Samples]
  /\ pairMask \in [Pairs(cohort) -> Masks]
  /\ sent = [p \in {} |-> 0] /\ model = <<>>

Total(n) == SumFunctionOnSet(n, cohort)

\* FedAvgAggregator: the sample-weighted sum, over the total.
FedAvg == SumFunctionOnSet([p \in cohort |-> samples[p] * weight[p]], cohort)

\* Mutant: every party adds its masks.
MaskAdded(p) ==
  samples[p] * weight[p]
    + SumFunctionOnSet([q \in cohort \ {p} |-> pairMask[IF p < q THEN <<p, q>> ELSE <<q, p>>]], cohort \ {p})

\* secAggParty.mask: the lower index of a pair adds its mask, the higher one subtracts it.
Mask(p) ==
  samples[p] * weight[p]
    + SumFunctionOnSet([q \in cohort \ {p} |-> IF p < q THEN pairMask[<<p, q>>] ELSE -pairMask[<<q, p>>]],
              cohort \ {p})

SendMasked(p) ==
  /\ p \notin DOMAIN sent /\ model = <<>>
  /\ sent' = [q \in DOMAIN sent \cup {p} |-> IF q = p THEN Mask(p) ELSE sent[q]]
  /\ UNCHANGED <<cohort, weight, samples, pairMask, model>>

\* MaskedSumAggregator: it is called with the cohort's contributions, and refuses a
\* total of no samples.
MaskedSum ==
  /\ DOMAIN sent = cohort /\ model = <<>> /\ Total(samples) > 0
  /\ model' = <<SumFunctionOnSet(sent, cohort), Total(samples)>>
  /\ UNCHANGED <<cohort, weight, samples, pairMask, sent>>

AggregationNext == MaskedSum \/ \E p \in cohort : SendMasked(p)

AggregationSpec == AggregationInit /\ [][AggregationNext]_aggregationVars

Clamp(x) == IF x > Clip THEN Clip ELSE IF x < -Clip THEN -Clip ELSE x

\* dpFedAvg before the noise: the sum of clipped parameters, over the total.
Clipped(w, n) == SumFunctionOnSet([p \in cohort |-> n[p] * Clamp(w[p])], cohort)

\* dpFedAvg's sensitivity times the total, from the counts reported.
Sensitivity(n) ==
  LET counts == {0} \cup Range(n)
  IN  2 * Clip * CHOOSE most \in counts : \A m \in counts : most >= m

-----------------------------------------------------------------------------
\* Every variable has its type.
AggregationTypeOK ==
  /\ cohort \in PartySets /\ weight \in [cohort -> Weights] /\ samples \in [cohort -> Samples]
  /\ DOMAIN sent \subseteq cohort /\ \A p \in DOMAIN sent : sent[p] \in Int
  /\ model # <<>> => model[2] > 0

\* secagg.go: the pairwise masks cancel, so the joint model from masked
\* contributions is the one FedAvg computes in the clear.
MasksCancel == model # <<>> => model = <<FedAvg, Total(samples)>>

\* dp.go:85: whatever one party reports instead, parameter and sample count, within
\* or beyond the clip, a coordinate of the clipped mean moves by no more than the
\* larger of the sensitivities the noise of the two reports is scaled to, as long as
\* no count is negative.  (Means compare as their sums times the other's total.)
NoiseCoversReport ==
  \A p \in cohort, x \in Weights, n \in Samples \cap Nat :
     LET other == [samples EXCEPT ![p] = n]
         moved == Clipped([weight EXCEPT ![p] = x], other) * Total(samples)
                    - Clipped(weight, samples) * Total(other)
         limits == {Sensitivity(samples) * Total(other), Sensitivity(other) * Total(samples)}
     IN  (\A q \in cohort : samples[q] >= 0) /\ Total(samples) > 0 /\ Total(other) > 0
           => \E most \in limits : -most <= moved /\ moved <= most

\* What the joint model is made of and what hides each party in it, together.
AggregationInv == AggregationTypeOK /\ MasksCancel /\ NoiseCoversReport
=============================================================================
