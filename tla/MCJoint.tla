------------------------------- MODULE MCJoint -------------------------------
(***************************************************************************)
(* Small instances of the joint computation's machines for TLC.  They      *)
(* share no variable, so each is explored with the others at rest in one   *)
(* of their initial states.  A federated behaviour has one fault.          *)
(***************************************************************************)
EXTENDS Federated, Intersection, Aggregation, OutputGate, Results, TLC

CONSTANTS e1, e2

MCLists == {<<>>, <<e1>>, <<e1, e1>>, <<e2, e1>>}

MCWeights   == {-5, 1, 5}
MCSamples   == {-1, 1, 3}
MCMasks     == {-1, 2}
MCPartySets == {1 .. 2, 1 .. 3}

(***************************************************************************)
(* Outputs for the gate: objects of up to four values, whose leaves are a  *)
(* long and a short string, a number, an empty object or array, and whose  *)
(* members have all one name or each its own; archives of two files; and   *)
(* what is not an object, not JSON, too large or followed by other text.   *)
(***************************************************************************)
Leaves == {[kind |-> "string", len |-> 2, dense |-> FALSE], [kind |-> "string", len |-> 1, dense |-> TRUE],
           [kind |-> "number", len |-> 0, dense |-> FALSE],
           [kind |-> "object", len |-> 0, dense |-> FALSE],
           [kind |-> "array",  len |-> 0, dense |-> FALSE]}
Secretive == [kind |-> "string", len |-> 2, dense |-> TRUE]

Value(l, parent) == [kind |-> l.kind, len |-> l.len, dense |-> l.dense, parent |-> parent,
                     key |-> 1, name |-> 1]
Root(k)          == [kind |-> k, len |-> 0, dense |-> FALSE, parent |-> 0, key |-> 0, name |-> 0]
\* The tree with each node's own name.
Distinct(t)      == [n \in 1 .. Len(t) |-> [t[n] EXCEPT !.name = n]]

Holds(t) == \A n \in 2 .. Len(t) : t[t[n].parent].kind \in {"object", "array"}
Trees(n) ==
  {t \in {<<Root(k)>> \o v : k \in {"object", "array"},
                              v \in [1 .. n - 1 -> {Value(l, p) : l \in Leaves \cup {Secretive},
                                                                  p \in 1 .. n - 1}]} :
     (\A m \in 2 .. n : t[m].parent < m) /\ Holds(t)}

File(json, parses, rest, size, t) ==
  [json |-> json, parses |-> parses, rest |-> rest, size |-> size, tree |-> t]
Single(bytes, parses, rest, t) ==
  [zip |-> FALSE, bytes |-> bytes, files |-> <<File(TRUE, parses, rest, bytes, t)>>]
Archive(fs)              == [zip |-> TRUE, bytes |-> 1, files |-> fs]
Small == <<Root("object"), Value([kind |-> "string", len |-> 2, dense |-> FALSE], 1)>>

Good == File(TRUE, TRUE, "none", 1, Small)
Rests == {"none", "closing", "more"}

MCOutputs ==
  {Single(1, TRUE, "none", Distinct(t)) : t \in Trees(4)}
  \cup {Single(1, TRUE, "none", t) : t \in Trees(4)}
  \cup {Single(b, p, r, <<Root(k)>>) :
          b \in {1, 4}, p \in BOOLEAN, r \in Rests, k \in {"object", "null", "number"}}
  \cup {Archive(<<>>), Archive(<<Good, Good, Good>>)}
  \cup {Archive(<<File(TRUE, TRUE, "none", 1, Distinct(t)), File(j, p, r, n, Small)>>) :
          t \in Trees(3), j \in BOOLEAN, p \in BOOLEAN, r \in Rests, n \in {1, 3}}

VARIABLE machine

MCVars == <<machine, fedVars, psiVars, aggregationVars, gateVars, resultVars>>

\* What a machine at rest starts with is given first.
Init ==
  /\ machine \in {"federated", "psi", "model", "gate", "results"}
  /\ IF machine = "gate" THEN TRUE ELSE output = Archive(<<>>)
  /\ GateInit
  /\ mode \in IF machine = "federated" THEN {"federated", "psi"} ELSE {"psi"}
  /\ list \in [Party -> IF machine = "psi" THEN Lists ELSE {<<>>}]
  /\ cohort \in IF machine = "model" THEN PartySets ELSE {1 .. 2}
  /\ weight \in [cohort -> IF machine = "model" THEN Weights ELSE {1}]
  /\ samples \in [cohort -> IF machine = "model" THEN Samples ELSE {1}]
  /\ pairMask \in [Pairs(cohort) -> IF machine = "model" THEN Masks ELSE {2}]
  /\ IF machine = "results" THEN TRUE ELSE result = "job"
  /\ ResultsInit
  /\ FederatedInit /\ IntersectionInit /\ AggregationInit

Next ==
  /\ UNCHANGED machine
  /\ \/ /\ machine = "federated" /\ FederatedNext /\ ~(disturbed /\ FedFaults)
        /\ UNCHANGED <<psiVars, aggregationVars, gateVars, resultVars>>
     \/ /\ machine = "psi" /\ IntersectionNext
        /\ UNCHANGED <<fedVars, aggregationVars, gateVars, resultVars>>
     \/ /\ machine = "model" /\ AggregationNext
        /\ UNCHANGED <<fedVars, psiVars, gateVars, resultVars>>
     \/ /\ machine = "gate" /\ GateNext
        /\ UNCHANGED <<fedVars, psiVars, aggregationVars, resultVars>>
     \/ /\ machine = "results" /\ ResultsNext
        /\ UNCHANGED <<fedVars, psiVars, aggregationVars, gateVars>>

Spec == Init /\ [][Next]_MCVars /\ FederatedFairness
=============================================================================
