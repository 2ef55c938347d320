--------------------------- MODULE MCComputeJobs ---------------------------
(***************************************************************************)
(* Small instances of the compute jobs and of the registry of algorithms   *)
(* for TLC.  They share no variable, so each is explored with the other at *)
(* rest in one of its initial states.  The registry's two operators are    *)
(* the two handlers' model values, which are alike in both.                *)
(***************************************************************************)
EXTENDS ComputeJobs, Registry, TLC

CONSTANTS a1, m1

MCAsks == {[key |-> NoKey, review |-> TRUE, dp |-> TRUE]}
          \cup {[key |-> k, review |-> FALSE, dp |-> FALSE] : k \in Keys}

MCReviews == {[status |-> "approved", trusted |-> TRUE],
              [status |-> "approved", trusted |-> FALSE],
              [status |-> "pending", trusted |-> FALSE]}
MCOffers  == {[trust |-> "L1", enabled |-> TRUE, allow |-> {}],
              [trust |-> "L2", enabled |-> TRUE, allow |-> {a1}]}

VARIABLE machine

AtRest == /\ algo \in [Algos -> {[status |-> "approved", trusted |-> TRUE]}]
          /\ offer = [trust |-> "L1", enabled |-> TRUE, allow |-> {}] /\ tee = TRUE

MCInit == /\ machine \in {"jobs", "registry"}
          /\ machine = "jobs" => AtRest
          /\ Init /\ RegistryInit

MCNext == /\ UNCHANGED machine
          /\ \/ machine = "jobs" /\ Next /\ UNCHANGED registryVars
             \/ machine = "registry" /\ RegistryNext /\ UNCHANGED vars

MCSpec == MCInit /\ [][MCNext]_<<machine, vars, registryVars>>

Symmetry == Permutations(Handlers) \cup Permutations(Workers) \cup Permutations(Jobs)
=============================================================================
