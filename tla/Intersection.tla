---------------------------- MODULE Intersection ----------------------------
(***************************************************************************)
(* Private set intersection of a joint job.  The orchestrator of           *)
(* psi_transport.go drives two rounds over HTTP: each party blinds its own *)
(* list, each list is raised by every other party, and the first party     *)
(* labels the points all lists share.  A party server keeps its list and   *)
(* its secret in memory: started again, it draws another secret.           *)
(*                                                                         *)
(* A point is an element and the set of secrets that raised it: exponents  *)
(* commute, and the hash and the exponentiation are taken for injective.   *)
(* A secret is named by its party and how often that party has started.    *)
(***************************************************************************)
EXTENDS Integers, Sequences, FiniteSets, Functions

CONSTANTS PartyCount,   \* parties 1 .. PartyCount
          Lists,        \* the lists a party may hold: an element may be repeated
          MaxRestarts

ASSUME IntersectionAssumption ==
  /\ PartyCount \in Nat \ {0, 1} /\ MaxRestarts \in Nat
  /\ \A l \in Lists : Len(l) \in Nat /\ DOMAIN l = 1 .. Len(l)

Party == 1 .. PartyCount

VARIABLES list, secret,   \* of each party server
          points,         \* the orchestrator: the blinded list of each party
          psiStage, from, via, \* the next request: list `from` through party `via`
          match, found    \* the indices to label, the elements labelled

psiVars == <<list, secret, points, psiStage, from, via, match, found>>

Secrets == Party \X (0 .. MaxRestarts)

IntersectionInit ==
  /\ list \in [Party -> Lists] /\ secret = [p \in Party |-> 0]
  /\ points = [p \in Party |-> <<>>]
  /\ psiStage = "round1" /\ from = 1 /\ via = 1
  /\ match = {} /\ found = {}

Blind(pts, p) == [i \in DOMAIN pts |-> [pts[i] EXCEPT !.by = @ \cup {<<p, secret[p]>>}]]
Hashed(p)     == [i \in DOMAIN list[p] |-> [elem |-> list[p][i], by |-> {}]]

Round1 ==
  /\ psiStage = "round1"
  /\ points' = [points EXCEPT ![from] = Blind(Hashed(from), from)]
  /\ IF from < PartyCount THEN from' = from + 1 /\ UNCHANGED psiStage
                          ELSE from' = 1 /\ psiStage' = "reblind"
  /\ UNCHANGED <<list, secret, via, match, found>>

Keys(p) == Range(points[p])

\* Mutant: the points in any other party's list match.
MatchesAny(i) == \E p \in Party \ {1} : points[1][i] \in Keys(p)

\* The first party's points that every other list has, each the first of its kind.
Matches(i) == /\ \A p \in Party \ {1} : points[1][i] \in Keys(p)
              /\ \A k \in 1 .. i - 1 : points[1][k] # points[1][i]

\* Each list through every party but its own, one list after the other.
Reblind ==
  /\ psiStage = "reblind"
  /\ points' = IF via = from THEN points ELSE [points EXCEPT ![from] = Blind(@, via)]
  /\ IF via < PartyCount THEN via' = via + 1 /\ UNCHANGED <<from, psiStage>>
     ELSE /\ via' = 1
          /\ IF from < PartyCount THEN from' = from + 1 /\ UNCHANGED psiStage
                                  ELSE psiStage' = "match" /\ UNCHANGED from
  /\ UNCHANGED <<list, secret, match, found>>

MatchPoints ==
  /\ psiStage = "match"
  /\ match' = {i \in DOMAIN points[1] : Matches(i)}
  /\ psiStage' = "label"
  /\ UNCHANGED <<list, secret, points, from, via, found>>

Label == /\ psiStage = "label"
         /\ found' = {list[1][i] : i \in match}
         /\ psiStage' = "done"
         /\ UNCHANGED <<list, secret, points, from, via, match>>

\* A request fails: the caller gets an error and no result.
PsiError == /\ psiStage \notin {"match", "done", "failed"}
            /\ psiStage' = "failed"
            /\ UNCHANGED <<list, secret, points, from, via, match, found>>

PartyRestarts(p) == /\ psiStage \notin {"done", "failed"} /\ secret[p] < MaxRestarts
                    /\ secret' = [secret EXCEPT ![p] = @ + 1]
                    /\ UNCHANGED <<list, points, psiStage, from, via, match, found>>

IntersectionNext == \/ Round1 \/ Reblind \/ MatchPoints \/ Label \/ PsiError
                    \/ \E p \in Party : PartyRestarts(p)

IntersectionSpec == IntersectionInit /\ [][IntersectionNext]_psiVars

-----------------------------------------------------------------------------
(***************************************************************************)
(* The orchestrators that run in one process.                              *)
(***************************************************************************)
\* mockMPC: the elements as many parties hold as there are parties.
Mock == {e \in UNION {Range(list[p]) : p \in Party} :
           Cardinality({p \in Party : e \in Range(list[p])}) = PartyCount}

\* ddhPSI: every list raised by every secret at once, the first party's elements
\* whose point all others have.
Ddh == LET Point(e)   == [elem |-> e, by |-> {<<p, secret[p]>> : p \in Party}]
           Blinded(p) == {Point(list[p][i]) : i \in DOMAIN list[p]}
       IN  {e \in Range(list[1]) : \A p \in Party \ {1} : Point(e) \in Blinded(p)}

\* runTwoRoundPSI: both rounds without the transport, labelled by index.
TwoRound == LET Fully(p) == [i \in DOMAIN list[p] |->
                               [elem |-> list[p][i], by |-> {<<q, secret[q]>> : q \in Party}]]
                Hit(i) == /\ \A p \in Party \ {1} : Fully(1)[i] \in Range(Fully(p))
                          /\ \A k \in 1 .. i - 1 : Fully(1)[k] # Fully(1)[i]
            IN  {list[1][i] : i \in {j \in DOMAIN list[1] : Hit(j)}}

Common == {e \in Range(list[1]) : \A p \in Party : e \in Range(list[p])}

-----------------------------------------------------------------------------
\* Every variable has its type.
IntersectionTypeOK ==
  /\ list \in [Party -> Lists] /\ secret \in [Party -> 0 .. MaxRestarts]
  /\ \A p \in Party : /\ DOMAIN points[p] \subseteq DOMAIN list[p]
                      /\ \A i \in DOMAIN points[p] : points[p][i].by \subseteq Secrets
  /\ psiStage \in {"round1", "reblind", "match", "label", "done", "failed"}
  /\ from \in Party /\ via \in Party /\ match \subseteq DOMAIN list[1]

\* psi_transport.go: unless a party was started again on the way, the result is the
\* intersection, an element for each index; with restarts it is never wider.
IntersectionExact ==
  psiStage = "done" =>
     /\ found \subseteq Common
     /\ (\A p \in Party : secret[p] = 0) => found = Common
     /\ Cardinality(match) = Cardinality(found)

\* psi_transport.go:22: the orchestrator only ever holds blinded points: each was
\* raised by the party it came from, and none is compared before all have raised it.
OnlyBlinded ==
  \A p \in Party : \A i \in DOMAIN points[p] :
     /\ \E n \in 0 .. MaxRestarts : <<p, n>> \in points[p][i].by
     /\ psiStage \in {"match", "label", "done"} => {s[1] : s \in points[p][i].by} = Party

\* The orchestrators in one process agree (psi_ddh_test.go's anchor).
OrchestratorsAgree == Mock = Common /\ Ddh = Common /\ TwoRound = Common

\* What the intersection says and what it keeps to the parties, together.
IntersectionInv == IntersectionTypeOK /\ IntersectionExact /\ OnlyBlinded /\ OrchestratorsAgree
=============================================================================
