---------------------------- MODULE JointProofs -----------------------------
(***************************************************************************)
(* The joint computation, for any parties, algorithms, operators, readers  *)
(* and outputs.                                                            *)
(*                                                                         *)
(* Federated: one call decides the parent and gives no credit back twice,  *)
(* and none that bought nothing is kept.  FederatedIInv says where every   *)
(* call may be while the parent has each status, and what each credit's    *)
(* numbers are then.                                                       *)
(*                                                                         *)
(* Registry: what the reviews, the offer and the runner let through.       *)
(*                                                                         *)
(* Results: whoever reads while the workers, the reviewer and the          *)
(* registration move, only the buyer gets released bytes, and certificate, *)
(* download and registry agree.  ResultsInv is inductive.                  *)
(*                                                                         *)
(* Aggregation: the masks of a cohort cancel, any subset of the parties at *)
(* a time, so what is added up is the model of them all; one report more   *)
(* or less far from another is weighed against the larger sensitivity.     *)
(*                                                                         *)
(* Intersection: all points of one list were raised by the same secrets,   *)
(* and Raised says whose, so equal points are equal elements.              *)
(*                                                                         *)
(* OutputGate: the set of nodes visited has the tally's sums and is all of *)
(* the files walked and all but what is left of this one: Walked and       *)
(* Tallied.                                                                *)
(***************************************************************************)
EXTENDS Federated, Registry, Results, Aggregation, Intersection,
        OutputGate, Sums

\* Where a call is that has decided the parent, and where the submitter is that
\* has not finished sending.
Deciding   == {"refundDropouts", "refundAll", "aggregate", "failAggregate", "release", "charge"}
Submitting == {"spend", "create", "giveBack", "failFanout"}

\* Every sub-job is settled; enough survived; the joint output is theirs to share.
Settled == \A d \in Parties : sub[d] \in {"released", "dropped"}
Enough  == Cardinality(Survivors) >= MinParticipants
Shared  == fed \in {"aggregating", "released"}

\* Where each call is follows the parent's status.
InPhase ==
  /\ \A p, q \in FedProcs : fpc[p] \in Deciding /\ fpc[q] \in Deciding => p = q
  /\ \A p \in FedProcs :
       /\ fpc[p] \in {"refundDropouts", "aggregate", "failAggregate", "release"} => fed = "aggregating"
       /\ fpc[p] = "refundAll" => fed = "failed" \/ (fed = "created" /\ p = Submitter)
       /\ fpc[p] = "charge" => fed = "released"
       /\ fpc[p] = "release" => stored
       /\ fpc[p] \in {"list", "take", "fail"} => fed \notin {"none", "created"}
       /\ fpc[p] \in {"take", "fail"} => Settled
       /\ fpc[p] = "take" => Enough
       /\ fpc[p] = "fail" => ~Enough
       /\ fpc[p] \in Submitting => p = Submitter /\ fed = "created"
       /\ fed = "none" => fpc[p] = "idle"
  /\ fed = "none" => \A d \in Parties : sub[d] = "none"
  /\ Shared => Settled /\ Enough
  /\ fed = "released" => stored

\* The coordinator has not given the credit back: at most the sub-job's own worker has.
Unreturned(d) == back[d] = IF d \in early THEN 1 ELSE 0

\* The credits: what is spent, what is owed, and what was given back.
Credits ==
  /\ \A d \in Parties : /\ Unreturned(d) \/ back[d] = IF d \in early THEN 2 ELSE 1
                        /\ d \in early => sub[d] = "dropped" /\ fpc[d] = "done"
                        /\ fpc[d] = "reread" => sub[d] = "dropped"
                        /\ sub[d] # "none" => jobsUsed[d] = 2 - back[d]
                        /\ sub[d] = "none" => jobsUsed[d] >= 1
                        /\ Shared /\ sub[d] = "released" => back[d] = 0
  /\ fpc[Submitter] \in {"idle", "spend"} => target = NoParty
  /\ fpc[Submitter] \in {"create", "giveBack"} =>
       /\ target \in Parties /\ sub[target] = "none"
       /\ jobsUsed[target] = 2 /\ back[target] = 0
  /\ fpc[Submitter] \in {"idle", "spend", "create"} =>
       \A d \in Parties : sub[d] = "none" /\ d # target => jobsUsed[d] = 1 /\ back[d] = 0
  /\ fed = "fanout" \/ fpc[Submitter] \in Submitting =>
       \A d \in Parties : sub[d] # "none" => Unreturned(d)
  /\ \A p \in FedProcs : \A d \in todo[p] :
       /\ fpc[p] \in {"refundDropouts", "refundAll"} => sub[d] # "none" /\ Unreturned(d)
       /\ fpc[p] = "refundDropouts" => sub[d] = "dropped"

\* A credit given back, or whose refund a fault lost; one a call has yet to refund.
Spared(d) == back[d] >= 1 \/ d \in faults
OwedBySome(d) == \E p \in FedProcs : fpc[p] \in {"refundDropouts", "refundAll"} /\ d \in todo[p]

\* Every credit that bought nothing is given back, lost to a fault, or owed.
Accounted ==
  /\ Shared => \A d \in Parties : sub[d] = "dropped" => Spared(d) \/ OwedBySome(d)
  /\ fed = "failed" => \A d \in Parties : sub[d] # "none" => Spared(d) \/ OwedBySome(d)

\* The privacy charges: of the survivors for the joint output, of a sub-job for its own.
Charges ==
  /\ \A d \in Parties : /\ spent[d] \in {0, 1} /\ (spent[d] # 0 => d \in Private)
                        /\ fpc[d] \in {"idle", "run"} => spent[d] = 0
                        /\ d \in Private /\ (fpc[d] = "spent" \/ sub[d] = "released") => spent[d] = 1
  /\ \A d \in Parties : charged[d] <= 1
  /\ \A d \in Parties : charged[d] # 0 => fed = "released" /\ sub[d] = "released"
  /\ \A p \in FedProcs : fpc[p] = "charge" => \A d \in todo[p] : charged[d] = 0 /\ sub[d] = "released"

\* FederatedInv made inductive.
FederatedIInv == FederatedTypeOK /\ InPhase /\ Credits /\ Accounted /\ Charges

\* Every step keeps the types: a credit given back was spent.
LEMMA FedType == FederatedIInv /\ [FederatedNext]_fedVars => FederatedTypeOK'
<1> SUFFICES ASSUME FederatedIInv, [FederatedNext]_fedVars PROVE FederatedTypeOK'
  OBVIOUS
<1> USE FederatedAssumption DEF FederatedIInv, FederatedTypeOK, FedProcs, FAt, FGoto, fedRows,
        fedHist, ledger, InPhase, Deciding, Submitting, Settled, Shared, Credits, Unreturned, FedStatus, SubStatus,
        FedPc, Charges
<1>1. CASE CreateFederatedJob
  BY <1>1 DEF CreateFederatedJob
<1>2. CASE SubSpend
  <2>1. CASE FGoto(Submitter, "failFanout") /\ UNCHANGED <<target, jobsUsed>>
    BY <1>2, <2>1 DEF SubSpend
  <2>2. ASSUME NEW d \in Parties \ Created, target' = d, jobsUsed' = [jobsUsed EXCEPT ![d] = @ + 1],
               FGoto(Submitter, "create")
        PROVE  FederatedTypeOK'
    <3>1. jobsUsed[d] = 1
      BY <1>2, <2>2 DEF SubSpend, Created
    <3>2. jobsUsed' \in [Parties -> 0 .. 2]
      BY <2>2, <3>1
    <3> QED
      BY <1>2, <2>2, <3>2 DEF SubSpend
  <2> QED
    BY <1>2, <2>1, <2>2 DEF SubSpend
<1>3. CASE SubCreate
  <2>1. target \in Parties /\ fpc' \in [FedProcs -> FedPc] /\ sub' \in [Parties -> SubStatus]
    BY <1>3 DEF SubCreate
  <2>2. channel' \subseteq Parties /\ target' \in Parties \cup {NoParty}
    BY <1>3, <2>1 DEF SubCreate
  <2>3. disturbed' = TRUE \/ disturbed' = disturbed
    BY <1>3 DEF SubCreate
  <2>4. disturbed' \in BOOLEAN
    BY <2>3
  <2> QED
    BY <1>3, <2>1, <2>2, <2>4 DEF SubCreate
<1>4. CASE SubGiveBack
  BY <1>4 DEF SubGiveBack, GiveBack
<1>5. CASE FailFanout
  BY <1>5 DEF FailFanout, Created
<1>6. CASE StartFanout
  BY <1>6 DEF StartFanout, Created
<1>7. ASSUME NEW d \in Parties, ClaimSub(d) PROVE FederatedTypeOK'
  BY <1>7 DEF ClaimSub
<1>8. ASSUME NEW d \in Parties, ReleaseSub(d) \/ RejectSub(d) \/ FailSub(d) PROVE FederatedTypeOK'
  BY <1>8 DEF ReleaseSub, RejectSub, FailSub, EndSub
<1>9. ASSUME NEW p \in FedProcs, ReadParent(p) PROVE FederatedTypeOK'
  BY <1>9 DEF ReadParent
<1>10. ASSUME NEW p \in FedProcs, ListSubJobs(p) PROVE FederatedTypeOK'
  BY <1>10 DEF ListSubJobs, Enough, Survivors, Dropouts
<1>11. ASSUME NEW p \in FedProcs, TransitionFederated(p) PROVE FederatedTypeOK'
  BY <1>11 DEF TransitionFederated, Dropouts
<1>12. ASSUME NEW p \in FedProcs, FailFederated(p) PROVE FederatedTypeOK'
  BY <1>12 DEF FailFederated, Survivors
<1>13. ASSUME NEW p \in FedProcs, RefundOne(p) PROVE FederatedTypeOK'
  BY <1>13 DEF RefundOne, Refunding, GiveBack
<1>14. ASSUME NEW p \in FedProcs, RefundFails(p) PROVE FederatedTypeOK'
  BY <1>14 DEF RefundFails, Refunding
<1>15. ASSUME NEW p \in FedProcs, RefundDone(p) PROVE FederatedTypeOK'
  BY <1>15 DEF RefundDone, Refunding
<1>16. ASSUME NEW p \in FedProcs, Aggregate(p) \/ AggregatePSI(p) PROVE FederatedTypeOK'
  <2>1. PICK l \in {"release", "failAggregate"} : FGoto(p, l)
    BY <1>16 DEF Aggregate, AggregatePSI, Combine
  <2>2. stored' \in BOOLEAN
    BY <1>16 DEF Aggregate, AggregatePSI, Combine
  <2>3. fpc' \in [FedProcs -> FedPc]
    BY <2>1
  <2> QED
    BY <1>16, <2>2, <2>3 DEF Aggregate, AggregatePSI, Combine
<1>17. ASSUME NEW p \in FedProcs, ReleaseFederated(p) PROVE FederatedTypeOK'
  BY <1>17 DEF ReleaseFederated, Survivors
<1>18. ASSUME NEW p \in FedProcs, ChargeSurvivors(p) PROVE FederatedTypeOK'
  BY <1>18 DEF ChargeSurvivors
<1>19. ASSUME NEW d \in Parties, ReclaimSub(d) PROVE FederatedTypeOK'
  BY <1>19 DEF ReclaimSub
<1>20. ASSUME NEW p \in FedProcs, FedStop(p) PROVE FederatedTypeOK'
  BY <1>20 DEF FedStop, Created
<1>23. ASSUME NEW d \in Parties, SpendOwn(d) PROVE FederatedTypeOK'
  BY <1>23 DEF SpendOwn
<1>24. ASSUME NEW d \in Parties, RereadRejected(d) PROVE FederatedTypeOK'
  BY <1>24 DEF RereadRejected
<1>25. ASSUME NEW d \in Parties, RereadFails(d) PROVE FederatedTypeOK'
  BY <1>25 DEF RereadFails, GiveBack
<1>21. CASE FedCrash
  BY <1>21 DEF FedCrash, Owed, Refunding
<1>22. CASE UNCHANGED fedVars
  BY <1>22 DEF fedVars
<1> QED
  BY <1>1, <1>2, <1>3, <1>4, <1>5, <1>6, <1>7, <1>8, <1>9, <1>10, <1>11, <1>12, <1>13, <1>14,
     <1>15, <1>16, <1>17, <1>18, <1>19, <1>20, <1>21, <1>22, <1>23, <1>24, <1>25
  DEF FederatedNext, Submission, SubWork, Advance, FedFaults

\* Every step keeps the calls in phase with the parent's status.
LEMMA FedInPhase == FederatedIInv /\ [FederatedNext]_fedVars => InPhase'
<1> SUFFICES ASSUME FederatedIInv, [FederatedNext]_fedVars PROVE InPhase'
  OBVIOUS
<1> USE FederatedAssumption DEF FederatedIInv, FederatedTypeOK, FedProcs, FAt, FGoto, fedRows,
        fedHist, ledger, InPhase, Deciding, Submitting, Settled, Shared
<1>0. sub' = sub => Enough' = Enough
  BY DEF Enough, Survivors
<1>1. CASE CreateFederatedJob
  BY <1>0, <1>1 DEF CreateFederatedJob
<1>2. CASE SubSpend
  BY <1>0, <1>2 DEF SubSpend
<1>3. CASE SubCreate
  BY <1>0, <1>3 DEF SubCreate
<1>4. CASE SubGiveBack
  BY <1>0, <1>4 DEF SubGiveBack, GiveBack
<1>5. CASE FailFanout
  BY <1>0, <1>5 DEF FailFanout, Created
<1>6. CASE StartFanout
  BY <1>0, <1>6 DEF StartFanout, Created
<1>7. ASSUME NEW d \in Parties, ClaimSub(d) PROVE InPhase'
  BY <1>0, <1>7 DEF ClaimSub
<1>8. ASSUME NEW d \in Parties, ReleaseSub(d) \/ RejectSub(d) \/ FailSub(d) PROVE InPhase'
  BY <1>0, <1>8 DEF ReleaseSub, RejectSub, FailSub, EndSub
<1>9. ASSUME NEW p \in FedProcs, ReadParent(p) PROVE InPhase'
  BY <1>0, <1>9 DEF ReadParent
<1>10. ASSUME NEW p \in FedProcs, ListSubJobs(p) PROVE InPhase'
  BY <1>0, <1>10 DEF ListSubJobs, Enough, Survivors, Dropouts
<1>11. ASSUME NEW p \in FedProcs, TransitionFederated(p) PROVE InPhase'
  BY <1>0, <1>11 DEF TransitionFederated, Dropouts
<1>12. ASSUME NEW p \in FedProcs, FailFederated(p) PROVE InPhase'
  BY <1>0, <1>12 DEF FailFederated, Survivors
<1>13. ASSUME NEW p \in FedProcs, RefundOne(p) PROVE InPhase'
  BY <1>0, <1>13 DEF RefundOne, Refunding, GiveBack
<1>14. ASSUME NEW p \in FedProcs, RefundFails(p) PROVE InPhase'
  BY <1>0, <1>14 DEF RefundFails, Refunding
<1>15. ASSUME NEW p \in FedProcs, RefundDone(p) PROVE InPhase'
  BY <1>0, <1>15 DEF RefundDone, Refunding
<1>16. ASSUME NEW p \in FedProcs, Aggregate(p) \/ AggregatePSI(p) PROVE InPhase'
  BY <1>0, <1>16 DEF Aggregate, AggregatePSI, Combine
<1>17. ASSUME NEW p \in FedProcs, ReleaseFederated(p) PROVE InPhase'
  BY <1>0, <1>17 DEF ReleaseFederated, Survivors
<1>18. ASSUME NEW p \in FedProcs, ChargeSurvivors(p) PROVE InPhase'
  BY <1>0, <1>18 DEF ChargeSurvivors
<1>19. ASSUME NEW d \in Parties, ReclaimSub(d) PROVE InPhase'
  BY <1>0, <1>19 DEF ReclaimSub
<1>20. ASSUME NEW p \in FedProcs, FedStop(p) PROVE InPhase'
  BY <1>0, <1>20 DEF FedStop, Created
<1>23. ASSUME NEW d \in Parties, SpendOwn(d) PROVE InPhase'
  BY <1>0, <1>23 DEF SpendOwn
<1>24. ASSUME NEW d \in Parties, RereadRejected(d) PROVE InPhase'
  BY <1>0, <1>24 DEF RereadRejected
<1>25. ASSUME NEW d \in Parties, RereadFails(d) PROVE InPhase'
  BY <1>0, <1>25 DEF RereadFails, GiveBack
<1>21. CASE FedCrash
  BY <1>0, <1>21 DEF FedCrash, Owed, Refunding
<1>22. CASE UNCHANGED fedVars
  BY <1>0, <1>22 DEF fedVars
<1> QED
  BY <1>1, <1>2, <1>3, <1>4, <1>5, <1>6, <1>7, <1>8, <1>9, <1>10, <1>11, <1>12, <1>13, <1>14,
     <1>15, <1>16, <1>17, <1>18, <1>19, <1>20, <1>21, <1>22, <1>23, <1>24, <1>25
  DEF FederatedNext, Submission, SubWork, Advance, FedFaults

\* Every step keeps the credits' numbers.
LEMMA FedCredits == FederatedIInv /\ [FederatedNext]_fedVars => Credits'
<1> SUFFICES ASSUME FederatedIInv, [FederatedNext]_fedVars PROVE Credits'
  OBVIOUS
<1> USE FederatedAssumption DEF FederatedIInv, FederatedTypeOK, FedProcs, FAt, FGoto, fedRows,
        fedHist, ledger, InPhase, Deciding, Submitting, Settled, Shared, Credits,
        Unreturned
<1>1. CASE CreateFederatedJob
  BY <1>1 DEF CreateFederatedJob
<1>2. CASE SubSpend
  <2>1. CASE FGoto(Submitter, "failFanout") /\ UNCHANGED <<target, jobsUsed>>
    BY <1>2, <2>1 DEF SubSpend
  <2>2. ASSUME NEW d \in Parties \ Created, target' = d, jobsUsed' = [jobsUsed EXCEPT ![d] = @ + 1],
               FGoto(Submitter, "create")
        PROVE  Credits'
    <3>1. sub[d] = "none" /\ jobsUsed[d] = 1 /\ back[d] = 0
      BY <1>2, <2>2 DEF SubSpend, Created
    <3> QED
      BY <1>2, <2>2, <3>1 DEF SubSpend
  <2> QED
    BY <1>2, <2>1, <2>2 DEF SubSpend
<1>3. CASE SubCreate
  BY <1>3 DEF SubCreate
<1>4. CASE SubGiveBack
  BY <1>4 DEF SubGiveBack, GiveBack
<1>5. CASE FailFanout
  BY <1>5 DEF FailFanout, Created
<1>6. CASE StartFanout
  BY <1>6 DEF StartFanout, Created
<1>7. ASSUME NEW d \in Parties, ClaimSub(d) PROVE Credits'
  BY <1>7 DEF ClaimSub
<1>8. ASSUME NEW d \in Parties, ReleaseSub(d) \/ RejectSub(d) \/ FailSub(d) PROVE Credits'
  BY <1>8 DEF ReleaseSub, RejectSub, FailSub, EndSub
<1>9. ASSUME NEW p \in FedProcs, ReadParent(p) PROVE Credits'
  BY <1>9 DEF ReadParent
<1>10. ASSUME NEW p \in FedProcs, ListSubJobs(p) PROVE Credits'
  BY <1>10 DEF ListSubJobs, Enough, Survivors, Dropouts
<1>11. ASSUME NEW p \in FedProcs, TransitionFederated(p) PROVE Credits'
  BY <1>11 DEF TransitionFederated, Dropouts
<1>12. ASSUME NEW p \in FedProcs, FailFederated(p) PROVE Credits'
  <2>1. CASE fed \in {"released", "failed"}
    BY <1>12, <2>1 DEF FailFederated
  <2>2. CASE fed \notin {"released", "failed"} /\ FAt(p, "fail")
    <3>1. fed = "fanout"
      BY <1>12, <2>2 DEF FedStatus
    <3> QED
      BY <1>12, <2>2, <3>1 DEF FailFederated
  <2>3. CASE fed \notin {"released", "failed"} /\ FAt(p, "failAggregate")
    <3>1. fed = "aggregating" /\ \A d \in Survivors : sub[d] # "none" /\ back[d] = 0
      BY <1>12, <2>3 DEF Survivors
    <3> QED
      BY <1>12, <2>3, <3>1 DEF FailFederated
  <2> QED
    BY <1>12, <2>1, <2>2, <2>3 DEF FailFederated
<1>13. ASSUME NEW p \in FedProcs, RefundOne(p) PROVE Credits'
  BY <1>13 DEF RefundOne, Refunding, GiveBack
<1>14. ASSUME NEW p \in FedProcs, RefundFails(p) PROVE Credits'
  BY <1>14 DEF RefundFails, Refunding
<1>15. ASSUME NEW p \in FedProcs, RefundDone(p) PROVE Credits'
  BY <1>15 DEF RefundDone, Refunding
<1>16. ASSUME NEW p \in FedProcs, Aggregate(p) \/ AggregatePSI(p) PROVE Credits'
  BY <1>16 DEF Aggregate, AggregatePSI, Combine
<1>17. ASSUME NEW p \in FedProcs, ReleaseFederated(p) PROVE Credits'
  BY <1>17 DEF ReleaseFederated, Survivors
<1>18. ASSUME NEW p \in FedProcs, ChargeSurvivors(p) PROVE Credits'
  BY <1>18 DEF ChargeSurvivors
<1>19. ASSUME NEW d \in Parties, ReclaimSub(d) PROVE Credits'
  BY <1>19 DEF ReclaimSub
<1>20. ASSUME NEW p \in FedProcs, FedStop(p) PROVE Credits'
  BY <1>20 DEF FedStop, Created
<1>23. ASSUME NEW d \in Parties, SpendOwn(d) PROVE Credits'
  BY <1>23 DEF SpendOwn
<1>24. ASSUME NEW d \in Parties, RereadRejected(d) PROVE Credits'
  BY <1>24 DEF RereadRejected
<1>25. ASSUME NEW d \in Parties, RereadFails(d) PROVE Credits'
  BY <1>25 DEF RereadFails, GiveBack
<1>21. CASE FedCrash
  BY <1>21 DEF FedCrash, Owed, Refunding
<1>22. CASE UNCHANGED fedVars
  BY <1>22 DEF fedVars
<1> QED
  BY <1>1, <1>2, <1>3, <1>4, <1>5, <1>6, <1>7, <1>8, <1>9, <1>10, <1>11, <1>12, <1>13, <1>14,
     <1>15, <1>16, <1>17, <1>18, <1>19, <1>20, <1>21, <1>22, <1>23, <1>24, <1>25
  DEF FederatedNext, Submission, SubWork, Advance, FedFaults

\* Every step accounts for the credits that bought nothing.
LEMMA FedAccounted == FederatedIInv /\ [FederatedNext]_fedVars => Accounted'
<1> SUFFICES ASSUME FederatedIInv, [FederatedNext]_fedVars PROVE Accounted'
  OBVIOUS
<1> USE FederatedAssumption DEF FederatedIInv, FederatedTypeOK, FedProcs, FAt, FGoto, fedRows,
        fedHist, ledger, InPhase, Deciding, Submitting, Settled, Shared, Credits, Unreturned, Accounted, Spared,
        OwedBySome
<1>1. CASE CreateFederatedJob
  BY <1>1 DEF CreateFederatedJob
<1>2. CASE SubSpend
  BY <1>2 DEF SubSpend
<1>3. CASE SubCreate
  BY <1>3 DEF SubCreate
<1>4. CASE SubGiveBack
  BY <1>4 DEF SubGiveBack, GiveBack
<1>5. CASE FailFanout
  BY <1>5 DEF FailFanout, Created
<1>6. CASE StartFanout
  BY <1>6 DEF StartFanout, Created
<1>7. ASSUME NEW d \in Parties, ClaimSub(d) PROVE Accounted'
  BY <1>7 DEF ClaimSub
<1>8. ASSUME NEW d \in Parties, ReleaseSub(d) \/ RejectSub(d) \/ FailSub(d) PROVE Accounted'
  BY <1>8 DEF ReleaseSub, RejectSub, FailSub, EndSub
<1>9. ASSUME NEW p \in FedProcs, ReadParent(p) PROVE Accounted'
  BY <1>9 DEF ReadParent
<1>10. ASSUME NEW p \in FedProcs, ListSubJobs(p) PROVE Accounted'
  BY <1>10 DEF ListSubJobs, Enough, Survivors, Dropouts
<1>11. ASSUME NEW p \in FedProcs, TransitionFederated(p) PROVE Accounted'
  BY <1>11 DEF TransitionFederated, Dropouts
<1>12. ASSUME NEW p \in FedProcs, FailFederated(p) PROVE Accounted'
  BY <1>12 DEF FailFederated, Survivors
<1>13. ASSUME NEW p \in FedProcs, RefundOne(p) PROVE Accounted'
  BY <1>13 DEF RefundOne, Refunding, GiveBack
<1>14. ASSUME NEW p \in FedProcs, RefundFails(p) PROVE Accounted'
  BY <1>14 DEF RefundFails, Refunding
<1>15. ASSUME NEW p \in FedProcs, RefundDone(p) PROVE Accounted'
  BY <1>15 DEF RefundDone, Refunding
<1>16. ASSUME NEW p \in FedProcs, Aggregate(p) \/ AggregatePSI(p) PROVE Accounted'
  BY <1>16 DEF Aggregate, AggregatePSI, Combine
<1>17. ASSUME NEW p \in FedProcs, ReleaseFederated(p) PROVE Accounted'
  BY <1>17 DEF ReleaseFederated, Survivors
<1>18. ASSUME NEW p \in FedProcs, ChargeSurvivors(p) PROVE Accounted'
  BY <1>18 DEF ChargeSurvivors
<1>19. ASSUME NEW d \in Parties, ReclaimSub(d) PROVE Accounted'
  BY <1>19 DEF ReclaimSub
<1>20. ASSUME NEW p \in FedProcs, FedStop(p) PROVE Accounted'
  BY <1>20 DEF FedStop, Created
<1>23. ASSUME NEW d \in Parties, SpendOwn(d) PROVE Accounted'
  BY <1>23 DEF SpendOwn
<1>24. ASSUME NEW d \in Parties, RereadRejected(d) PROVE Accounted'
  BY <1>24 DEF RereadRejected
<1>25. ASSUME NEW d \in Parties, RereadFails(d) PROVE Accounted'
  <2>1. \A x \in Parties : back'[x] \in Nat /\ back'[x] >= back[x]
    BY <1>25 DEF RereadFails, GiveBack
  <2>2. /\ UNCHANGED <<fed, sub, todo, faults>> /\ fpc[d] = "reread"
        /\ fpc' = [fpc EXCEPT ![d] = "done"]
    BY <1>25 DEF RereadFails
  <2>3. \A x \in Parties : (Spared(x) => Spared(x)') /\ (OwedBySome(x) => OwedBySome(x)')
    BY <2>1, <2>2
  <2> HIDE DEF Spared, OwedBySome, Credits
  <2> QED
    BY <2>2, <2>3
<1>21. CASE FedCrash
  BY <1>21 DEF FedCrash, Owed, Refunding
<1>22. CASE UNCHANGED fedVars
  BY <1>22 DEF fedVars
<1> QED
  BY <1>1, <1>2, <1>3, <1>4, <1>5, <1>6, <1>7, <1>8, <1>9, <1>10, <1>11, <1>12, <1>13, <1>14,
     <1>15, <1>16, <1>17, <1>18, <1>19, <1>20, <1>21, <1>22, <1>23, <1>24, <1>25
  DEF FederatedNext, Submission, SubWork, Advance, FedFaults

\* Only the call that released charges, each survivor once.
LEMMA FedCharges == FederatedIInv /\ [FederatedNext]_fedVars => Charges'
<1> SUFFICES ASSUME FederatedIInv, [FederatedNext]_fedVars PROVE Charges'
  OBVIOUS
<1> USE FederatedAssumption DEF FederatedIInv, FederatedTypeOK, FedProcs, FAt, FGoto, fedRows,
        fedHist, ledger, InPhase, Deciding, Submitting, Settled, Shared, Charges
<1>1. CASE CreateFederatedJob
  BY <1>1 DEF CreateFederatedJob
<1>2. CASE SubSpend
  BY <1>2 DEF SubSpend
<1>3. CASE SubCreate
  BY <1>3 DEF SubCreate
<1>4. CASE SubGiveBack
  BY <1>4 DEF SubGiveBack, GiveBack
<1>5. CASE FailFanout
  BY <1>5 DEF FailFanout, Created
<1>6. CASE StartFanout
  BY <1>6 DEF StartFanout, Created
<1>7. ASSUME NEW d \in Parties, ClaimSub(d) PROVE Charges'
  BY <1>7 DEF ClaimSub
<1>8. ASSUME NEW d \in Parties, ReleaseSub(d) \/ RejectSub(d) \/ FailSub(d) PROVE Charges'
  BY <1>8 DEF ReleaseSub, RejectSub, FailSub, EndSub
<1>9. ASSUME NEW p \in FedProcs, ReadParent(p) PROVE Charges'
  BY <1>9 DEF ReadParent
<1>10. ASSUME NEW p \in FedProcs, ListSubJobs(p) PROVE Charges'
  BY <1>10 DEF ListSubJobs, Enough, Survivors, Dropouts
<1>11. ASSUME NEW p \in FedProcs, TransitionFederated(p) PROVE Charges'
  BY <1>11 DEF TransitionFederated, Dropouts
<1>12. ASSUME NEW p \in FedProcs, FailFederated(p) PROVE Charges'
  BY <1>12 DEF FailFederated, Survivors
<1>13. ASSUME NEW p \in FedProcs, RefundOne(p) PROVE Charges'
  BY <1>13 DEF RefundOne, Refunding, GiveBack
<1>14. ASSUME NEW p \in FedProcs, RefundFails(p) PROVE Charges'
  BY <1>14 DEF RefundFails, Refunding
<1>15. ASSUME NEW p \in FedProcs, RefundDone(p) PROVE Charges'
  BY <1>15 DEF RefundDone, Refunding
<1>16. ASSUME NEW p \in FedProcs, Aggregate(p) \/ AggregatePSI(p) PROVE Charges'
  BY <1>16 DEF Aggregate, AggregatePSI, Combine
<1>17. ASSUME NEW p \in FedProcs, ReleaseFederated(p) PROVE Charges'
  BY <1>17 DEF ReleaseFederated, Survivors
<1>18. ASSUME NEW p \in FedProcs, ChargeSurvivors(p) PROVE Charges'
  BY <1>18 DEF ChargeSurvivors
<1>19. ASSUME NEW d \in Parties, ReclaimSub(d) PROVE Charges'
  BY <1>19 DEF ReclaimSub
<1>20. ASSUME NEW p \in FedProcs, FedStop(p) PROVE Charges'
  BY <1>20 DEF FedStop, Created
<1>23. ASSUME NEW d \in Parties, SpendOwn(d) PROVE Charges'
  BY <1>23 DEF SpendOwn
<1>24. ASSUME NEW d \in Parties, RereadRejected(d) PROVE Charges'
  BY <1>24 DEF RereadRejected
<1>25. ASSUME NEW d \in Parties, RereadFails(d) PROVE Charges'
  BY <1>25 DEF RereadFails, GiveBack
<1>21. CASE FedCrash
  BY <1>21 DEF FedCrash, Owed, Refunding
<1>22. CASE UNCHANGED fedVars
  BY <1>22 DEF fedVars
<1> QED
  BY <1>1, <1>2, <1>3, <1>4, <1>5, <1>6, <1>7, <1>8, <1>9, <1>10, <1>11, <1>12, <1>13, <1>14,
     <1>15, <1>16, <1>17, <1>18, <1>19, <1>20, <1>21, <1>22, <1>23, <1>24, <1>25
  DEF FederatedNext, Submission, SubWork, Advance, FedFaults

\* Before the job is created everything is at rest.
LEMMA FedStart == FederatedInit => FederatedIInv
<1> SUFFICES ASSUME FederatedInit PROVE FederatedIInv
  OBVIOUS
<1>1. FederatedTypeOK
  <2>1. fpc \in [FedProcs -> FedPc] /\ todo \in [FedProcs -> SUBSET Parties]
    BY DEF FederatedInit, FedPc
  <2>2. sub \in [Parties -> SubStatus] /\ fed \in FedStatus
    BY DEF FederatedInit, SubStatus, FedStatus
  <2>3. /\ jobsUsed \in [Parties -> 0 .. 2] /\ charged \in [Parties -> Nat]
        /\ spent \in [Parties -> Nat]
        /\ back \in [Parties -> Nat]
    BY DEF FederatedInit
  <2>4. stored \in BOOLEAN /\ disturbed \in BOOLEAN
    BY DEF FederatedInit
  <2> QED
    BY <2>1, <2>2, <2>3, <2>4 DEF FederatedInit, FederatedTypeOK
<1> QED
  BY <1>1 DEF FederatedInit, FederatedIInv, InPhase, Credits, Unreturned, Accounted, Charges,
     Deciding, Submitting, Shared, FedProcs

\* FederatedIInv is what it is for.
LEMMA FedImplied == FederatedIInv => FederatedInv
<1> SUFFICES ASSUME FederatedIInv PROVE FederatedInv
  OBVIOUS
<1> USE DEF FederatedIInv
<1>1. OneDecision
  <2> DEFINE S == {p \in FedProcs : fpc[p] \in Deciding}
  <2>1. \A p, q \in S : p = q
    BY DEF InPhase
  <2>2. Cardinality(S) <= 1
    <3>1. CASE S = {}
      BY <3>1, FS_EmptySet
    <3>2. ASSUME NEW p \in S PROVE Cardinality(S) <= 1
      <4>1. S = {p}
        BY <2>1
      <4>2. Cardinality({p}) = 1
        BY FS_Singleton
      <4> QED
        BY <4>1, <4>2
    <3> QED
      BY <3>1, <3>2
  <2> QED
    BY <2>2 DEF OneDecision, Deciding
<1>2. BilledOnce
  BY DEF BilledOnce, Credits, Unreturned, FederatedTypeOK, Created, Shared
<1>3. RefundsComplete
  BY DEF RefundsComplete, Accounted, InPhase, Spared, OwedBySome, Owed, Refunding, Created, Shared,
         Settled, FederatedTypeOK
<1>4. JointFromSurvivors
  BY DEF JointFromSurvivors, InPhase, Charges, Survivors, Dropouts, Shared, Settled, Enough,
         FederatedTypeOK
<1> QED
  BY <1>1, <1>2, <1>3, <1>4 DEF FederatedInv

\* Every step keeps FederatedIInv.
LEMMA FedStep == FederatedIInv /\ [FederatedNext]_fedVars => FederatedIInv'
  BY FedType, FedInPhase, FedCredits, FedAccounted, FedCharges DEF FederatedIInv

\* compute/federated.go:218, :411: for any parties, however their last sub-jobs end
\* together, leases run out and processes stop, one call decides and gives credits that
\* bought nothing back once, a rejected sub-job's own worker at most once more, and only
\* survivors of a released job are charged for its output.
THEOREM FederatedCorrect == FederatedSpec => []FederatedInv
<1> QED
  BY FedStart, FedStep, FedImplied, PTL DEF FederatedSpec

-----------------------------------------------------------------------------
\* Past the submission, and not moved: the offer is the one the job was checked against.
Checked == {"queued", "running", "keyed", "released"}

\* The operators whose policy change on an algorithm is due.
Due(a) == {o \in Operators : review[o].algo = a}

\* RegistryInv made inductive.
RegistryIInv ==
  /\ RegistryTypeOK
  /\ job.state \in {"running", "keyed"} /\ job.offer.trust = "L2" => tee
  /\ AttestedL2
  /\ ~moved /\ job.state # "none" => job.offer = offer
  /\ ~moved /\ job.state \in Checked /\ job.offer.trust = "L1" /\ job.algo \in ModelAlgos
     => Good(job.algo)
  /\ \A o \in Operators : review[o] # NoReview => review[o].algo \in Algos
  /\ \A a \in reviewed \ raced :
       /\ \A o, q \in Due(a) : o = q
       /\ \A o \in Due(a) : review[o].add <=> Good(a)
       /\ Due(a) = {} => (a \in allowed <=> Good(a))

\* RegistryIInv is what it is for.
LEMMA RegistryImplied == RegistryIInv => RegistryInv
  BY DEF RegistryIInv, RegistryInv, ModelAudited, PolicyFollows, Checked, Due

\* With no job and no review the registry is where the invariant asks.
LEMMA RegistryStart == RegistryInit => RegistryIInv
<1> SUFFICES ASSUME RegistryInit PROVE RegistryIInv
  OBVIOUS
<1>1. RegistryTypeOK
  BY RegistryAssumption DEF RegistryInit, RegistryTypeOK, AlgoRow, Offers, NoReview, NoJobYet,
     NoOffer, JobState
<1> QED
  BY <1>1 DEF RegistryInit, RegistryIInv, AttestedL2, NoJobYet, NoReview, Checked

\* What the invariant says of the job, apart from its type.
JobInv ==
  /\ job.state \in {"running", "keyed"} /\ job.offer.trust = "L2" => tee
  /\ AttestedL2
  /\ ~moved /\ job.state # "none" => job.offer = offer
  /\ ~moved /\ job.state \in Checked /\ job.offer.trust = "L1" /\ job.algo \in ModelAlgos
     => Good(job.algo)

\* A job row, with an algorithm once it is submitted.
JobTyped == /\ job \in [state : JobState, algo : Algos \cup {NoAlgo}, offer : Offers, attested : BOOLEAN]
            /\ job.state # "none" => job.algo \in Algos

\* A step of the job alone keeps the rest.
LEMMA JobAlone ==
  ASSUME RegistryIInv, UNCHANGED <<algo, offer, tee, allowed, review, reviewed, raced, moved>>,
         JobTyped', JobInv'
  PROVE  RegistryIInv'
<1>1. RegistryTypeOK'
  BY DEF RegistryIInv, RegistryTypeOK, JobTyped
<1> QED
  BY <1>1 DEF RegistryIInv, JobInv, Due, Good

\* A step that changes only the job's state.
LEMMA StateOnly ==
  ASSUME RegistryIInv, NEW s \in JobState, job' = [job EXCEPT !.state = s]
  PROVE  /\ job' \in [state : JobState, algo : Algos \cup {NoAlgo}, offer : Offers, attested : BOOLEAN]
         /\ job'.state = s /\ job'.algo = job.algo /\ job'.offer = job.offer
         /\ job'.attested = job.attested
  BY DEF RegistryIInv, RegistryTypeOK

\* The steps of the job.
LEMMA JobStep ==
  ASSUME RegistryIInv,
         (\E a \in Algos : ReadOffer(a)) \/ resolveAlgorithm \/ StartJob \/ ReleaseDataKey \/ FinishJob
  PROVE  RegistryIInv'
<1>1. ASSUME NEW a \in Algos, ReadOffer(a) PROVE RegistryIInv'
  <2>1. JobTyped'
    BY <1>1 DEF ReadOffer, JobTyped, RegistryIInv, RegistryTypeOK, JobState
  <2>2. JobInv'
    BY <1>1 DEF ReadOffer, JobInv, AttestedL2, Checked
  <2> QED
    BY <1>1, <2>1, <2>2, JobAlone DEF ReadOffer
<1>2. CASE resolveAlgorithm
  <2> DEFINE s == IF /\ algo[job.algo].status = "approved"
                     /\ job.offer.allow # {} => job.algo \in job.offer.allow
                     /\ job.offer.trust = "L1" /\ job.algo \in ModelAlgos => algo[job.algo].trusted
                  THEN "queued" ELSE "refused"
  <2>1. s \in JobState /\ s \in {"queued", "refused"} /\ job' = [job EXCEPT !.state = s]
    BY <1>2 DEF resolveAlgorithm, JobState
  <2>2. s = "queued" => /\ algo[job.algo].status = "approved"
                        /\ job.offer.trust = "L1" /\ job.algo \in ModelAlgos => algo[job.algo].trusted
    OBVIOUS
  <2> HIDE DEF s
  <2>3. /\ job' \in [state : JobState, algo : Algos \cup {NoAlgo}, offer : Offers, attested : BOOLEAN]
        /\ job'.state = s /\ job'.algo = job.algo /\ job'.offer = job.offer
    BY <2>1, StateOnly
  <2>4. job.state = "submitting" /\ job.algo \in Algos /\ algo[job.algo] \in AlgoRow
    BY <1>2 DEF resolveAlgorithm, RegistryIInv, RegistryTypeOK
  <2>5. UNCHANGED <<algo, offer, tee, allowed, review, reviewed, raced, moved>>
    BY <1>2 DEF resolveAlgorithm
  <2>6. JobTyped'
    BY <2>3, <2>4 DEF JobTyped
  <2>7. s = "queued" /\ job.offer.trust = "L1" /\ job.algo \in ModelAlgos => Good(job.algo)
    BY <2>2, <2>4 DEF Good, AlgoRow
  <2>8. JobInv'
    BY <2>1, <2>3, <2>4, <2>5, <2>7 DEF JobInv, RegistryIInv, AttestedL2, Checked, Good
  <2> QED
    BY <2>5, <2>6, <2>8, JobAlone
<1>3. CASE StartJob
  <2>1. /\ UNCHANGED <<algo, offer, tee, allowed, review, reviewed, raced, moved>>
        /\ job.state = "queued" /\ job.algo \in Algos /\ offer \in Offers
    BY <1>3 DEF StartJob, RegistryIInv, RegistryTypeOK
  <2>2. /\ job' \in [state : JobState, algo : Algos \cup {NoAlgo}, offer : Offers, attested : BOOLEAN]
        /\ job'.algo = job.algo /\ job'.offer = offer /\ job'.state \in {"failed", "running"}
    BY <1>3, <2>1 DEF StartJob, RegistryIInv, RegistryTypeOK, JobState
  <2>3. job'.state = "running" /\ offer.trust = "L2" => tee
    BY <1>3 DEF StartJob, RegistryIInv, RegistryTypeOK
  <2>4. JobTyped'
    BY <2>1, <2>2 DEF JobTyped
  <2>5. JobInv'
    BY <2>1, <2>2, <2>3 DEF JobInv, RegistryIInv, AttestedL2, Checked, Good
  <2> QED
    BY <2>1, <2>4, <2>5, JobAlone
<1>4. CASE ReleaseDataKey
  <2>1. /\ UNCHANGED <<algo, offer, tee, allowed, review, reviewed, raced, moved>>
        /\ job.state = "running" /\ tee /\ job.algo \in Algos
    BY <1>4 DEF ReleaseDataKey, RegistryIInv, RegistryTypeOK
  <2>2. PICK s \in {"failed", "keyed"} : job' = [job EXCEPT !.state = s]
    BY <1>4 DEF ReleaseDataKey
  <2>3. /\ job' \in [state : JobState, algo : Algos \cup {NoAlgo}, offer : Offers, attested : BOOLEAN]
        /\ job'.state = s /\ job'.algo = job.algo /\ job'.offer = job.offer
    BY <2>2, StateOnly DEF JobState
  <2>4. JobTyped'
    BY <2>1, <2>3 DEF JobTyped
  <2>5. JobInv'
    BY <2>1, <2>2, <2>3 DEF JobInv, RegistryIInv, AttestedL2, Checked, Good
  <2> QED
    BY <2>1, <2>4, <2>5, JobAlone
<1>5. CASE FinishJob
  <2>1. /\ UNCHANGED <<algo, offer, tee, allowed, review, reviewed, raced, moved>>
        /\ job.state \in {"running", "keyed"} /\ job.algo \in Algos
    BY <1>5 DEF FinishJob, RegistryIInv, RegistryTypeOK
  <2>2. /\ job' \in [state : JobState, algo : Algos \cup {NoAlgo}, offer : Offers, attested : BOOLEAN]
        /\ job'.algo = job.algo /\ job'.offer = job.offer /\ job'.state \in {"failed", "released"}
    BY ZenonT(40), <1>5 DEF FinishJob, RegistryIInv, RegistryTypeOK, JobState
  <2>3. job'.state = "released" /\ job.offer.trust = "L2" => job'.attested
    BY <1>5 DEF FinishJob, RegistryIInv, RegistryTypeOK
  <2>4. JobTyped'
    BY <2>1, <2>2 DEF JobTyped
  <2>5. JobInv'
    BY <2>1, <2>2, <2>3 DEF JobInv, RegistryIInv, AttestedL2, Checked, Good
  <2> QED
    BY <2>1, <2>4, <2>5, JobAlone
<1> QED
  BY <1>1, <1>2, <1>3, <1>4, <1>5

\* A review is due from one operator, or raced; what it will do is what it set.
LEMMA ReviewStep ==
  ASSUME RegistryIInv, NEW o \in Operators, NEW a \in Algos, NEW new \in Reviews,
         ReviewAlgorithm(o, a, new)
  PROVE  RegistryIInv'
<1>1. /\ UNCHANGED <<offer, tee, allowed, job>>
      /\ review[o] = NoReview /\ review[o].algo = NoAlgo
  BY DEF ReviewAlgorithm, NoReview
<1>2. RegistryTypeOK'
  BY RegistryAssumption DEF RegistryIInv, RegistryTypeOK, ReviewAlgorithm
<1>3. algo'[a] = new /\ new \in AlgoRow /\ \A b \in Algos \ {a} : algo'[b] = algo[b]
  BY RegistryAssumption DEF RegistryIInv, RegistryTypeOK, ReviewAlgorithm
<1>4. (new.trusted /\ new.status = "approved") <=> new = [status |-> "approved", trusted |-> TRUE]
  BY <1>3 DEF AlgoRow
<1>5. review'[o].algo = a /\ (review'[o].add <=> (new.trusted /\ new.status = "approved"))
      /\ \A q \in Operators \ {o} : review'[q] = review[q]
  BY DEF RegistryIInv, RegistryTypeOK, ReviewAlgorithm
<1>6. ASSUME NEW b \in (reviewed \ raced)'
      PROVE  (/\ \A p, q \in Due(b) : p = q
              /\ \A q \in Due(b) : review[q].add <=> Good(b)
              /\ Due(b) = {} => (b \in allowed <=> Good(b)))'
  <2>1. CASE b = a
    <3>1. \A q \in Operators : review[q].algo # a
      BY <1>6, <2>1 DEF ReviewAlgorithm
    <3>2. Due(b)' = {o}
      BY <2>1, <3>1, <1>5 DEF Due
    <3>3. review'[o].add <=> Good(a)'
      BY <1>3, <1>4, <1>5 DEF Good
    <3> QED
      BY <2>1, <3>2, <3>3
  <2>2. CASE b # a
    <3>1. b \in reviewed \ raced /\ b \in Algos
      BY <1>6, <2>2 DEF ReviewAlgorithm, RegistryIInv, RegistryTypeOK
    <3>2. Due(b)' = Due(b) /\ o \notin Due(b)
      BY <1>1, <1>5, <2>2, <3>1, RegistryAssumption DEF Due
    <3>3. Good(b)' <=> Good(b)
      BY <1>3, <2>2, <3>1 DEF Good
    <3>4. \A q \in Due(b) : review'[q] = review[q]
      BY <1>5, <3>2 DEF Due
    <3> QED
      BY <1>1, <3>1, <3>2, <3>3, <3>4 DEF RegistryIInv
  <2> QED
    BY <2>1, <2>2
<1>7. \A q \in Operators : review'[q] # NoReview => review'[q].algo \in Algos
  BY <1>5 DEF RegistryIInv
<1>8. ~moved' => ~moved /\ job.state = "none"
  BY DEF ReviewAlgorithm, RegistryIInv, RegistryTypeOK
<1> QED
  BY <1>1, <1>2, <1>6, <1>7, <1>8 DEF RegistryIInv, AttestedL2, Checked

\* The policy change of the only review due makes the broker follow.
LEMMA PolicyStep ==
  ASSUME RegistryIInv, NEW o \in Operators, UpdatePolicy(o)
  PROVE  RegistryIInv'
<1>1. UNCHANGED <<algo, offer, tee, job, reviewed, raced, moved>> /\ review[o].algo \in Algos
  BY DEF UpdatePolicy, RegistryIInv
<1>2. RegistryTypeOK'
  <2>1. allowed' \subseteq Algos
    BY <1>1 DEF UpdatePolicy, RegistryIInv, RegistryTypeOK
  <2>2. review' \in [Operators -> [algo : Algos \cup {NoAlgo}, add : BOOLEAN]]
    BY DEF UpdatePolicy, RegistryIInv, RegistryTypeOK, NoReview
  <2> QED
    BY <1>1, <2>1, <2>2 DEF RegistryIInv, RegistryTypeOK
<1>3. /\ review'[o] = NoReview /\ review'[o].algo = NoAlgo
      /\ \A q \in Operators \ {o} : review'[q] = review[q]
  BY DEF UpdatePolicy, RegistryIInv, RegistryTypeOK, NoReview
<1>4. ASSUME NEW b \in reviewed \ raced
      PROVE  (/\ \A p, q \in Due(b) : p = q
              /\ \A q \in Due(b) : review[q].add <=> Good(b)
              /\ Due(b) = {} => (b \in allowed <=> Good(b)))'
  <2>0. b \in Algos /\ (Good(b)' <=> Good(b))
    BY <1>1 DEF RegistryIInv, RegistryTypeOK, Good
  <2>1. Due(b)' = Due(b) \ {o}
    BY <1>3, <2>0, RegistryAssumption DEF Due
  <2>2. \A q \in Due(b)' : review'[q] = review[q]
    BY <1>3, <2>1 DEF Due
  <2>3. CASE review[o].algo = b
    <3>1. Due(b)' = {} /\ o \in Due(b)
      BY <2>1, <2>3 DEF Due, RegistryIInv
    <3>2. review[o].add <=> Good(b)
      BY <3>1 DEF RegistryIInv
    <3>3. b \in allowed' <=> review[o].add
      BY <2>3 DEF UpdatePolicy
    <3> QED
      BY <2>0, <3>1, <3>2, <3>3
  <2>4. CASE review[o].algo # b
    <3>1. Due(b)' = Due(b) /\ (b \in allowed' <=> b \in allowed)
      BY <2>1, <2>4 DEF Due, UpdatePolicy
    <3> QED
      BY <2>0, <2>2, <3>1 DEF RegistryIInv
  <2> QED
    BY <2>3, <2>4
<1>5. \A q \in Operators : review'[q] # NoReview => review'[q].algo \in Algos
  BY <1>3 DEF RegistryIInv
<1> QED
  BY <1>1, <1>2, <1>4, <1>5 DEF RegistryIInv, AttestedL2, Good

\* Every step keeps RegistryIInv.
LEMMA RegistryStep == RegistryIInv /\ [RegistryNext]_registryVars => RegistryIInv'
<1> SUFFICES ASSUME RegistryIInv, [RegistryNext]_registryVars PROVE RegistryIInv'
  OBVIOUS
<1>1. ASSUME NEW new \in OfferChoices, ConfigureOffer(new) PROVE RegistryIInv'
  <2>1. RegistryTypeOK' /\ (~moved' => ~moved /\ job.state = "none")
    BY <1>1, RegistryAssumption DEF ConfigureOffer, RegistryIInv, RegistryTypeOK
  <2> QED
    BY <1>1, <2>1 DEF ConfigureOffer, RegistryIInv, AttestedL2, Good, Due, Checked
<1>2. CASE RegistryRestart
  <2>1. /\ UNCHANGED <<algo, offer, moved>> /\ tee' \in BOOLEAN
        /\ allowed' = {} /\ reviewed' = {} /\ raced' = {}
        /\ \A o \in Operators : review'[o] = NoReview
    BY <1>2 DEF RegistryRestart
  <2>2. review' \in [Operators -> [algo : Algos \cup {NoAlgo}, add : BOOLEAN]]
    BY <1>2 DEF RegistryRestart, NoReview
  <2>3. /\ job' \in [state : JobState, algo : Algos \cup {NoAlgo}, offer : Offers, attested : BOOLEAN]
        /\ job'.algo = job.algo /\ job'.offer = job.offer /\ job'.attested = job.attested
        /\ job'.state \notin {"queued", "running", "keyed"}
        /\ (job'.state = "released" => job.state = "released")
        /\ (job'.state = "none" <=> job.state = "none")
    BY <1>2 DEF RegistryRestart, RegistryIInv, RegistryTypeOK, JobState
  <2>4. RegistryTypeOK'
    BY <2>1, <2>2, <2>3 DEF RegistryIInv, RegistryTypeOK
  <2> QED
    BY <2>1, <2>3, <2>4 DEF RegistryIInv, AttestedL2, Good, Checked
<1>3. CASE UNCHANGED registryVars
  BY <1>3 DEF registryVars, RegistryIInv, RegistryTypeOK, AttestedL2, Good, Due
<1> QED
  BY <1>1, <1>2, <1>3, JobStep, ReviewStep, PolicyStep DEF RegistryNext

\* compute/service.go:293, :676, worker.go:190: for any algorithms, operators and offers,
\* models leave audited, L2 results attested, and the broker follows the reviews.
THEOREM RegistryCorrect == RegistrySpec => []RegistryInv
<1> QED
  BY RegistryStart, RegistryStep, RegistryImplied, PTL DEF RegistrySpec

-----------------------------------------------------------------------------
\* The row, the object and the readers' positions start as the invariant asks.
LEMMA ResultsStart == ResultsInit => ResultsInv
<1> SUFFICES ASSUME ResultsInit PROVE ResultsInv
  OBVIOUS
<1> USE ResultConstants DEF ResultsInit, Nothing, Certified, Reported, Resting
<1>1. ResultsTypeOK
  BY DEF ResultsTypeOK, States, ReaderStages
<1>2. \A k \in Readers : shown[k][2] = "row" /\ shown[k][3] = NoBytes /\ shown[k][1] = Owner
  OBVIOUS
<1>3. OnlyReleasedShown /\ ReportsKept
  BY <1>2 DEF OnlyReleasedShown, ReportsKept
<1>4. CertificateBinds /\ Established
  BY <1>2 DEF CertificateBinds, Established, Free
<1> QED
  BY <1>1, <1>3, <1>4 DEF ResultsInv

\* What a reader is handed joins what the others have.
LEMMA HandStep ==
  ASSUME ResultsInv, NEW k \in Readers, NEW user \in Viewers, NEW what \in Certified \cup Reported,
         NEW b \in Bytes \cup {NoBytes}, Hand(k, user, what, b),
         what \in Certified => /\ result \in {"job", "joint"} /\ user = Owner
                               /\ b # NoBytes => state = "released"
                               /\ ~overwritten => b \in {NoBytes, object},
         what \in Reported => /\ user \in {Owner, DataOwner, Operator} /\ b = attested
                              /\ result \in {"job", "partial"}
                              /\ result = "partial" => user = Owner
  PROVE  ResultsInv'
<1>1. /\ UNCHANGED <<result, state, pointed, attested, registering, made, object, certificates,
                     late, overwritten>>
      /\ shown' = [shown EXCEPT ![k] = <<user, what, b>>]
      /\ reader' = [reader EXCEPT ![k] = Resting]
  BY DEF Hand, Reading, row, workers
<1>2. /\ ResultsTypeOK /\ OnlyReleasedShown /\ ReportsKept /\ CertificateBinds /\ Established
  BY DEF ResultsInv
<1>3. \A j \in Readers : shown'[j] = IF j = k THEN <<user, what, b>> ELSE shown[j]
  BY <1>1, <1>2 DEF ResultsTypeOK
<1>4. \A j \in Readers : reader'[j] = IF j = k THEN Resting ELSE reader[j]
  BY <1>1, <1>2 DEF ResultsTypeOK
<1>5. ResultsTypeOK'
  BY <1>1, <1>2 DEF ResultsTypeOK, ReaderStages
<1>6. OnlyReleasedShown'
  BY <1>1, <1>2, <1>3 DEF OnlyReleasedShown
<1>7. ReportsKept'
  <2>1. ASSUME NEW j \in Readers, j # k, shown[j][2] \in Reported
        PROVE  /\ shown[j][1] \in {Owner, DataOwner, Operator}
               /\ shown[j][3] # NoBytes =>
                     /\ result \in {"job", "partial"} /\ (result = "partial" => shown[j][1] = Owner)
                     /\ shown[j][3] = made \/ overwritten
    BY <1>2, <2>1 DEF ReportsKept
  <2>2. what \in Reported /\ b # NoBytes => b = made \/ overwritten
    BY <1>2 DEF Established, ResultsTypeOK
  <2> QED
    BY <1>1, <1>3, <2>1, <2>2 DEF ReportsKept
<1>8. CertificateBinds'
  BY <1>1, <1>2, <1>3 DEF CertificateBinds
<1>9. Established'
  BY <1>1, <1>2, <1>4 DEF Established, Free, Ready
<1> QED
  BY <1>5, <1>6, <1>7, <1>8, <1>9 DEF ResultsInv

\* A reader that looks at a released row goes on to its object.
LEMMA LookStep ==
  ASSUME ResultsInv, NEW k \in Readers, NEW what \in Certified, Look(k, Owner, what),
         result \in {"job", "joint"}, Ready
  PROVE  ResultsInv'
<1>1. /\ UNCHANGED <<result, state, pointed, attested, registering, made, object, certificates,
                     late, overwritten, shown>>
      /\ reader' = [reader EXCEPT ![k] = [at |-> what, user |-> Owner]]
  BY DEF Look, Reading, row, workers
<1>2. /\ ResultsTypeOK /\ OnlyReleasedShown /\ ReportsKept /\ CertificateBinds /\ Established
  BY DEF ResultsInv
<1>3. \A j \in Readers : reader'[j] = IF j = k THEN [at |-> what, user |-> Owner] ELSE reader[j]
  BY <1>1, <1>2 DEF ResultsTypeOK
<1>4. ResultsTypeOK'
  BY <1>1, <1>2, ResultConstants DEF ResultsTypeOK, ReaderStages, Certified
<1>5. OnlyReleasedShown' /\ ReportsKept' /\ CertificateBinds'
  BY <1>1, <1>2 DEF OnlyReleasedShown, ReportsKept, CertificateBinds
<1>6. Established'
  BY <1>1, <1>2, <1>3 DEF Established, Free, Ready
<1> QED
  BY <1>4, <1>5, <1>6 DEF ResultsInv

\* Every step keeps the invariant.
LEMMA ResultsStep == ResultsInv /\ [ResultsNext]_resultVars => ResultsInv'
<1> SUFFICES ASSUME ResultsInv, [ResultsNext]_resultVars PROVE ResultsInv'
  OBVIOUS
<1>0. /\ ResultsTypeOK /\ OnlyReleasedShown /\ ReportsKept /\ CertificateBinds /\ Established
  BY DEF ResultsInv
<1>a. ASSUME UNCHANGED <<result, reader, late, overwritten, shown>>,
             ResultsTypeOK', CertificateBinds', Established',
             state = "released" => state' = "released",
             made \in Bytes => made' = made
      PROVE  ResultsInv'
  <2>1. OnlyReleasedShown'
    BY <1>0, <1>a DEF OnlyReleasedShown
  <2>2. ReportsKept'
    BY <1>0, <1>a DEF ReportsKept, ResultsTypeOK
  <2> QED
    BY <1>a, <2>1, <2>2 DEF ResultsInv
<1>1. CASE RunEnds
  BY <1>0, <1>1, <1>a, ResultConstants
  DEF RunEnds, Internal, workers, ResultsTypeOK, States, CertificateBinds, Established, Free, Ready
<1>2. CASE uploadOutput
  BY <1>0, <1>2, <1>a, ResultConstants
  DEF uploadOutput, Internal, workers, ResultsTypeOK, States, CertificateBinds, Established, Free,
      Ready, OnlyReleasedShown
<1>3. CASE SetAttestation
  BY <1>0, <1>3, <1>a, ResultConstants
  DEF SetAttestation, Internal, workers, ResultsTypeOK, States, CertificateBinds, Established, Free, Ready
<1>4. CASE ReleaseResult
  BY <1>0, <1>4, <1>a, ResultConstants
  DEF ReleaseResult, Settle, Internal, workers, ResultsTypeOK, States, Results, CertificateBinds,
      Established, Free, Ready
<1>5. CASE ParkResult
  BY <1>0, <1>5, <1>a, ResultConstants
  DEF ParkResult, Settle, Internal, workers, ResultsTypeOK, States, CertificateBinds,
      Established, Free, Ready
<1>6. CASE RefuseResult
  BY <1>0, <1>6, <1>a, ResultConstants
  DEF RefuseResult, Settle, Internal, workers, ResultsTypeOK, States, CertificateBinds,
      Established, Free, Ready
<1>7. CASE registerResultCert \/ registerFederatedResultCert
  BY <1>0, <1>7, <1>a, ResultConstants
  DEF registerResultCert, registerFederatedResultCert, Register, Internal, workers, ResultsTypeOK,
      States, CertificateBinds, Established, Free, Ready
<1>8. CASE RegisterScreen
  BY <1>0, <1>8, <1>a, ResultConstants
  DEF RegisterScreen, Internal, workers, ResultsTypeOK, States, CertificateBinds, Established, Free,
      Ready
<1>9. CASE ReclaimLease
  <2>1. /\ result \in {"job", "partial"} /\ state = "running" /\ late' = "runs"
        /\ state' \in {"running", "failed"}
        /\ UNCHANGED <<result, made, object, pointed, attested, registering, certificates, reader,
                       overwritten, shown>>
    BY <1>9 DEF ReclaimLease
  <2>2. ResultsTypeOK'
    BY <1>0, <2>1 DEF ResultsTypeOK, States
  <2>3. OnlyReleasedShown' /\ ReportsKept'
    BY <1>0, <2>1 DEF OnlyReleasedShown, ReportsKept
  <2>4. CertificateBinds' /\ Established'
    BY <1>0, <2>1 DEF CertificateBinds, Established, Free, Ready
  <2> QED
    BY <2>2, <2>3, <2>4 DEF ResultsInv
<1>10. CASE LateOutput
  <2>1. /\ late # "no" /\ late' \in {"stored", "over"} /\ overwritten' = TRUE
        /\ object' \in Bytes \/ object' = object
        /\ attested' \in Bytes \/ attested' = attested
        /\ UNCHANGED <<result, state, made, pointed, registering, certificates, reader, shown>>
    BY <1>10 DEF LateOutput
  <2>2. ResultsTypeOK'
    BY <1>0, <2>1 DEF ResultsTypeOK
  <2>3. OnlyReleasedShown' /\ ReportsKept'
    BY <1>0, <2>1 DEF OnlyReleasedShown, ReportsKept
  <2>4. CertificateBinds' /\ Established'
    BY <1>0, <2>1, ResultConstants DEF CertificateBinds, Established, Free, Ready, ResultsTypeOK
  <2> QED
    BY <2>2, <2>3, <2>4 DEF ResultsInv
<1>11. ASSUME NEW k \in Readers, ReadObject(k) PROVE ResultsInv'
  <2>1. /\ reader[k].user = Owner /\ result \in {"job", "joint"} /\ Ready
        /\ reader[k] \in ReaderStages /\ reader[k] # Resting
    BY <1>0, <1>11 DEF ReadObject, Established, Free, ResultsTypeOK
  <2>2. reader[k].at \in Certified /\ reader[k].at \notin Reported
    BY <2>1 DEF ReaderStages, Certified, Reported
  <2>3. Hand(k, Owner, reader[k].at, object) /\ object \in Bytes \cup {NoBytes} /\ Owner \in Viewers
    BY <1>0, <1>11, <2>1, ResultConstants DEF ReadObject, ResultsTypeOK
  <2> QED
    BY <2>1, <2>2, <2>3, HandStep DEF Ready
<1>12. ASSUME NEW k \in Readers, NEW user \in Viewers,
              OpenOutput(k, user) \/ OpenFederatedOutput(k, user) PROVE ResultsInv'
  BY <1>12, LookStep DEF OpenOutput, OpenFederatedOutput, Certified
<1>13. ASSUME NEW k \in Readers, NEW user \in Viewers,
              GetJobCertificate(k, user) \/ GetFederatedCertificate(k, user) PROVE ResultsInv'
  <2>1. user = Owner /\ result \in {"job", "joint"}
    BY <1>13 DEF GetJobCertificate, GetFederatedCertificate
  <2>2. CASE Ready
    BY <1>13, <2>1, <2>2, LookStep DEF GetJobCertificate, GetFederatedCertificate, Certified
  <2>3. CASE ~Ready
    <3>1. Hand(k, user, "certificate", NoBytes)
      BY <1>13, <2>3 DEF GetJobCertificate, GetFederatedCertificate
    <3>2. "certificate" \in Certified /\ "certificate" \notin Reported
      BY DEF Certified, Reported
    <3> QED
      BY <2>1, <3>1, <3>2, HandStep
  <2> QED
    BY <2>2, <2>3
<1>14. ASSUME NEW k \in Readers, NEW user \in Viewers,
              \/ GetAttestation(k, user) \/ ListJobs(k, user) \/ GetJob(k, user)
              \/ GetFederatedJob(k, user) \/ ListReviews(k, user)
       PROVE  ResultsInv'
  <2>1. PICK what \in Reported : Hand(k, user, what, attested)
    BY <1>14 DEF GetAttestation, ListJobs, GetJob, GetFederatedJob, ListReviews, Reported
  <2>2. /\ user \in {Owner, DataOwner, Operator} /\ result \in {"job", "partial"}
        /\ result = "partial" => user = Owner
    BY <1>14 DEF GetAttestation, ListJobs, GetJob, GetFederatedJob, ListReviews
  <2>3. what \notin Certified /\ attested \in Bytes \cup {NoBytes}
    BY <1>0 DEF Certified, Reported, ResultsTypeOK
  <2> QED
    BY <2>1, <2>2, <2>3, HandStep
<1>15. CASE UNCHANGED resultVars
  BY <1>0, <1>15 DEF resultVars, ResultsInv, ResultsTypeOK, OnlyReleasedShown, ReportsKept,
                     CertificateBinds, Established, Free, Ready
<1> QED
  BY <1>1, <1>2, <1>3, <1>4, <1>5, <1>6, <1>7, <1>8, <1>9, <1>10, <1>11, <1>12, <1>13, <1>14, <1>15
  DEF ResultsNext

\* compute/worker.go:393, service.go:709, certificate.go:18: for any users, readers and
\* outputs, only released bytes leave, to the buyer; the fingerprint in the report of one
\* that was not goes to its buyer, reviewer and seller only; and what is certified or
\* registered is what is downloaded, unless a worker without a lease overwrote it.
THEOREM ResultsCorrect == ResultsSpec => []ResultsInv
<1> QED
  BY ResultsStart, ResultsStep, PTL DEF ResultsSpec

-----------------------------------------------------------------------------
\* The joint model.  What each party adds for a pair, the other takes away: over all
\* parties the masks add up to nothing.
Share(p, q) == IF p < q THEN pairMask[<<p, q>>] ELSE -pairMask[<<q, p>>]
Shares(p)   == SumFunctionOnSet([q \in cohort \ {p} |-> Share(p, q)], cohort \ {p})

\* The parties, their reports and their masks are numbers.
LocalModels ==
  /\ cohort \in PartySets /\ weight \in [cohort -> Weights] /\ samples \in [cohort -> Samples]
  /\ pairMask \in [Pairs(cohort) -> Masks]

\* What the aggregator has was sent as the parties mask it, and is added up once all sent.
MaskedInv ==
  /\ LocalModels /\ DOMAIN sent \subseteq cohort
  /\ \A p \in DOMAIN sent : sent[p] = Mask(p)
  /\ model # <<>> => Total(samples) > 0 /\ model = <<FedAvg, Total(samples)>>

LEMMA CohortNumbers ==
  ASSUME LocalModels
  PROVE  /\ IsFiniteSet(cohort) /\ cohort \subseteq Nat
         /\ \A p \in cohort : weight[p] \in Int /\ samples[p] \in Int /\ samples[p] * weight[p] \in Int
         /\ \A p, q \in cohort : p # q => Share(p, q) \in Int /\ Share(p, q) = -Share(q, p)
<1>1. IsFiniteSet(cohort) /\ cohort \subseteq Nat
  BY AggregationAssumption DEF LocalModels
<1>2. ASSUME NEW p \in cohort
      PROVE  weight[p] \in Int /\ samples[p] \in Int /\ samples[p] * weight[p] \in Int
  <2>1. weight[p] \in Weights /\ samples[p] \in Samples
    BY DEF LocalModels
  <2>2. weight[p] \in Int /\ samples[p] \in Int
    BY <2>1, AggregationAssumption
  <2> QED
    BY <2>2
<1>3. ASSUME NEW p \in cohort, NEW q \in cohort, p < q PROVE pairMask[<<p, q>>] \in Int
  <2>1. <<p, q>> \in Pairs(cohort)
    BY <1>3 DEF Pairs
  <2> QED
    BY <2>1, AggregationAssumption DEF LocalModels
<1>4. ASSUME NEW p \in cohort, NEW q \in cohort, p # q
      PROVE  Share(p, q) \in Int /\ Share(p, q) = -Share(q, p)
  <2>0. p \in Nat /\ q \in Nat
    BY <1>1
  <2>1. CASE p < q
    <3>1. ~ (q < p) /\ pairMask[<<p, q>>] \in Int
      BY <1>3, <2>0, <2>1
    <3> QED
      BY <2>1, <3>1 DEF Share
  <2>2. CASE q < p
    <3>1. ~ (p < q) /\ pairMask[<<q, p>>] \in Int
      BY <1>3, <2>0, <2>2
    <3> QED
      BY <2>2, <3>1 DEF Share
  <2> QED
    BY <1>4, <2>0, <2>1, <2>2
<1> QED
  BY <1>1, <1>2, <1>4

\* Over any parties, what the pairs among them share adds up to nothing.
LEMMA SharesCancel ==
  ASSUME LocalModels
  PROVE  SumFunctionOnSet([p \in cohort |-> Shares(p)], cohort) = 0
<1> DEFINE Row(p, T) == SumFunctionOnSet([q \in T \ {p} |-> Share(p, q)], T \ {p})
           All(T) == SumFunctionOnSet([p \in T |-> Row(p, T)], T)
           P == {T \in SUBSET cohort : All(T) = 0}
<1>0. /\ IsFiniteSet(cohort)
      /\ \A p, q \in cohort : p # q => Share(p, q) \in Int /\ Share(p, q) = -Share(q, p)
  BY CohortNumbers
<1> HIDE DEF Row
<1>a. ASSUME NEW T \in SUBSET cohort, NEW p \in cohort PROVE Row(p, T) \in Int
  <2> DEFINE f == [q \in T \ {p} |-> Share(p, q)]
  <2>1. IsFiniteSet(T \ {p}) /\ \A q \in T \ {p} : f[q] \in Int
    BY <1>0, FS_Subset
  <2> HIDE DEF f
  <2>2. SumFunctionOnSet(f, T \ {p}) \in Int
    BY <2>1, SumInt
  <2> QED
    BY <2>2 DEF Row, f
<1>1. {} \in P
  BY SumEmpty
<1>2. ASSUME NEW T \in SUBSET cohort, NEW x \in cohort \ T, T \in P PROVE T \cup {x} \in P
  <2> DEFINE U == T \cup {x}
             line == [p \in U |-> Row(p, U)]
             old == [p \in T |-> Row(p, T)]
             col == [p \in T |-> Share(p, x)]
             new == [p \in T |-> Share(x, p)]
             zero == [p \in T |-> 0]
  <2>0. IsFiniteSet(T) /\ U \in SUBSET cohort
    BY <1>0, FS_Subset
  <2>1. ASSUME NEW p \in T PROVE Row(p, U) = Share(p, x) + Row(p, T)
    <3> DEFINE f == [q \in T \ {p} |-> Share(p, q)]
               g == [q \in U \ {p} |-> Share(p, q)]
    <3>1. /\ IsFiniteSet(T \ {p}) /\ x \notin T \ {p} /\ U \ {p} = (T \ {p}) \cup {x}
          /\ \A q \in T \ {p} : f[q] \in Int /\ f[q] = g[q]
          /\ \A q \in T \ {p} : g[q] \in Int
          /\ g[x] \in Int /\ g[x] = Share(p, x)
      BY <1>0, FS_Subset
    <3> HIDE DEF f, g, U
    <3>2. SumFunctionOnSet(g, (T \ {p}) \cup {x}) = g[x] + SumFunctionOnSet(g, T \ {p})
      BY <3>1, SumAdd
    <3>3. SumFunctionOnSet(g, T \ {p}) = SumFunctionOnSet(f, T \ {p})
      BY <3>1, SumAgree
    <3>4. SumFunctionOnSet(g, U \ {p}) = Share(p, x) + SumFunctionOnSet(f, T \ {p})
      BY <3>1, <3>2, <3>3, Zenon
    <3> QED
      BY <3>4 DEF Row, f, g
  <2>2. Row(x, U) = SumFunctionOnSet(new, T)
    <3>1. U \ {x} = T
      OBVIOUS
    <3>2. [q \in U \ {x} |-> Share(x, q)] = new
      BY <3>1
    <3> HIDE DEF new, U
    <3> QED
      BY <3>1, <3>2, Zenon DEF Row
  <2>3. /\ \A p \in T : old[p] \in Int /\ col[p] \in Int /\ new[p] \in Int /\ zero[p] = 0
        /\ \A p \in T : line[p] = col[p] + old[p] /\ zero[p] = col[p] + new[p]
        /\ \A p \in T : line[p] \in Int
        /\ line[x] \in Int /\ line[x] = Row(x, U)
    <3>1. ASSUME NEW p \in T
          PROVE  /\ Row(p, T) \in Int /\ Share(p, x) \in Int /\ Share(x, p) \in Int
                 /\ Share(p, x) + Share(x, p) = 0 /\ Row(p, U) \in Int
      BY <1>0, <1>a, <2>0
    <3>2. Row(x, U) \in Int
      BY <1>a, <2>0
    <3> HIDE DEF U
    <3>3. x \in U /\ T \subseteq U
      BY DEF U
    <3> QED
      BY <2>1, <3>1, <3>2, <3>3
  <2> HIDE DEF line, old, col, new, zero
  <2>4. SumFunctionOnSet(line, T \cup {x}) = line[x] + SumFunctionOnSet(line, T)
    BY <2>0, <2>3, SumAdd
  <2>5. SumFunctionOnSet(line, T) = SumFunctionOnSet(col, T) + SumFunctionOnSet(old, T)
    BY <2>0, <2>3, SumPlus
  <2>6. SumFunctionOnSet(zero, T) = SumFunctionOnSet(col, T) + SumFunctionOnSet(new, T)
    BY <2>0, <2>3, SumPlus
  <2>7. SumFunctionOnSet(zero, T) = 0
    BY <2>0, <2>3, SumZeros
  <2>8. SumFunctionOnSet(old, T) = 0
    BY <1>2 DEF old
  <2>9. SumFunctionOnSet(col, T) \in Int /\ SumFunctionOnSet(new, T) \in Int
    BY <2>0, <2>3, SumInt
  <2>10. SumFunctionOnSet(line, T \cup {x}) = 0
    BY <2>2, <2>3, <2>4, <2>5, <2>6, <2>7, <2>8, <2>9
  <2> QED
    BY <2>0, <2>10 DEF line
<1>3. cohort \in P
  <2> HIDE DEF P
  <2> QED
    BY <1>0, <1>1, <1>2, SetInduction
<1>4. [p \in cohort |-> Row(p, cohort)] = [p \in cohort |-> Shares(p)]
  BY DEF Row, Shares
<1> QED
  BY <1>3, <1>4

\* All the masked contributions add up to FedAvg's sum.
LEMMA MasksGone ==
  ASSUME LocalModels, NEW f, \A p \in cohort : f[p] = Mask(p)
  PROVE  SumFunctionOnSet(f, cohort) = FedAvg
<1> DEFINE plain == [p \in cohort |-> samples[p] * weight[p]]
           hide  == [p \in cohort |-> Shares(p)]
<1>0. IsFiniteSet(cohort)
  BY CohortNumbers
<1>1. ASSUME NEW p \in cohort
      PROVE  plain[p] \in Int /\ hide[p] \in Int /\ f[p] = plain[p] + hide[p]
  <2> DEFINE share == [q \in cohort \ {p} |-> Share(p, q)]
  <2>1. IsFiniteSet(cohort \ {p}) /\ \A q \in cohort \ {p} : share[q] \in Int
    BY CohortNumbers, FS_Subset
  <2>2. SumFunctionOnSet(share, cohort \ {p}) \in Int
    <3> HIDE DEF share
    <3> QED
      BY <2>1, SumInt
  <2>3. Shares(p) \in Int
    BY <2>2 DEF Shares
  <2>4. Mask(p) = samples[p] * weight[p] + Shares(p)
    BY DEF Mask, Shares, Share
  <2>5. samples[p] * weight[p] \in Int
    BY CohortNumbers
  <2> QED
    BY <2>3, <2>4, <2>5
<1>2. SumFunctionOnSet(hide, cohort) = 0
  BY SharesCancel
<1>3. FedAvg = SumFunctionOnSet(plain, cohort)
  BY DEF FedAvg
<1> HIDE DEF plain, hide
<1>4. SumFunctionOnSet(f, cohort) = SumFunctionOnSet(plain, cohort) + SumFunctionOnSet(hide, cohort)
  BY <1>0, <1>1, SumPlus
<1>5. SumFunctionOnSet(plain, cohort) \in Int
  BY <1>0, <1>1, SumInt
<1> QED
  BY <1>2, <1>3, <1>4, <1>5

-----------------------------------------------------------------------------
\* The noise.  A number of samples no larger, and a change no larger: a product no larger.
LEMMA ProductWithin ==
  ASSUME NEW n \in Nat, NEW m \in Nat, n <= m, NEW d \in Int, NEW e \in Nat, d <= e, -d <= e
  PROVE  n * d <= m * e /\ -(n * d) <= m * e
<1>1. n * d <= n * e /\ -(n * d) <= n * e
  OBVIOUS
<1>2. n * e <= m * e
  OBVIOUS
<1>3. n * d \in Int /\ n * e \in Int /\ m * e \in Int
  OBVIOUS
<1> QED
  BY <1>1, <1>2, <1>3

\* A finite set of numbers that has one has a largest.
LEMMA Largest ==
  ASSUME NEW S, IsFiniteSet(S), S # {}, S \subseteq Int
  PROVE  \E n \in S : \A m \in S : n >= m
<1> DEFINE P == {T \in SUBSET S : T = {} \/ \E n \in T : \A m \in T : n >= m}
<1>1. {} \in P
  OBVIOUS
<1>2. ASSUME NEW T \in SUBSET S, NEW x \in S \ T, T \in P PROVE T \cup {x} \in P
  <2>1. CASE T = {}
    BY <2>1
  <2>2. ASSUME NEW n \in T, \A m \in T : n >= m PROVE T \cup {x} \in P
    <3>1. n \in Int /\ x \in Int /\ T \subseteq Int
      OBVIOUS
    <3>2. CASE n >= x
      BY <2>2, <3>1, <3>2
    <3>3. CASE x > n
      <4>1. \A m \in T \cup {x} : x >= m
        BY <2>2, <3>1, <3>3
      <4> QED
        BY <4>1
    <3> QED
      BY <3>1, <3>2, <3>3
  <2> QED
    BY <1>2, <2>1, <2>2
<1> HIDE DEF P
<1>3. S \in P
  BY <1>1, <1>2, SetInduction
<1> QED
  BY <1>3 DEF P

\* Numbers within a bound times their counts add up within the bound times the count.
LEMMA SumWithin ==
  ASSUME NEW S, IsFiniteSet(S), NEW f, NEW n, NEW C \in Nat,
         \A x \in S : f[x] \in Int /\ n[x] \in Nat /\ f[x] <= C * n[x] /\ -f[x] <= C * n[x]
  PROVE  /\ SumFunctionOnSet(f, S) \in Int /\ SumFunctionOnSet(n, S) \in Nat
         /\ SumFunctionOnSet(f, S) <= C * SumFunctionOnSet(n, S)
         /\ -SumFunctionOnSet(f, S) <= C * SumFunctionOnSet(n, S)
<1> DEFINE F(T) == SumFunctionOnSet(f, T)
           M(T) == SumFunctionOnSet(n, T)
           P == {T \in SUBSET S : F(T) \in Int /\ M(T) \in Nat /\ F(T) <= C * M(T) /\ -F(T) <= C * M(T)}
<1>1. {} \in P
  <2>1. F({}) = 0 /\ M({}) = 0
    BY SumEmpty
  <2> HIDE DEF F, M
  <2> QED
    BY <2>1
<1>2. ASSUME NEW T \in SUBSET S, NEW x \in S \ T, T \in P PROVE T \cup {x} \in P
  <2>1. /\ IsFiniteSet(T) /\ x \notin T /\ f[x] \in Int /\ n[x] \in Int
        /\ \A y \in T : f[y] \in Int
        /\ \A y \in T : n[y] \in Int
    BY FS_Subset
  <2>2. F(T \cup {x}) = f[x] + F(T) /\ M(T \cup {x}) = n[x] + M(T)
    <3>1. F(T \cup {x}) = f[x] + F(T)
      BY <2>1, SumAdd
    <3>2. M(T \cup {x}) = n[x] + M(T)
      BY <2>1, SumAdd
    <3> QED
      BY <3>1, <3>2
  <2> HIDE DEF F, M
  <2>3. PICK a, b \in Int : a = f[x] /\ b = F(T) /\ a <= C * n[x] /\ -a <= C * n[x]
                           /\ b <= C * M(T) /\ -b <= C * M(T)
    BY <1>2
  <2>4. PICK k, l \in Nat : k = n[x] /\ l = M(T)
    BY <1>2
  <2>5. C * (k + l) = C * k + C * l /\ C * k \in Int /\ C * l \in Int
    OBVIOUS
  <2>6. a + b <= C * (k + l) /\ -(a + b) <= C * (k + l)
    BY <2>3, <2>4, <2>5
  <2> QED
    BY <2>2, <2>3, <2>4, <2>6
<1> HIDE DEF P
<1>3. S \in P
  BY <1>1, <1>2, SetInduction
<1> QED
  BY <1>3 DEF P

\* One party reports b samples of e instead of a of d, no more than before; the others
\* have B samples that add up to A, within the clip C.
LEMMA ReportMoves ==
  ASSUME NEW A \in Int, NEW B \in Nat, NEW C \in Nat, A <= C * B, -A <= C * B,
         NEW a \in Nat, NEW b \in Nat, b <= a,
         NEW d \in Int, d <= C, -d <= C, NEW e \in Int, e <= C, -e <= C
  PROVE  LET far == (b * e + A) * (a + B) - (a * d + A) * (b + B)
         IN  far <= 2 * C * a * (b + B) /\ -far <= 2 * C * a * (b + B)
<1> DEFINE less == (a - b) * A
           shift == B * (b * e - a * d)
           swap == (a * b) * (e - d)
<1>1. (b * e + A) * (a + B) - (a * d + A) * (b + B) = less + shift + swap
  OBVIOUS
<1>2. less <= (a - b) * (C * B) /\ -less <= (a - b) * (C * B)
  <2>1. a - b \in Nat /\ C * B \in Nat
    OBVIOUS
  <2> QED
    BY <2>1, ProductWithin
<1>3. shift <= B * (C * (a + b)) /\ -shift <= B * (C * (a + b))
  <2>1. b * e <= b * C /\ -(b * e) <= b * C /\ a * d <= a * C /\ -(a * d) <= a * C
    BY ProductWithin
  <2>2. b * e \in Int /\ a * d \in Int /\ a * C \in Nat /\ b * C \in Nat /\ C * (a + b) = a * C + b * C
    OBVIOUS
  <2>3. b * e - a * d \in Int /\ C * (a + b) \in Nat
    BY <2>2
  <2>4. b * e - a * d <= C * (a + b) /\ -(b * e - a * d) <= C * (a + b)
    BY <2>1, <2>2
  <2> QED
    BY <2>3, <2>4, ProductWithin
<1>4. swap <= (a * b) * (2 * C) /\ -swap <= (a * b) * (2 * C)
  <2>1. a * b \in Nat /\ 2 * C \in Nat /\ e - d \in Int /\ e - d <= 2 * C /\ -(e - d) <= 2 * C
    OBVIOUS
  <2> QED
    BY <2>1, ProductWithin
<1>5. (a - b) * (C * B) + B * (C * (a + b)) + (a * b) * (2 * C) = 2 * C * a * (b + B)
  OBVIOUS
<1>6. /\ less \in Int /\ shift \in Int /\ swap \in Int
      /\ (a - b) * (C * B) \in Int /\ B * (C * (a + b)) \in Int /\ (a * b) * (2 * C) \in Int
  OBVIOUS
<1> HIDE DEF less, shift, swap
<1>7. /\ less + shift + swap <= 2 * C * a * (b + B)
      /\ -(less + shift + swap) <= 2 * C * a * (b + B)
  BY <1>2, <1>3, <1>4, <1>5, <1>6
<1> QED
  BY <1>1, <1>7

\* The sensitivity takes the largest count, or none.
LEMMA LargestCount ==
  ASSUME NEW T, IsFiniteSet(T), NEW n, DOMAIN n = T, \A q \in T : n[q] \in Int
  PROVE  \E most \in Nat : /\ Sensitivity(n) = 2 * Clip * most
                           /\ \A q \in T : n[q] <= most
<1> DEFINE R == {0} \cup Range(n)
           most == CHOOSE k \in R : \A m \in R : k >= m
<1>1. R = {0} \cup {n[q] : q \in T}
  BY DEF Range
<1>2. IsFiniteSet({n[q] : q \in T})
  <2> DEFINE V == {n[q] : q \in T}
             k == [q \in T |-> n[q]]
  <2>1. k \in Surjection(T, V)
    BY DEF Surjection
  <2> HIDE DEF V, k
  <2>2. IsFiniteSet(V)
    BY <2>1, FS_Surjection
  <2> QED
    BY <2>2 DEF V
<1>3. IsFiniteSet(R)
  BY <1>1, <1>2, FS_AddElement
<1>4. R # {} /\ R \subseteq Int /\ 0 \in R /\ \A q \in T : n[q] \in R
  BY <1>1
<1>5. \E k \in R : \A m \in R : k >= m
  <2> HIDE DEF R
  <2> QED
    BY <1>3, <1>4, Largest
<1>6. most \in R /\ \A m \in R : most >= m
  <2>1. most = CHOOSE k \in R : \A m \in R : k >= m
    OBVIOUS
  <2> HIDE DEF most, R
  <2> QED
    BY <1>5, <2>1
<1>7. Sensitivity(n) = 2 * Clip * most
  BY DEF Sensitivity
<1> HIDE DEF most, R
<1>8. most \in Nat /\ \A q \in T : n[q] <= most
  BY <1>4, <1>6
<1> QED
  BY <1>7, <1>8

\* dp.go: what one party reports moves its own term and its own count; the larger of its
\* two counts bounds how far.
LEMMA NoiseCovers ==
  ASSUME LocalModels
  PROVE  NoiseCoversReport
<1> SUFFICES ASSUME NEW p \in cohort, NEW x \in Weights, NEW n \in Samples \cap Nat,
                    \A q \in cohort : samples[q] >= 0
             PROVE  LET other == [samples EXCEPT ![p] = n]
                        far == Clipped([weight EXCEPT ![p] = x], other) * Total(samples)
                                   - Clipped(weight, samples) * Total(other)
                        limits == {Sensitivity(samples) * Total(other),
                                   Sensitivity(other) * Total(samples)}
                    IN  \E most \in limits : -most <= far /\ far <= most
  BY DEF NoiseCoversReport
<1> DEFINE other == [samples EXCEPT ![p] = n]
           theirs == [weight EXCEPT ![p] = x]
           f == [q \in cohort |-> samples[q] * Clamp(weight[q])]
           g == [q \in cohort |-> other[q] * Clamp(theirs[q])]
           rest == cohort \ {p}
           A == SumFunctionOnSet(f, rest)
           B == SumFunctionOnSet(samples, rest)
           a == samples[p]
           d == Clamp(weight[p])
           e == Clamp(x)
<1>0. /\ IsFiniteSet(cohort) /\ x \in Int /\ Clip \in Nat /\ n \in Nat
      /\ \A q \in cohort : weight[q] \in Int /\ samples[q] \in Nat
  BY CohortNumbers, AggregationAssumption
<1>1. \A y \in Int : Clamp(y) \in Int /\ Clamp(y) <= Clip /\ -Clamp(y) <= Clip
  BY <1>0 DEF Clamp
<1>2. /\ DOMAIN samples = cohort /\ DOMAIN other = cohort /\ DOMAIN theirs = cohort
      /\ other[p] = n /\ \A q \in rest : other[q] = samples[q]
      /\ theirs[p] = x /\ \A q \in rest : theirs[q] = weight[q]
      /\ \A q \in cohort : other[q] \in Nat /\ theirs[q] \in Int
  BY <1>0 DEF LocalModels
<1>3. /\ IsFiniteSet(rest) /\ cohort = rest \cup {p} /\ p \notin rest
  BY <1>0, FS_Subset
<1>4. /\ a \in Nat /\ d \in Int /\ d <= Clip /\ -d <= Clip /\ e \in Int /\ e <= Clip /\ -e <= Clip
  BY <1>0, <1>1
<1>5. /\ f[p] = a * d /\ g[p] = n * e
      /\ \A q \in rest : f[q] = samples[q] * Clamp(weight[q]) /\ g[q] = f[q]
  BY <1>2
<1>6. ASSUME NEW q \in rest
      PROVE  f[q] \in Int /\ samples[q] \in Nat /\ f[q] <= Clip * samples[q] /\ -f[q] <= Clip * samples[q]
  <2>1. PICK c \in Int : c = Clamp(weight[q]) /\ c <= Clip /\ -c <= Clip
    BY <1>0, <1>1
  <2>2. PICK k \in Nat : k = samples[q]
    BY <1>0
  <2>3. f[q] = k * c
    BY <1>5, <2>1, <2>2
  <2>4. k * c <= k * Clip /\ -(k * c) <= k * Clip
    BY <1>0, <2>1, ProductWithin
  <2>5. k * c \in Int /\ k * Clip = Clip * k
    BY <1>0
  <2> QED
    BY <2>2, <2>3, <2>4, <2>5
<1> HIDE DEF f, g, other, theirs, rest, d, e, a
<1>7. A \in Int /\ B \in Nat /\ A <= Clip * B /\ -A <= Clip * B
  BY <1>0, <1>3, <1>6, SumWithin
<1>8. SumFunctionOnSet(f, cohort) = a * d + A
  <2>1. f[p] \in Int
    BY <1>4, <1>5
  <2>2. SumFunctionOnSet(f, rest \cup {p}) = f[p] + A
    BY <1>3, <1>6, <2>1, SumAdd
  <2> QED
    BY <1>3, <1>5, <2>2
<1>9. SumFunctionOnSet(g, cohort) = n * e + A
  <2>1. g[p] \in Int /\ \A q \in rest : g[q] \in Int /\ g[q] = f[q]
    BY <1>0, <1>4, <1>5, <1>6
  <2>2. SumFunctionOnSet(g, rest \cup {p}) = g[p] + SumFunctionOnSet(g, rest)
    BY <1>3, <2>1, SumAdd
  <2>3. SumFunctionOnSet(g, rest) = A
    BY <1>3, <2>1, SumAgree
  <2> QED
    BY <1>3, <1>5, <2>2, <2>3
<1>10. SumFunctionOnSet(samples, cohort) = a + B
  <2>1. a = samples[p] /\ samples[p] \in Int /\ \A q \in rest : samples[q] \in Int
    BY <1>0, <1>3 DEF a
  <2>2. SumFunctionOnSet(samples, rest \cup {p}) = samples[p] + B
    BY <1>3, <2>1, SumAdd
  <2> QED
    BY <1>3, <2>1, <2>2
<1>11. SumFunctionOnSet(other, cohort) = n + B
  <2>1. /\ other[p] = n /\ other[p] \in Int
        /\ \A q \in rest : other[q] \in Int /\ other[q] = samples[q]
    BY <1>0, <1>2, <1>3
  <2>2. SumFunctionOnSet(other, rest \cup {p}) = other[p] + SumFunctionOnSet(other, rest)
    BY <1>3, <2>1, SumAdd
  <2>3. SumFunctionOnSet(other, rest) = B
    BY <1>3, <2>1, SumAgree
  <2> QED
    BY <1>3, <2>1, <2>2, <2>3
<1>12. /\ Clipped(weight, samples) = a * d + A /\ Total(samples) = a + B
       /\ Clipped(theirs, other) = n * e + A /\ Total(other) = n + B
  BY <1>8, <1>9, <1>10, <1>11 DEF Clipped, Total, f, g
<1>13. PICK most \in Nat : Sensitivity(samples) = 2 * Clip * most /\ a <= most
  <2>1. \A q \in cohort : samples[q] \in Int
    BY <1>0
  <2>2. PICK k \in Nat : Sensitivity(samples) = 2 * Clip * k /\ \A q \in cohort : samples[q] <= k
    BY <1>0, <1>2, <2>1, LargestCount
  <2> QED
    BY <2>2 DEF a
<1>14. PICK more \in Nat : Sensitivity(other) = 2 * Clip * more /\ n <= more
  <2>1. \A q \in cohort : other[q] \in Int
    BY <1>2
  <2>2. PICK k \in Nat : Sensitivity(other) = 2 * Clip * k /\ \A q \in cohort : other[q] <= k
    BY <1>0, <1>2, <2>1, LargestCount
  <2> QED
    BY <1>2, <2>2
<1> HIDE DEF A, B
<1> DEFINE far == (n * e + A) * (a + B) - (a * d + A) * (n + B)
<1>15. \E limit \in {2 * Clip * most * (n + B), 2 * Clip * more * (a + B)} : -limit <= far /\ far <= limit
  <2>0. /\ far \in Int /\ 2 * Clip \in Nat /\ n + B \in Nat /\ a + B \in Nat
        /\ n \in Int /\ a \in Int
    BY <1>0, <1>4, <1>7
  <2>1. \A k, l, m, t \in Nat : k <= l => m * k * t <= m * l * t
    <3> SUFFICES ASSUME NEW k \in Nat, NEW l \in Nat, NEW m \in Nat, NEW t \in Nat, k <= l
                 PROVE  m * k * t <= m * l * t
      OBVIOUS
    <3>1. m * k <= m * l
      BY ProductWithin
    <3>2. m * k \in Nat /\ m * l \in Nat
      OBVIOUS
    <3>3. (m * k) * t <= (m * l) * t
      BY <3>1, <3>2, ProductWithin
    <3> QED
      BY <3>3
  <2>2. CASE n <= a
    <3>1. far <= 2 * Clip * a * (n + B) /\ -far <= 2 * Clip * a * (n + B)
      BY <1>0, <1>4, <1>7, <2>2, ReportMoves
    <3>2. 2 * Clip * a * (n + B) <= 2 * Clip * most * (n + B)
      BY <1>4, <1>13, <2>0, <2>1
    <3>3. 2 * Clip * a * (n + B) \in Int /\ 2 * Clip * most * (n + B) \in Int
      BY <1>0, <1>4, <1>7, <1>13
    <3> HIDE DEF far
    <3>4. -(2 * Clip * most * (n + B)) <= far /\ far <= 2 * Clip * most * (n + B)
      BY <2>0, <3>1, <3>2, <3>3
    <3> QED
      BY <3>4
  <2>3. CASE a <= n
    <3>0. (a * d + A) * (n + B) - (n * e + A) * (a + B) = -far
      BY <1>0, <1>4, <1>7
    <3>1. /\ (a * d + A) * (n + B) - (n * e + A) * (a + B) <= 2 * Clip * n * (a + B)
          /\ -((a * d + A) * (n + B) - (n * e + A) * (a + B)) <= 2 * Clip * n * (a + B)
      BY <1>0, <1>4, <1>7, <2>3, ReportMoves
    <3>2. 2 * Clip * n * (a + B) <= 2 * Clip * more * (a + B)
      BY <1>0, <1>14, <2>0, <2>1
    <3>3. 2 * Clip * n * (a + B) \in Int /\ 2 * Clip * more * (a + B) \in Int
      BY <1>0, <1>4, <1>7, <1>14
    <3> HIDE DEF far
    <3>4. -(2 * Clip * more * (a + B)) <= far /\ far <= 2 * Clip * more * (a + B)
      BY <2>0, <3>0, <3>1, <3>2, <3>3
    <3> QED
      BY <3>4
  <2> QED
    BY <2>0, <2>2, <2>3
<1> QED
  BY <1>12, <1>13, <1>14, <1>15 DEF other, theirs

-----------------------------------------------------------------------------
\* Nothing is sent at first.
LEMMA MaskedStart == AggregationInit => MaskedInv
<1> SUFFICES ASSUME AggregationInit PROVE MaskedInv
  OBVIOUS
<1>1. DOMAIN sent = {} /\ model = <<>>
  BY DEF AggregationInit
<1> QED
  BY <1>1 DEF AggregationInit, MaskedInv, LocalModels

\* A masked contribution, or the sum of them all, keeps the invariant.
LEMMA MaskedStep == MaskedInv /\ [AggregationNext]_aggregationVars => MaskedInv'
<1> SUFFICES ASSUME MaskedInv, [AggregationNext]_aggregationVars PROVE MaskedInv'
  OBVIOUS
<1>0. LocalModels
  BY DEF MaskedInv
<1>1. CASE UNCHANGED <<cohort, weight, samples, pairMask>>
  <2>1. LocalModels' /\ Total(samples)' = Total(samples) /\ FedAvg' = FedAvg
    BY <1>0, <1>1 DEF LocalModels, Pairs, Total, FedAvg
  <2>2. \A p \in cohort : Mask(p)' = Mask(p)
    BY <1>1 DEF Mask
  <2>3. ASSUME NEW p \in cohort, SendMasked(p) PROVE MaskedInv'
    <3>1. DOMAIN sent' = DOMAIN sent \cup {p} /\ model' = <<>> /\ cohort' = cohort
      BY <1>1, <2>3 DEF SendMasked
    <3>2. \A q \in DOMAIN sent' : sent'[q] = Mask(q)
      BY <2>3, <3>1 DEF SendMasked, MaskedInv
    <3>3. DOMAIN sent' \subseteq cohort
      BY <3>1 DEF MaskedInv
    <3> QED
      BY <2>1, <2>2, <3>1, <3>2, <3>3 DEF MaskedInv
  <2>4. CASE MaskedSum
    <3>1. /\ DOMAIN sent = cohort /\ Total(samples) > 0 /\ sent' = sent /\ cohort' = cohort
          /\ model' = <<SumFunctionOnSet(sent, cohort), Total(samples)>>
      BY <2>4 DEF MaskedSum
    <3>2. SumFunctionOnSet(sent, cohort) = FedAvg
      BY <1>0, <3>1, MasksGone DEF MaskedInv
    <3>3. \A q \in DOMAIN sent' : sent'[q] = Mask(q)'
      BY <2>2, <3>1 DEF MaskedInv
    <3> QED
      BY <2>1, <3>1, <3>2, <3>3 DEF MaskedInv
  <2>5. CASE UNCHANGED aggregationVars
    <3>1. sent' = sent /\ model' = model /\ cohort' = cohort
      BY <2>5 DEF aggregationVars
    <3>2. \A q \in DOMAIN sent' : sent'[q] = Mask(q)'
      BY <2>2, <3>1 DEF MaskedInv
    <3> QED
      BY <2>1, <3>1, <3>2 DEF MaskedInv
  <2> QED
    BY <2>3, <2>4, <2>5 DEF AggregationNext
<1> QED
  BY <1>1 DEF AggregationNext, SendMasked, MaskedSum, aggregationVars

\* secagg.go, dp.go: for any cohort, reports and masks, the joint model from masked
\* contributions is FedAvg's, and no report of a party, parameter and count, moves a
\* coordinate of the clipped mean beyond what the noise is scaled to.
THEOREM AggregationCorrect == AggregationSpec => []AggregationInv
<1>1. MaskedInv => AggregationInv
  <2> SUFFICES ASSUME MaskedInv PROVE AggregationInv
    OBVIOUS
  <2>0. LocalModels
    BY DEF MaskedInv
  <2>1. ASSUME NEW p \in DOMAIN sent PROVE sent[p] \in Int
    <3> DEFINE share == [q \in cohort \ {p} |-> Share(p, q)]
    <3>0. p \in cohort /\ sent[p] = Mask(p)
      BY DEF MaskedInv
    <3>1. IsFiniteSet(cohort \ {p}) /\ \A q \in cohort \ {p} : share[q] \in Int
      BY <2>0, <3>0, CohortNumbers, FS_Subset
    <3>2. Mask(p) = samples[p] * weight[p] + SumFunctionOnSet(share, cohort \ {p})
      BY DEF Mask, Share
    <3> HIDE DEF share
    <3>3. SumFunctionOnSet(share, cohort \ {p}) \in Int
      BY <3>1, SumInt
    <3>4. samples[p] * weight[p] \in Int
      BY <2>0, <3>0, CohortNumbers
    <3> QED
      BY <3>0, <3>2, <3>3, <3>4
  <2>2. AggregationTypeOK
    <3>1. model # <<>> => model[2] > 0
      <4>1. model # <<>> => model[2] = Total(samples) /\ Total(samples) > 0
        BY DEF MaskedInv
      <4> QED
        BY <4>1
    <3>2. DOMAIN sent \subseteq cohort
      BY DEF MaskedInv
    <3> QED
      BY <2>0, <2>1, <3>1, <3>2 DEF AggregationTypeOK, LocalModels
  <2> QED
    BY <2>0, <2>2, NoiseCovers DEF AggregationInv, MasksCancel, MaskedInv
<1> QED
  BY <1>1, MaskedStart, MaskedStep, PTL DEF AggregationSpec

-----------------------------------------------------------------------------
\* The intersection.  The points of one list were all raised by the same secrets: B.
RaisedBy(p, R) ==
  \E B \in SUBSET Secrets :
     /\ points[p] = [i \in DOMAIN list[p] |-> [elem |-> list[p][i], by |-> B]]
     /\ \A s \in B : s[2] <= secret[s[1]]
     /\ {s[1] : s \in B} = R

\* The parties that have raised p's points so far.
Raised(p) ==
  IF psiStage = "round1" THEN {p}
  ELSE IF psiStage # "reblind" \/ p < from THEN Party
  ELSE IF p = from THEN {p} \cup 1 .. via - 1 ELSE {p}

PointsInv ==
  \A p \in Party :
     IF psiStage = "failed" THEN points[p] = <<>> \/ \E R : p \in R /\ RaisedBy(p, R)
     ELSE IF psiStage = "round1" /\ p >= from THEN points[p] = <<>>
     ELSE RaisedBy(p, Raised(p))

PsiInv ==
  /\ list \in [Party -> Lists] /\ secret \in [Party -> 0 .. MaxRestarts]
  /\ points = [p \in Party |-> points[p]]
  /\ psiStage \in {"round1", "reblind", "match", "label", "done", "failed"}
  /\ from \in Party /\ via \in Party /\ (psiStage = "round1" => via = 1)
  /\ PointsInv
  /\ match \subseteq DOMAIN list[1]
  /\ psiStage \in {"label", "done"} => match = {i \in DOMAIN points[1] : Matches(i)}
  /\ psiStage = "done" => found = {list[1][i] : i \in match}

LEMMA PartyNumbers ==
  /\ PartyCount \in Nat /\ PartyCount >= 2 /\ 1 \in Party /\ MaxRestarts \in Nat
  /\ Party = 1 .. PartyCount /\ \A p \in Party : p \in Nat /\ 1 <= p /\ p <= PartyCount
  BY IntersectionAssumption DEF Party

LEMMA ListNumbers ==
  ASSUME list \in [Party -> Lists], NEW p \in Party
  PROVE  \E n \in Nat : DOMAIN list[p] = 1 .. n
  BY IntersectionAssumption

\* Nobody has raised anything yet.
LEMMA PsiStart == IntersectionInit => PsiInv
<1> SUFFICES ASSUME IntersectionInit PROVE PsiInv
  OBVIOUS
<1> USE PartyNumbers DEF IntersectionInit
<1>1. secret \in [Party -> 0 .. MaxRestarts] /\ points = [p \in Party |-> points[p]]
  OBVIOUS
<1>2. PointsInv
  BY DEF PointsInv
<1> QED
  BY <1>1, <1>2 DEF PsiInv

\* One party more raises the points.
LEMMA Blinds ==
  ASSUME secret \in [Party -> 0 .. MaxRestarts], NEW p \in Party, NEW v \in Party, NEW R,
         RaisedBy(p, R)
  PROVE  \E B \in SUBSET Secrets :
            /\ Blind(points[p], v) = [i \in DOMAIN list[p] |-> [elem |-> list[p][i], by |-> B]]
            /\ \A s \in B : s[2] <= secret[s[1]]
            /\ {s[1] : s \in B} = R \cup {v}
<1>1. PICK B \in SUBSET Secrets :
         /\ points[p] = [i \in DOMAIN list[p] |-> [elem |-> list[p][i], by |-> B]]
         /\ \A s \in B : s[2] <= secret[s[1]]
         /\ {s[1] : s \in B} = R
  BY DEF RaisedBy
<1> DEFINE mine == <<v, secret[v]>>
           C == B \cup {mine}
<1>2. secret[v] \in 0 .. MaxRestarts
  OBVIOUS
<1>3. mine \in Secrets /\ mine[1] = v /\ mine[2] = secret[v] /\ secret[v] <= secret[v]
  BY <1>2, PartyNumbers DEF Secrets
<1>4. Blind(points[p], v) = [i \in DOMAIN list[p] |-> [elem |-> list[p][i], by |-> C]]
  <2>1. DOMAIN points[p] = DOMAIN list[p]
    BY <1>1
  <2>2. \A i \in DOMAIN list[p] : [points[p][i] EXCEPT !.by = @ \cup {mine}]
                                     = [elem |-> list[p][i], by |-> C]
    <3> SUFFICES ASSUME NEW i \in DOMAIN list[p]
                 PROVE  [points[p][i] EXCEPT !.by = @ \cup {mine}] = [elem |-> list[p][i], by |-> C]
      OBVIOUS
    <3>1. PICK pt : pt = points[p][i]
      OBVIOUS
    <3>2. pt = [elem |-> list[p][i], by |-> B]
      BY <1>1, <3>1
    <3>3. [pt EXCEPT !.by = @ \cup {mine}] = [elem |-> list[p][i], by |-> C]
      BY <3>2
    <3> QED
      BY <3>1, <3>3
  <2> QED
    BY <2>1, <2>2 DEF Blind
<1> HIDE DEF mine
<1>5. \A s \in C : s[2] <= secret[s[1]]
  BY <1>1, <1>3
<1>6. {s[1] : s \in C} = R \cup {v}
  BY <1>1, <1>3
<1>7. C \in SUBSET Secrets
  BY <1>3
<1> HIDE DEF C
<1> QED
  BY <1>4, <1>5, <1>6, <1>7

\* What was raised stays raised when nothing changes, or a secret grows.
LEMMA StaysRaised ==
  ASSUME NEW p \in Party, NEW R, RaisedBy(p, R), R \subseteq Party,
         points'[p] = points[p], list' = list,
         secret \in [Party -> Nat], secret' \in [Party -> Nat], \A q \in Party : secret[q] <= secret'[q]
  PROVE  RaisedBy(p, R)'
<1>1. PICK B \in SUBSET Secrets :
         /\ points[p] = [i \in DOMAIN list[p] |-> [elem |-> list[p][i], by |-> B]]
         /\ \A s \in B : s[2] <= secret[s[1]]
         /\ {s[1] : s \in B} = R
  BY DEF RaisedBy
<1>2. \A s \in B : s[2] <= secret'[s[1]]
  <2> SUFFICES ASSUME NEW s \in B PROVE s[2] <= secret'[s[1]]
    OBVIOUS
  <2>1. s[1] \in Party /\ s[2] \in Nat
    BY PartyNumbers DEF Secrets
  <2> QED
    BY <1>1, <2>1
<1>3. points'[p] = [i \in DOMAIN list'[p] |-> [elem |-> list'[p][i], by |-> B]]
  BY <1>1
<1> QED
  BY <1>1, <1>2, <1>3 DEF RaisedBy, Secrets

LEMMA PsiStep == PsiInv /\ [IntersectionNext]_psiVars => PsiInv'
<1> SUFFICES ASSUME PsiInv, [IntersectionNext]_psiVars PROVE PsiInv'
  OBVIOUS
<1> USE PartyNumbers
<1>0. /\ list \in [Party -> Lists] /\ secret \in [Party -> 0 .. MaxRestarts] /\ secret \in [Party -> Nat]
      /\ points = [p \in Party |-> points[p]] /\ DOMAIN points = Party
      /\ from \in Party /\ via \in Party /\ match \subseteq DOMAIN list[1]
      /\ PointsInv /\ \A p \in Party : Raised(p) \subseteq Party
  <2>1. \A p \in Party : Raised(p) \subseteq Party
    BY DEF Raised, PsiInv
  <2> QED
    BY <2>1 DEF PsiInv
<1>a. ASSUME UNCHANGED <<list, secret>>, NEW p \in Party, NEW R, R \subseteq Party, RaisedBy(p, R),
             points'[p] = points[p]
      PROVE  RaisedBy(p, R)'
  <2>1. secret' \in [Party -> Nat] /\ \A q \in Party : secret[q] <= secret'[q]
    BY <1>0, <1>a
  <2> QED
    BY <1>0, <1>a, <2>1, StaysRaised
<1>1. CASE Round1
  <2>f. PICK f \in Party : f = from
    BY <1>0
  <2>0. /\ psiStage = "round1" /\ via = 1 /\ via' = 1 /\ UNCHANGED <<list, secret, match, found>>
        /\ points' = [points EXCEPT ![f] = Blind(Hashed(f), f)]
        /\ \/ f < PartyCount /\ from' = f + 1 /\ psiStage' = "round1"
           \/ f = PartyCount /\ from' = 1 /\ psiStage' = "reblind"
    <3>1. /\ psiStage = "round1" /\ UNCHANGED <<list, secret, via, match, found>>
          /\ points' = [points EXCEPT ![from] = Blind(Hashed(from), from)]
          /\ IF from < PartyCount THEN from' = from + 1 /\ UNCHANGED psiStage
                                  ELSE from' = 1 /\ psiStage' = "reblind"
      BY <1>1 DEF Round1
    <3>2. via = 1
      BY <3>1 DEF PsiInv
    <3>3. points' = [points EXCEPT ![f] = Blind(Hashed(f), f)]
      BY <2>f, <3>1
    <3>4. \/ f < PartyCount /\ from' = f + 1 /\ psiStage' = "round1"
          \/ f = PartyCount /\ from' = 1 /\ psiStage' = "reblind"
      BY <2>f, <3>1
    <3> QED
      BY <3>1, <3>2, <3>3, <3>4
  <2>1. from' \in Party
    BY <2>0
  <2>2. RaisedBy(f, {f})'
    <3> DEFINE mine == <<f, secret[f]>>
               B == {mine}
    <3>1. secret[f] \in 0 .. MaxRestarts
      BY <1>0
    <3>2. mine \in Secrets /\ mine[1] = f /\ mine[2] = secret[f] /\ secret[f] <= secret[f]
      BY <1>0, <3>1 DEF Secrets
    <3>3. Blind(Hashed(f), f) = [i \in DOMAIN list[f] |-> [elem |-> list[f][i], by |-> B]]
      <4>1. Hashed(f) = [i \in DOMAIN list[f] |-> [elem |-> list[f][i], by |-> {}]]
        BY DEF Hashed
      <4>2. ASSUME NEW i \in DOMAIN list[f]
            PROVE  [Hashed(f)[i] EXCEPT !.by = @ \cup {mine}] = [elem |-> list[f][i], by |-> B]
        <5>1. PICK pt : pt = Hashed(f)[i]
          OBVIOUS
        <5>2. PICK e : e = list[f][i]
          OBVIOUS
        <5>3. pt = [elem |-> e, by |-> {}]
          BY <4>1, <5>1, <5>2
        <5>4. pt.by \cup {mine} = B
          BY <5>3
        <5> HIDE DEF mine, B
        <5>5. [pt EXCEPT !.by = pt.by \cup {mine}] = [elem |-> e, by |-> pt.by \cup {mine}]
          <6>1. PICK C : C = pt.by \cup {mine}
            OBVIOUS
          <6>2. [pt EXCEPT !.by = C] = [elem |-> e, by |-> C]
            BY <5>3
          <6> QED
            BY <6>1, <6>2
        <5> QED
          BY <5>1, <5>2, <5>4, <5>5
      <4>3. DOMAIN Hashed(f) = DOMAIN list[f]
        BY <4>1
      <4>4. Blind(Hashed(f), f) = [i \in DOMAIN list[f] |-> [Hashed(f)[i] EXCEPT !.by = @ \cup {mine}]]
        BY <4>3 DEF Blind
      <4> QED
        BY <4>2, <4>4
    <3>4. points'[f] = Blind(Hashed(f), f)
      BY <1>0, <2>0
    <3>c. PICK C : C = B
      OBVIOUS
    <3> HIDE DEF mine
    <3>5. (\A s \in B : s[2] <= secret'[s[1]]) /\ {s[1] : s \in B} = {f}
      BY <2>0, <3>2
    <3>6. points'[f] = [i \in DOMAIN list'[f] |-> [elem |-> list'[f][i], by |-> B]]
      BY <2>0, <3>3, <3>4
    <3>7. B \in SUBSET Secrets
      BY <3>2
    <3> HIDE DEF B
    <3>8. /\ C \in SUBSET Secrets /\ (\A s \in C : s[2] <= secret'[s[1]]) /\ {s[1] : s \in C} = {f}
          /\ points'[f] = [i \in DOMAIN list'[f] |-> [elem |-> list'[f][i], by |-> C]]
      BY <3>c, <3>5, <3>6, <3>7
    <3> QED
      BY <3>8 DEF RaisedBy, Secrets
  <2>3. ASSUME NEW p \in Party, p < f PROVE RaisedBy(p, {p})'
    <3>1. RaisedBy(p, {p})
      BY <1>0, <2>f, <2>0, <2>3 DEF PointsInv, Raised
    <3>2. points'[p] = points[p]
      BY <1>0, <2>0, <2>3
    <3>3. {p} \subseteq Party
      OBVIOUS
    <3> QED
      BY <1>a, <2>0, <3>1, <3>2, <3>3
  <2>4. ASSUME NEW p \in Party, p > f PROVE points'[p] = <<>>
    <3>1. points[p] = <<>>
      BY <1>0, <2>f, <2>0, <2>4 DEF PointsInv
    <3> QED
      BY <1>0, <2>0, <2>4, <3>1
  <2>5. PointsInv'
    <3>1. CASE f < PartyCount /\ from' = f + 1 /\ psiStage' = "round1"
      <4>0. ASSUME NEW p \in Party
            PROVE  IF p >= from' THEN points'[p] = <<>> ELSE RaisedBy(p, {p})'
        <5>1. CASE p = f
          BY <2>2, <3>1, <5>1
        <5>2. CASE p < f
          BY <2>3, <3>1, <5>2
        <5>3. CASE p > f
          BY <2>4, <3>1, <5>3
        <5> QED
          BY <5>1, <5>2, <5>3
      <4>1. \A p \in Party : Raised(p)' = {p}
        BY <3>1 DEF Raised
      <4>2. \A p \in Party : RaisedBy(p, {p})' => RaisedBy(p, Raised(p))'
        BY <4>1 DEF RaisedBy
      <4> QED
        BY <3>1, <4>0, <4>2 DEF PointsInv
    <3>2. CASE f = PartyCount /\ from' = 1 /\ psiStage' = "reblind"
      <4>1. ASSUME NEW p \in Party PROVE RaisedBy(p, {p})'
        <5>1. CASE p = f
          BY <2>2, <5>1
        <5>2. CASE p < f
          BY <2>3, <5>2
        <5> QED
          BY <3>2, <5>1, <5>2
      <4>2. \A p \in Party : Raised(p)' = {p}
        BY <2>0, <3>2 DEF Raised
      <4>3. \A p \in Party : RaisedBy(p, Raised(p))'
        BY <4>1, <4>2 DEF RaisedBy
      <4> QED
        BY <3>2, <4>3 DEF PointsInv
    <3> QED
      BY <2>0, <3>1, <3>2
  <2>6. points' = [p \in Party |-> points'[p]]
    BY <1>0, <2>0
  <2> QED
    BY <1>0, <2>0, <2>1, <2>5, <2>6 DEF PsiInv
<1>2. CASE Reblind
  <2>f. PICK f \in Party : f = from
    BY <1>0
  <2>v. PICK v \in Party : v = via
    BY <1>0
  <2>0. /\ psiStage = "reblind" /\ UNCHANGED <<list, secret, match, found>>
        /\ points' = IF v = f THEN points ELSE [points EXCEPT ![f] = Blind(points[f], v)]
        /\ \/ v < PartyCount /\ via' = v + 1 /\ from' = f /\ psiStage' = "reblind"
           \/ v = PartyCount /\ via' = 1 /\ f < PartyCount /\ from' = f + 1 /\ psiStage' = "reblind"
           \/ v = PartyCount /\ via' = 1 /\ f = PartyCount /\ from' = f /\ psiStage' = "match"
    BY <1>0, <1>2, <2>f, <2>v DEF Reblind
  <2>1. from' \in Party /\ via' \in Party
    BY <2>0
  <2>2. RaisedBy(f, {f} \cup 1 .. v)'
    <3>1. RaisedBy(f, {f} \cup 1 .. v - 1)
      <4>1. RaisedBy(f, Raised(f))
        BY <1>0, <2>0 DEF PointsInv
      <4>2. Raised(f) = {f} \cup 1 .. v - 1
        BY <2>0, <2>f, <2>v DEF Raised
      <4> QED
        BY <4>1, <4>2
    <3>2. CASE v = f
      <4>1. {f} \cup 1 .. v = {f} \cup 1 .. v - 1 /\ {f} \cup 1 .. v - 1 \subseteq Party
        BY <3>2
      <4>2. points'[f] = points[f]
        BY <2>0, <3>2
      <4>3. RaisedBy(f, {f} \cup 1 .. v - 1)'
        BY <1>a, <2>0, <3>1, <4>1, <4>2
      <4> QED
        BY <4>1, <4>3
    <3>3. CASE v # f
      <4>1. PICK B \in SUBSET Secrets :
              /\ Blind(points[f], v) = [i \in DOMAIN list[f] |-> [elem |-> list[f][i], by |-> B]]
              /\ \A s \in B : s[2] <= secret[s[1]]
              /\ {s[1] : s \in B} = ({f} \cup 1 .. v - 1) \cup {v}
        BY ZenonT(40), <1>0, <3>1, Blinds
      <4>2. ({f} \cup 1 .. v - 1) \cup {v} = {f} \cup 1 .. v
        OBVIOUS
      <4>3. points'[f] = Blind(points[f], v)
        BY <1>0, <2>0, <3>3
      <4>4. /\ points'[f] = [i \in DOMAIN list'[f] |-> [elem |-> list'[f][i], by |-> B]]
            /\ \A s \in B : s[2] <= secret'[s[1]]
            /\ {s[1] : s \in B} = {f} \cup 1 .. v
        BY <2>0, <4>1, <4>2, <4>3
      <4> QED
        BY <4>4 DEF RaisedBy, Secrets
    <3> QED
      BY <3>2, <3>3
  <2>3. ASSUME NEW p \in Party, p # f PROVE RaisedBy(p, Raised(p))'
    <3>1. RaisedBy(p, Raised(p)) /\ points'[p] = points[p]
      BY <1>0, <2>0, <2>3 DEF PointsInv
    <3>2. Raised(p)' = Raised(p)
      <4>1. CASE p < f
        <5>1. Raised(p) = Party
          BY <2>f, <2>0, <4>1 DEF Raised
        <5>2. Raised(p)' = Party
          BY <2>0, <4>1 DEF Raised
        <5> QED
          BY <5>1, <5>2
      <4>2. CASE p > f
        <5>1. Raised(p) = {p}
          BY <2>f, <2>0, <4>2 DEF Raised
        <5>2. Raised(p)' = {p}
          <6>1. CASE from' = f /\ psiStage' = "reblind"
            BY <4>2, <6>1 DEF Raised
          <6>2. CASE from' = f + 1 /\ via' = 1 /\ psiStage' = "reblind"
            <7>1. 1 .. via' - 1 = {} /\ ~ (p < from')
              BY <4>2, <6>2
            <7> QED
              BY <6>2, <7>1 DEF Raised
          <6> QED
            BY <2>0, <4>2, <6>1, <6>2
        <5> QED
          BY <5>1, <5>2
      <4> QED
        BY <2>3, <4>1, <4>2
    <3>3. PICK R : R = Raised(p) /\ R \subseteq Party
      BY <1>0
    <3>4. RaisedBy(p, R)'
      BY <1>a, <2>0, <3>1, <3>3
    <3>5. R = Raised(p)'
      BY <3>2, <3>3
    <3> QED
      BY <3>4, <3>5 DEF RaisedBy
  <2>4. RaisedBy(f, Raised(f))'
    <3>1. Raised(f)' = {f} \cup 1 .. v
      <4>1. CASE v < PartyCount /\ via' = v + 1 /\ from' = f /\ psiStage' = "reblind"
        BY <4>1 DEF Raised
      <4>2. CASE v = PartyCount /\ via' = 1 /\ f < PartyCount /\ from' = f + 1 /\ psiStage' = "reblind"
        BY <4>2 DEF Raised
      <4>3. CASE v = PartyCount /\ psiStage' = "match"
        BY <4>3 DEF Raised
      <4> QED
        BY <2>0, <4>1, <4>2, <4>3
    <3> QED
      BY <2>2, <3>1 DEF RaisedBy
  <2>5. \A p \in Party : RaisedBy(p, Raised(p))'
    BY <2>3, <2>4
  <2>6. PointsInv'
    BY <2>0, <2>5 DEF PointsInv
  <2>7. points' = [p \in Party |-> points'[p]]
    BY <1>0, <2>0
  <2> QED
    BY <1>0, <2>0, <2>1, <2>6, <2>7 DEF PsiInv
<1>3. CASE MatchPoints \/ Label
  <2>0. /\ UNCHANGED <<list, secret, points, from, via>> /\ psiStage \in {"match", "label"}
        /\ psiStage' \in {"label", "done"}
    BY <1>3 DEF MatchPoints, Label
  <2>1. ASSUME NEW p \in Party PROVE RaisedBy(p, Raised(p))'
    <3>1. RaisedBy(p, Raised(p)) /\ Raised(p) = Party /\ Raised(p)' = Party
      BY <1>0, <2>0 DEF PointsInv, Raised
    <3>2. RaisedBy(p, Party)
      BY <3>1
    <3>3. RaisedBy(p, Party)'
      BY <1>a, <2>0, <3>2
    <3> QED
      BY <3>1, <3>3 DEF RaisedBy
  <2>2. PointsInv'
    BY <2>0, <2>1 DEF PointsInv
  <2>3. CASE MatchPoints
    <3>1. match' = {i \in DOMAIN points[1] : Matches(i)} /\ psiStage' = "label" /\ psiStage = "match"
      BY <2>3 DEF MatchPoints
    <3>2. \A i : Matches(i)' <=> Matches(i)
      BY <2>0 DEF Matches, Keys
    <3>3. DOMAIN points[1] = DOMAIN list[1]
      BY <1>0, <3>1 DEF PointsInv, RaisedBy
    <3>4. match' = {i \in DOMAIN points'[1] : Matches(i)'} /\ match' \subseteq DOMAIN list'[1]
      BY <2>0, <3>1, <3>2, <3>3
    <3> QED
      BY <1>0, <2>0, <2>2, <3>1, <3>4 DEF PsiInv
  <2>4. CASE Label
    <3>1. match' = match /\ psiStage = "label" /\ psiStage' = "done" /\ found' = {list[1][i] : i \in match}
      BY <2>4 DEF Label
    <3>2. \A i : Matches(i)' <=> Matches(i)
      BY <2>0 DEF Matches, Keys
    <3>3. match' = {i \in DOMAIN points'[1] : Matches(i)'}
      BY <2>0, <3>1, <3>2 DEF PsiInv
    <3> QED
      BY <1>0, <2>0, <2>2, <3>1, <3>3 DEF PsiInv
  <2> QED
    BY <1>3, <2>3, <2>4
<1>4. CASE PsiError
  <2>0. /\ UNCHANGED <<list, secret, points, from, via, match, found>>
        /\ psiStage \notin {"done", "failed"} /\ psiStage' = "failed"
    BY <1>4 DEF PsiError
  <2>1. ASSUME NEW p \in Party PROVE points'[p] = <<>> \/ \E R : p \in R /\ RaisedBy(p, R)'
    <3>1. points[p] = <<>> \/ (p \in Raised(p) /\ RaisedBy(p, Raised(p)))
      BY <1>0, <2>0 DEF PointsInv, Raised
    <3>2. CASE points[p] = <<>>
      BY <2>0, <3>2
    <3>3. CASE p \in Raised(p) /\ RaisedBy(p, Raised(p))
      <4>1. PICK R : R = Raised(p) /\ R \subseteq Party
        BY <1>0
      <4>2. RaisedBy(p, R)'
        BY <1>a, <2>0, <3>3, <4>1
      <4> QED
        BY <3>3, <4>1, <4>2
    <3> QED
      BY <3>1, <3>2, <3>3
  <2>2. PointsInv'
    BY <2>0, <2>1 DEF PointsInv
  <2> QED
    BY <1>0, <2>0, <2>2 DEF PsiInv
<1>5. ASSUME NEW q \in Party, PartyRestarts(q) PROVE PsiInv'
  <2>0. /\ UNCHANGED <<list, points, psiStage, from, via, match, found>>
        /\ secret' = [secret EXCEPT ![q] = secret[q] + 1] /\ secret[q] < MaxRestarts
        /\ psiStage \notin {"done", "failed"}
    BY <1>0, <1>5 DEF PartyRestarts
  <2>1. /\ secret' \in [Party -> 0 .. MaxRestarts] /\ secret' \in [Party -> Nat]
        /\ \A p \in Party : secret[p] <= secret'[p]
    BY <1>0, <2>0
  <2>2. ASSUME NEW p \in Party, RaisedBy(p, Raised(p)) PROVE RaisedBy(p, Raised(p))'
    <3>1. PICK R : R = Raised(p) /\ R \subseteq Party
      BY <1>0
    <3>2. RaisedBy(p, R)'
      BY <1>0, <2>0, <2>1, <2>2, <3>1, StaysRaised
    <3>3. R = Raised(p)'
      BY <2>0, <3>1 DEF Raised
    <3> QED
      BY <3>2, <3>3 DEF RaisedBy
  <2>3. PointsInv'
    BY <1>0, <2>0, <2>2 DEF PointsInv
  <2>4. \A i : Matches(i)' <=> Matches(i)
    BY <2>0 DEF Matches, Keys
  <2>5. psiStage \in {"label", "done"} => match' = {i \in DOMAIN points'[1] : Matches(i)'}
    BY <2>0, <2>4 DEF PsiInv
  <2> QED
    BY <1>0, <2>0, <2>1, <2>3, <2>5 DEF PsiInv
<1>6. CASE UNCHANGED psiVars
  <2>0. UNCHANGED <<list, secret, points, psiStage, from, via, match, found>>
    BY <1>6 DEF psiVars
  <2>1. PointsInv'
    <3>1. \A p \in Party : Raised(p)' = Raised(p)
      BY <2>0 DEF Raised
    <3>2. \A p, R : RaisedBy(p, R)' <=> RaisedBy(p, R)
      BY <2>0 DEF RaisedBy, Secrets
    <3>3. ASSUME NEW p \in Party, RaisedBy(p, Raised(p)) PROVE RaisedBy(p, Raised(p))'
      <4>1. PICK R : R = Raised(p)
        OBVIOUS
      <4>2. RaisedBy(p, R)' /\ R = Raised(p)'
        BY <3>1, <3>2, <3>3, <4>1
      <4> QED
        BY <4>2 DEF RaisedBy
    <3> QED
      BY <1>0, <2>0, <3>2, <3>3 DEF PointsInv
  <2>2. \A i : Matches(i)' <=> Matches(i)
    BY <2>0 DEF Matches, Keys
  <2>3. psiStage \in {"label", "done"} => match' = {i \in DOMAIN points'[1] : Matches(i)'}
    BY <2>0, <2>2 DEF PsiInv
  <2> QED
    BY <1>0, <2>0, <2>1, <2>3 DEF PsiInv
<1> QED
  BY <1>1, <1>2, <1>3, <1>4, <1>5, <1>6 DEF IntersectionNext

-----------------------------------------------------------------------------
\* A list's elements: each first occurs somewhere.
LEMMA FirstPlace ==
  ASSUME list \in [Party -> Lists], NEW e \in Range(list[1])
  PROVE  \E i \in DOMAIN list[1] : list[1][i] = e /\ \A k \in 1 .. i - 1 : k \in DOMAIN list[1] /\ list[1][k] # e
<1>1. PICK n \in Nat : DOMAIN list[1] = 1 .. n
  BY ListNumbers, PartyNumbers
<1> DEFINE T == {i \in DOMAIN list[1] : list[1][i] = e}
<1>2. T \subseteq Nat /\ T # {}
  BY <1>1 DEF Range
<1>3. PICK i \in T : \A k \in T : i <= k
  <2> HIDE DEF T
  <2> QED
    BY <1>2, Least
<1>4. i \in Nat /\ i \in 1 .. n
  BY <1>1
<1>5. ASSUME NEW k \in 1 .. i - 1 PROVE k \in DOMAIN list[1] /\ list[1][k] # e
  <2>1. k \in 1 .. n /\ k \in Nat /\ ~ (i <= k)
    BY <1>4
  <2>2. k \notin T
    BY <1>3, <2>1
  <2> QED
    BY <1>1, <2>1, <2>2
<1> QED
  BY <1>3, <1>5

\* The first of each kind: as many places as elements.
LEMMA OnePlaceEach ==
  ASSUME list \in [Party -> Lists], NEW T, T \subseteq DOMAIN list[1],
         \A i, j \in T : list[1][i] = list[1][j] => i = j
  PROVE  Cardinality(T) = Cardinality({list[1][i] : i \in T})
<1> DEFINE f == [i \in T |-> list[1][i]]
           E == {list[1][i] : i \in T}
<1>1. PICK n \in Nat : DOMAIN list[1] = 1 .. n
  BY ListNumbers, PartyNumbers
<1>2. IsFiniteSet(T)
  BY <1>1, FS_Interval, FS_Subset
<1>a. f \in [T -> E]
  OBVIOUS
<1>b. \A e \in E : \E i \in T : f[i] = e
  OBVIOUS
<1>c. \A i, j \in T : f[i] = f[j] => i = j
  OBVIOUS
<1> HIDE DEF f, E
<1>3. f \in Surjection(T, E) /\ f \in Injection(T, E)
  BY <1>a, <1>b, <1>c, Zenon DEF Surjection, Injection, IsInjective
<1>4. Cardinality(E) = Cardinality(T)
  BY <1>2, <1>3, FS_Surjection
<1> QED
  BY <1>4 DEF E

\* psi_transport.go: the labelled elements are the common ones.
LEMMA TransportExact == ASSUME PsiInv PROVE IntersectionExact
<1> SUFFICES ASSUME psiStage = "done"
             PROVE  /\ found \subseteq Common
                    /\ (\A p \in Party : secret[p] = 0) => found = Common
                    /\ Cardinality(match) = Cardinality(found)
  BY DEF IntersectionExact
<1> USE PartyNumbers
<1>0. /\ list \in [Party -> Lists] /\ match = {i \in DOMAIN points[1] : Matches(i)}
      /\ found = {list[1][i] : i \in match}
      /\ \A p \in Party : RaisedBy(p, Party)
  BY DEF PsiInv, PointsInv, Raised
<1>1. ASSUME NEW p \in Party
      PROVE  \E B \in SUBSET Secrets :
               /\ points[p] = [i \in DOMAIN list[p] |-> [elem |-> list[p][i], by |-> B]]
               /\ \A s \in B : s[2] <= secret[s[1]]
               /\ {s[1] : s \in B} = Party
  BY <1>0 DEF RaisedBy
<1>2. PICK One \in SUBSET Secrets :
         /\ points[1] = [i \in DOMAIN list[1] |-> [elem |-> list[1][i], by |-> One]]
         /\ \A s \in One : s[2] <= secret[s[1]]
         /\ {s[1] : s \in One} = Party
  BY <1>1
<1>3. /\ DOMAIN points[1] = DOMAIN list[1]
      /\ \A i \in DOMAIN list[1] : points[1][i] = [elem |-> list[1][i], by |-> One]
  BY <1>2
<1>4. \A i, j \in DOMAIN list[1] : points[1][i] = points[1][j] <=> list[1][i] = list[1][j]
  <2> SUFFICES ASSUME NEW i \in DOMAIN list[1], NEW j \in DOMAIN list[1]
               PROVE  points[1][i] = points[1][j] <=> list[1][i] = list[1][j]
    OBVIOUS
  <2>0. PICK a, b : a = points[1][i] /\ b = points[1][j]
    OBVIOUS
  <2>a. a = [elem |-> list[1][i], by |-> One] /\ b = [elem |-> list[1][j], by |-> One]
    BY <1>3, <2>0
  <2>b. a.elem = list[1][i] /\ b.elem = list[1][j]
    BY <2>a
  <2>1. points[1][i].elem = list[1][i] /\ points[1][j].elem = list[1][j]
    BY <2>0, <2>b
  <2>2. list[1][i] = list[1][j] => points[1][i] = points[1][j]
    BY <1>3
  <2> QED
    BY <2>1, <2>2
<1>5. ASSUME NEW i \in DOMAIN list[1], NEW p \in Party, points[1][i] \in Keys(p)
      PROVE  list[1][i] \in Range(list[p])
  <2>1. PICK B \in SUBSET Secrets : points[p] = [k \in DOMAIN list[p] |-> [elem |-> list[p][k], by |-> B]]
    BY <1>1
  <2>2. PICK k \in DOMAIN points[p] : points[p][k] = points[1][i]
    BY <1>5 DEF Keys, Range
  <2>3. k \in DOMAIN list[p] /\ points[p][k].elem = list[p][k]
    BY <2>1, <2>2
  <2>a. PICK pt : pt = points[1][i]
    OBVIOUS
  <2>b. pt = [elem |-> list[1][i], by |-> One]
    BY <1>3, <2>a
  <2>c. pt.elem = list[1][i]
    BY <2>b
  <2>4. points[1][i].elem = list[1][i]
    BY <2>a, <2>c
  <2> QED
    BY <2>2, <2>3, <2>4 DEF Range
<1>6. found \subseteq Common
  <2> SUFFICES ASSUME NEW i \in match PROVE list[1][i] \in Common
    BY <1>0
  <2>1. i \in DOMAIN list[1] /\ \A p \in Party \ {1} : points[1][i] \in Keys(p)
    BY <1>0, <1>3 DEF Matches
  <2>2. list[1][i] \in Range(list[1])
    BY <2>1 DEF Range
  <2> QED
    BY <1>5, <2>1, <2>2 DEF Common
<1>7. ASSUME \A p \in Party : secret[p] = 0, NEW e \in Common PROVE e \in found
  <2>1. PICK i \in DOMAIN list[1] :
           list[1][i] = e /\ \A k \in 1 .. i - 1 : k \in DOMAIN list[1] /\ list[1][k] # e
    BY <1>0, FirstPlace DEF Common
  <2>2. ASSUME NEW B \in SUBSET Secrets, \A s \in B : s[2] <= secret[s[1]], {s[1] : s \in B} = Party
        PROVE  B = Party \X {0}
    <3>1. \A s \in B : s \in Party \X {0}
      <4> SUFFICES ASSUME NEW s \in B PROVE s \in Party \X {0}
        OBVIOUS
      <4>1. s \in Party \X (0 .. MaxRestarts)
        BY DEF Secrets
      <4>2. s[1] \in Party /\ s[2] \in Nat /\ s[2] <= 0 /\ s = <<s[1], s[2]>>
        BY <1>7, <2>2, <4>1
      <4> QED
        BY <4>2
    <3>2. ASSUME NEW p \in Party PROVE <<p, 0>> \in B
      <4>1. PICK s \in B : s[1] = p
        BY <2>2
      <4>2. s = <<p, 0>>
        BY <3>1, <4>1
      <4> QED
        BY <4>1, <4>2
    <3> QED
      BY <3>1, <3>2
  <2>3. One = Party \X {0}
    BY <1>2, <2>2
  <2>4. ASSUME NEW p \in Party PROVE points[1][i] \in Keys(p)
    <3>1. PICK B \in SUBSET Secrets :
             /\ points[p] = [k \in DOMAIN list[p] |-> [elem |-> list[p][k], by |-> B]]
             /\ \A s \in B : s[2] <= secret[s[1]]
             /\ {s[1] : s \in B} = Party
      BY <1>1
    <3>2. B = One
      BY <2>2, <2>3, <3>1
    <3>3. PICK k \in DOMAIN list[p] : list[p][k] = e
      BY DEF Common, Range
    <3>4. points[p][k] = [elem |-> e, by |-> One] /\ k \in DOMAIN points[p]
      BY <3>1, <3>2, <3>3
    <3>5. points[1][i] = [elem |-> e, by |-> One]
      BY <1>3, <2>1
    <3> QED
      BY <3>4, <3>5 DEF Keys, Range
  <2>5. \A k \in 1 .. i - 1 : points[1][k] # points[1][i]
    BY <1>4, <2>1
  <2>6. Matches(i)
    BY <2>4, <2>5 DEF Matches
  <2> QED
    BY <1>0, <1>3, <2>1, <2>6
<1>8. Cardinality(match) = Cardinality(found)
  <2>1. match \subseteq DOMAIN list[1]
    BY <1>0, <1>3
  <2>2. ASSUME NEW i \in match, NEW j \in match, list[1][i] = list[1][j] PROVE i = j
    <3>1. /\ points[1][i] = points[1][j]
          /\ \A k \in 1 .. i - 1 : points[1][k] # points[1][i]
          /\ \A k \in 1 .. j - 1 : points[1][k] # points[1][j]
      BY <1>0, <1>4, <2>1, <2>2 DEF Matches
    <3>2. PICK n \in Nat : DOMAIN list[1] = 1 .. n
      BY <1>0, ListNumbers
    <3>3. i \in 1 .. n /\ j \in 1 .. n
      BY <2>1, <3>2
    <3>4. i \notin 1 .. j - 1 /\ j \notin 1 .. i - 1
      BY <3>1
    <3> QED
      BY <3>3, <3>4
  <2> QED
    BY <1>0, <2>1, <2>2, OnePlaceEach
<1> QED
  BY <1>6, <1>7, <1>8

\* psi_transport.go:22: what the orchestrator holds was raised by its party, and, once
\* points are compared, by all.
LEMMA HeldBlinded == ASSUME PsiInv PROVE OnlyBlinded /\ IntersectionTypeOK
<1> USE PartyNumbers
<1>0. list \in [Party -> Lists] /\ secret \in [Party -> 0 .. MaxRestarts]
  BY DEF PsiInv
<1>1. ASSUME NEW p \in Party, NEW R, p \in R, RaisedBy(p, R)
      PROVE  /\ DOMAIN points[p] = DOMAIN list[p]
             /\ \A i \in DOMAIN points[p] : /\ points[p][i].by \subseteq Secrets
                                            /\ \E n \in 0 .. MaxRestarts : <<p, n>> \in points[p][i].by
                                            /\ {s[1] : s \in points[p][i].by} = R
  <2>1. PICK B \in SUBSET Secrets :
           /\ points[p] = [i \in DOMAIN list[p] |-> [elem |-> list[p][i], by |-> B]]
           /\ {s[1] : s \in B} = R
    BY <1>1 DEF RaisedBy
  <2>2. DOMAIN points[p] = DOMAIN list[p] /\ \A i \in DOMAIN points[p] : points[p][i].by = B
    BY <2>1
  <2>3. PICK s \in B : s[1] = p
    BY <1>1, <2>1
  <2>4. s[2] \in 0 .. MaxRestarts /\ s = <<p, s[2]>>
    BY <2>3 DEF Secrets
  <2> QED
    BY <2>1, <2>2, <2>3, <2>4
<1>2. ASSUME NEW p \in Party
      PROVE  /\ DOMAIN points[p] \subseteq DOMAIN list[p]
             /\ \A i \in DOMAIN points[p] :
                   /\ points[p][i].by \subseteq Secrets
                   /\ \E n \in 0 .. MaxRestarts : <<p, n>> \in points[p][i].by
                   /\ psiStage \in {"match", "label", "done"} => {s[1] : s \in points[p][i].by} = Party
  <2>1. CASE points[p] = <<>> /\ psiStage \in {"round1", "failed"}
    BY <2>1
  <2>2. CASE psiStage = "failed" /\ \E R : p \in R /\ RaisedBy(p, R)
    BY <1>1, <2>2
  <2>3. CASE psiStage \in {"round1", "reblind", "match", "label", "done"} /\ RaisedBy(p, Raised(p))
    <3>1. p \in Raised(p) /\ (psiStage \in {"match", "label", "done"} => Raised(p) = Party)
      BY DEF Raised
    <3>2. PICK R : R = Raised(p)
      OBVIOUS
    <3>3. p \in R /\ RaisedBy(p, R) /\ (psiStage \in {"match", "label", "done"} => R = Party)
      BY <2>3, <3>1, <3>2
    <3> QED
      BY <1>1, <2>3, <3>3
  <2> QED
    BY <2>1, <2>2, <2>3 DEF PsiInv, PointsInv
<1> QED
  BY <1>0, <1>2 DEF OnlyBlinded, IntersectionTypeOK, PsiInv

-----------------------------------------------------------------------------
\* psi.go, psi_ddh.go: the orchestrators of one process find the common elements.
LEMMA OneProcess == ASSUME PsiInv PROVE OrchestratorsAgree
<1> USE PartyNumbers
<1>0. list \in [Party -> Lists]
  BY DEF PsiInv
<1>p. IsFiniteSet(Party) /\ Cardinality(Party) = PartyCount
  <2>1. IsFiniteSet(1 .. PartyCount) /\ Cardinality(1 .. PartyCount) = PartyCount
    BY FS_Interval
  <2> QED
    BY <2>1
<1>1. Mock = Common
  <2>1. ASSUME NEW e PROVE Cardinality({p \in Party : e \in Range(list[p])}) = PartyCount
                             <=> \A p \in Party : e \in Range(list[p])
    <3> DEFINE H == {p \in Party : e \in Range(list[p])}
    <3>1. H \in SUBSET Party
      OBVIOUS
    <3>2. H = Party <=> \A p \in Party : e \in Range(list[p])
      OBVIOUS
    <3> HIDE DEF H
    <3>3. Cardinality(Party) = Cardinality(H) => Party = H
      BY <1>p, <3>1, FS_Subset
    <3>4. Cardinality(H) = PartyCount <=> H = Party
      BY <1>p, <3>3
    <3> QED
      BY <3>2, <3>4 DEF H
  <2> QED
    BY <2>1 DEF Mock, Common
<1>2. Ddh = Common
  <2> DEFINE all == {<<p, secret[p]>> : p \in Party}
             Point(e) == [elem |-> e, by |-> all]
             Blinded(p) == {Point(list[p][i]) : i \in DOMAIN list[p]}
  <2>1. Ddh = {e \in Range(list[1]) : \A p \in Party \ {1} : Point(e) \in Blinded(p)}
    BY DEF Ddh
  <2> HIDE DEF all
  <2>2. ASSUME NEW e, NEW p \in Party PROVE Point(e) \in Blinded(p) <=> e \in Range(list[p])
    <3>1. \A d : Point(e) = Point(d) <=> e = d
      <4> SUFFICES ASSUME NEW d, Point(e) = Point(d) PROVE e = d
        OBVIOUS
      <4>1. Point(e).elem = e /\ Point(d).elem = d
        OBVIOUS
      <4> QED
        BY <4>1
    <3> HIDE DEF Point
    <3> QED
      BY <3>1 DEF Range
  <2> HIDE DEF Point, Blinded
  <2> QED
    BY <2>1, <2>2 DEF Common
<1>3. TwoRound = Common
  <2> DEFINE all == {<<q, secret[q]>> : q \in Party}
             Fully(p) == [i \in DOMAIN list[p] |-> [elem |-> list[p][i], by |-> all]]
             Hit(i) == /\ \A p \in Party \ {1} : Fully(1)[i] \in Range(Fully(p))
                       /\ \A k \in 1 .. i - 1 : Fully(1)[k] # Fully(1)[i]
  <2>1. TwoRound = {list[1][i] : i \in {j \in DOMAIN list[1] : Hit(j)}}
    BY DEF TwoRound
  <2> HIDE DEF all
  <2>2. ASSUME NEW p \in Party, NEW i \in DOMAIN list[p]
        PROVE  Fully(p)[i] = [elem |-> list[p][i], by |-> all] /\ Fully(p)[i].elem = list[p][i]
    OBVIOUS
  <2>3. \A p \in Party : DOMAIN Fully(p) = DOMAIN list[p]
    OBVIOUS
  <2> HIDE DEF Fully
  <2>4. ASSUME NEW i \in DOMAIN list[1], NEW p \in Party
        PROVE  Fully(1)[i] \in Range(Fully(p)) <=> list[1][i] \in Range(list[p])
    <3>1. ASSUME NEW k \in DOMAIN list[p], Fully(1)[i] = Fully(p)[k] PROVE list[1][i] = list[p][k]
      <4>1. Fully(1)[i].elem = list[1][i]
        BY <2>2
      <4>2. Fully(p)[k].elem = list[p][k]
        BY <2>2
      <4> QED
        BY <3>1, <4>1, <4>2
    <3>2. ASSUME NEW k \in DOMAIN list[p], list[1][i] = list[p][k] PROVE Fully(1)[i] = Fully(p)[k]
      <4>1. Fully(1)[i] = [elem |-> list[1][i], by |-> all]
        BY <2>2
      <4>2. Fully(p)[k] = [elem |-> list[p][k], by |-> all]
        BY <2>2
      <4> QED
        BY <3>2, <4>1, <4>2
    <3> QED
      BY <2>3, <3>1, <3>2 DEF Range
  <2>5. ASSUME NEW e \in Common PROVE \E i \in DOMAIN list[1] : Hit(i) /\ list[1][i] = e
    <3>1. PICK i \in DOMAIN list[1] :
             list[1][i] = e /\ \A k \in 1 .. i - 1 : k \in DOMAIN list[1] /\ list[1][k] # e
      BY <1>0, FirstPlace DEF Common
    <3>2. \A p \in Party \ {1} : Fully(1)[i] \in Range(Fully(p))
      BY <2>4, <3>1 DEF Common
    <3>3. ASSUME NEW k \in 1 .. i - 1 PROVE Fully(1)[k] # Fully(1)[i]
      <4>1. Fully(1)[k].elem = list[1][k] /\ Fully(1)[i].elem = e
        BY <2>2, <3>1
      <4> QED
        BY <3>1, <4>1
    <3> QED
      BY <3>1, <3>2, <3>3
  <2>6. ASSUME NEW i \in DOMAIN list[1], Hit(i) PROVE list[1][i] \in Common
    <3>1. list[1][i] \in Range(list[1])
      BY DEF Range
    <3> QED
      BY <2>4, <2>6, <3>1 DEF Common
  <2> HIDE DEF Hit
  <2> QED
    BY <2>1, <2>5, <2>6
<1> QED
  BY <1>1, <1>2, <1>3 DEF OrchestratorsAgree

\* psi_transport.go, psi_ddh.go: for any parties, lists and restarts, the intersection is
\* exact, its orchestrator holds blinded points only, and all orchestrators agree.
THEOREM IntersectionCorrect == IntersectionSpec => []IntersectionInv
<1>1. PsiInv => IntersectionInv
  BY TransportExact, HeldBlinded, OneProcess DEF IntersectionInv
<1> QED
  BY <1>1, PsiStart, PsiStep, PTL DEF IntersectionSpec

-----------------------------------------------------------------------------
\* The output gate.  What is kept of a tree: the root, and what is not replaced under
\* what is kept.
LEMMA KeptNodes ==
  ASSUME NEW t, TreeOK(t)
  PROVE  /\ Kept(t) \subseteq DOMAIN t
         /\ \A n \in DOMAIN t : n \in Kept(t) <=> n = 1 \/ (t[n].parent \in Kept(t) /\ ~Replaced(t, n))
<1> DEFINE Closed(P) == \A n \in P : n = 1 \/ (t[n].parent \in P /\ ~Replaced(t, n))
<1>1. \A n : n \in Kept(t) <=> \E P \in SUBSET DOMAIN t : Closed(P) /\ n \in P
  BY DEF Kept
<1>2. ASSUME NEW n \in DOMAIN t, n \in Kept(t) PROVE n = 1 \/ (t[n].parent \in Kept(t) /\ ~Replaced(t, n))
  BY <1>1, <1>2
<1>3. ASSUME NEW n \in DOMAIN t, n = 1 \/ (t[n].parent \in Kept(t) /\ ~Replaced(t, n)) PROVE n \in Kept(t)
  <2>1. CASE n = 1
    <3>1. Closed({1}) /\ {1} \in SUBSET DOMAIN t
      BY <2>1
    <3> QED
      BY <1>1, <2>1, <3>1
  <2>2. CASE t[n].parent \in Kept(t) /\ ~Replaced(t, n)
    <3>1. PICK P \in SUBSET DOMAIN t : Closed(P) /\ t[n].parent \in P
      BY <1>1, <2>2
    <3>2. Closed(P \cup {n}) /\ P \cup {n} \in SUBSET DOMAIN t
      BY <2>2, <3>1
    <3> QED
      BY <1>1, <3>2
  <2> QED
    BY <1>3, <2>1, <2>2
<1> QED
  BY <1>1, <1>2, <1>3

\* Where a node is, and that its parent comes before it.
LEMMA Places ==
  ASSUME NEW o \in Outputs
  PROVE  /\ \A x : x \in Nodes(o) <=> \E k \in DOMAIN o.files : \E n \in Kept(o.files[k].tree) : x = <<k, n>>
         /\ \A k \in DOMAIN o.files : TreeOK(o.files[k].tree) /\ k \in Nat \ {0}
<1>1. \A k \in DOMAIN o.files : o.files[k] \in Range(o.files)
  BY DEF Range
<1>2. DOMAIN o.files = 1 .. Len(o.files) /\ Len(o.files) \in Nat
  BY OutputsAssumption
<1>3. \A k \in DOMAIN o.files : TreeOK(o.files[k].tree) /\ k \in Nat \ {0}
  BY <1>1, <1>2, OutputsAssumption
<1> QED
  BY <1>3 DEF Nodes

LEMMA NodeFacts ==
  ASSUME NEW o \in Outputs, NEW x \in Nodes(o)
  PROVE  /\ x = <<x[1], x[2]>> /\ x[1] \in DOMAIN o.files /\ x[2] \in DOMAIN o.files[x[1]].tree
         /\ x[2] \in Kept(o.files[x[1]].tree)
         /\ x[1] \in Nat \ {0} /\ x[2] \in Nat \ {0}
         /\ At(o, x).len \in Nat /\ At(o, x).key \in Nat
         /\ x[2] # 1 => /\ Above(o, x) \in Nodes(o) /\ Above(o, x)[1] = x[1]
                        /\ Above(o, x)[2] = At(o, x).parent /\ At(o, x).parent \in 1 .. x[2] - 1
                        /\ ~Replaced(o.files[x[1]].tree, x[2])
         /\ x[2] = 1 => At(o, x).parent = 0
<1>0. PICK k \in DOMAIN o.files : \E n \in Kept(o.files[k].tree) : x = <<k, n>>
  BY Places
<1>2. TreeOK(o.files[k].tree) /\ k \in Nat \ {0}
  BY Places
<1>1. PICK n \in DOMAIN o.files[k].tree : x = <<k, n>> /\ n \in Kept(o.files[k].tree)
  BY <1>0, <1>2, KeptNodes
<1>3. n \in 1 .. Len(o.files[k].tree) /\ Len(o.files[k].tree) \in Nat
  BY <1>2 DEF TreeOK
<1>4. At(o, x) = o.files[k].tree[n]
  BY <1>1 DEF At
<1>5. At(o, x).len \in Nat /\ At(o, x).key \in Nat
  BY <1>2, <1>4 DEF TreeOK
<1>6. n # 1 => /\ At(o, x).parent \in 1 .. n - 1 /\ At(o, x).parent \in Kept(o.files[k].tree)
               /\ ~Replaced(o.files[k].tree, n)
  <2>1. n # 1 => At(o, x).parent \in 1 .. n - 1
    BY <1>2, <1>3, <1>4 DEF TreeOK
  <2> QED
    BY <1>1, <1>2, <1>4, <2>1, KeptNodes
<1>7. n # 1 => Above(o, x) = <<k, At(o, x).parent>> /\ Above(o, x) \in Nodes(o)
  BY <1>1, <1>6, Places DEF Above
<1>8. n = 1 => At(o, x).parent = 0
  BY <1>2, <1>4 DEF TreeOK
<1> QED
  BY <1>1, <1>2, <1>3, <1>5, <1>6, <1>7, <1>8

\* No tree is larger than some number: there are finitely many nodes.
LEMMA LastNode ==
  ASSUME NEW o \in Outputs
  PROVE  \E N \in Nat : \A x \in Nodes(o) : x[2] <= N
<1> DEFINE Bound(m, N) == \A k \in DOMAIN o.files : k <= m => Len(o.files[k].tree) <= N
           S == {m \in Nat : \E N \in Nat : Bound(m, N)}
<1>1. \A k \in DOMAIN o.files : Len(o.files[k].tree) \in Nat /\ k \in Nat \ {0}
  BY Places DEF TreeOK
<1>2. 0 \in S
  BY SMTT(20), <1>1
<1>3. ASSUME NEW m \in Nat, m \in S PROVE m + 1 \in S
  <2>1. PICK N \in Nat : Bound(m, N)
    BY <1>3
  <2>2. \E M \in Nat : N <= M /\ (m + 1 \in DOMAIN o.files => Len(o.files[m + 1].tree) <= M)
    <3>1. CASE m + 1 \in DOMAIN o.files /\ N <= Len(o.files[m + 1].tree)
      BY <1>1, <3>1
    <3>2. CASE m + 1 \notin DOMAIN o.files
      BY <3>2
    <3>3. CASE m + 1 \in DOMAIN o.files /\ Len(o.files[m + 1].tree) <= N
      BY <3>3
    <3> QED
      BY <1>1, <3>1, <3>2, <3>3
  <2>3. PICK M \in Nat : N <= M /\ (m + 1 \in DOMAIN o.files => Len(o.files[m + 1].tree) <= M)
    BY <2>2
  <2>4. ASSUME NEW k \in DOMAIN o.files, k <= m + 1 PROVE Len(o.files[k].tree) <= M
    <3>1. Len(o.files[k].tree) \in Nat /\ k \in Nat
      BY <1>1
    <3>2. CASE k <= m
      BY <2>1, <2>3, <3>1, <3>2
    <3>3. CASE k = m + 1
      BY <2>3, <3>3
    <3> QED
      BY <2>4, <3>1, <3>2, <3>3
  <2> QED
    BY <2>4
<1> HIDE DEF S
<1>4. Nat \subseteq S
  BY <1>2, <1>3, Induction
<1>5. Len(o.files) \in Nat /\ DOMAIN o.files = 1 .. Len(o.files)
  BY OutputsAssumption
<1>6. PICK N \in Nat : Bound(Len(o.files), N)
  BY <1>4, <1>5 DEF S
<1>7. ASSUME NEW x \in Nodes(o) PROVE x[2] <= N
  <2>1. x[1] \in DOMAIN o.files /\ x[2] \in DOMAIN o.files[x[1]].tree
    BY NodeFacts
  <2>2. Len(o.files[x[1]].tree) <= N /\ Len(o.files[x[1]].tree) \in Nat
    BY <1>1, <1>5, <1>6, <2>1
  <2>3. x[2] \in 1 .. Len(o.files[x[1]].tree)
    BY <2>1, Places DEF TreeOK
  <2> QED
    BY <2>2, <2>3
<1> QED
  BY <1>7

LEMMA NodesFinite == ASSUME NEW o \in Outputs PROVE IsFiniteSet(Nodes(o))
<1>1. PICK N \in Nat : \A x \in Nodes(o) : x[2] <= N
  BY LastNode
<1>2. Len(o.files) \in Nat /\ DOMAIN o.files = 1 .. Len(o.files)
  BY OutputsAssumption
<1>3. Nodes(o) \subseteq (1 .. Len(o.files)) \X (1 .. N)
  BY <1>1, <1>2, NodeFacts
<1>4. IsFiniteSet(1 .. Len(o.files)) /\ IsFiniteSet(1 .. N)
  BY <1>2, FS_Interval
<1>5. IsFiniteSet((1 .. Len(o.files)) \X (1 .. N))
  BY <1>4, FS_Product
<1> QED
  BY <1>3, <1>5, FS_Subset

\* The levels exist: one of the nodes up to each number at a time.
LEMMA LevelsHold ==
  ASSUME NEW o \in Outputs
  PROVE  /\ Levels(o) \in [Nodes(o) -> Nat]
         /\ \A x \in Nodes(o) : Levels(o)[x] = IF x[2] = 1 THEN 0 ELSE 1 + Levels(o)[Above(o, x)]
<1> DEFINE Up(f, x) == IF x[2] = 1 THEN 0 ELSE 1 + f[Above(o, x)]
           To(f, n) == f \in [Nodes(o) -> Nat] /\ \A x \in Nodes(o) : x[2] <= n => f[x] = Up(f, x)
           S == {n \in Nat : \E f : To(f, n)}
<1>1. 0 \in S
  <2>1. To([x \in Nodes(o) |-> 0], 0)
    BY NodeFacts
  <2> QED
    BY <2>1
<1>2. ASSUME NEW n \in Nat, n \in S PROVE n + 1 \in S
  <2>1. PICK f : To(f, n)
    BY <1>2
  <2> DEFINE g == [x \in Nodes(o) |-> IF x[2] = n + 1 THEN Up(f, x) ELSE f[x]]
  <2>2. \A x \in Nodes(o) : Up(f, x) \in Nat
    BY <2>1, NodeFacts
  <2>3. g \in [Nodes(o) -> Nat]
    BY <2>1, <2>2
  <2>4. ASSUME NEW x \in Nodes(o), x[2] <= n + 1 PROVE g[x] = Up(g, x)
    <3>1. x[2] \in Nat \ {0} /\ (x[2] # 1 => /\ Above(o, x) \in Nodes(o)
                                           /\ Above(o, x)[2] \in 1 .. x[2] - 1)
      BY NodeFacts
    <3>2. x[2] # 1 => g[Above(o, x)] = f[Above(o, x)]
      BY <2>4, <3>1
    <3>3. Up(g, x) = Up(f, x)
      BY <3>2
    <3>4. CASE x[2] = n + 1
      BY <3>3, <3>4
    <3>5. CASE x[2] <= n
      BY <2>1, <3>1, <3>3, <3>5
    <3> QED
      BY <2>4, <3>1, <3>4, <3>5
  <2> HIDE DEF g
  <2>5. To(g, n + 1)
    BY <2>3, <2>4
  <2> QED
    BY <2>5
<1> HIDE DEF S
<1>3. Nat \subseteq S
  BY <1>1, <1>2, Induction
<1>4. PICK N \in Nat : \A x \in Nodes(o) : x[2] <= N
  BY LastNode
<1>5. PICK f : To(f, N)
  BY <1>3 DEF S
<1>6. f \in [Nodes(o) -> Nat] /\ f = [x \in Nodes(o) |-> Up(f, x)]
  BY <1>4, <1>5
<1>7. Levels(o) = CHOOSE g : g = [x \in Nodes(o) |-> Up(g, x)]
  BY DEF Levels
<1> DEFINE g == Levels(o)
<1>8. g = [x \in Nodes(o) |-> Up(g, x)]
  BY <1>6, <1>7
<1> HIDE DEF g
<1>9. \A x \in Nodes(o) : g[x] = IF x[2] = 1 THEN 0 ELSE 1 + g[Above(o, x)]
  BY <1>8
<1> DEFINE T == {n \in Nat : \A x \in Nodes(o) : x[2] <= n => g[x] \in Nat}
<1>10. 0 \in T
  BY NodeFacts
<1>11. ASSUME NEW n \in Nat, n \in T PROVE n + 1 \in T
  <2>1. ASSUME NEW x \in Nodes(o), x[2] <= n + 1 PROVE g[x] \in Nat
    <3>1. x[2] \in Nat \ {0} /\ (x[2] # 1 => /\ Above(o, x) \in Nodes(o)
                                           /\ Above(o, x)[2] \in 1 .. x[2] - 1)
      BY NodeFacts
    <3>2. CASE x[2] = 1
      BY <1>9, <3>2
    <3>3. CASE x[2] # 1
      <4>1. Above(o, x)[2] <= n
        BY <2>1, <3>1, <3>3
      <4> QED
        BY <1>9, <1>11, <3>1, <3>3, <4>1
    <3> QED
      BY <3>2, <3>3
  <2> QED
    BY <2>1
<1> HIDE DEF T
<1>12. N \in T
  BY <1>10, <1>11, Induction
<1>13. \A x \in Nodes(o) : g[x] \in Nat
  BY <1>4, <1>12 DEF T
<1>14. g \in [Nodes(o) -> Nat]
  BY <1>8, <1>13
<1> QED
  BY <1>9, <1>14 DEF g

-----------------------------------------------------------------------------
\* What has been counted of the nodes V, none of which passes a bound by itself.
IsNumber(o, x) == At(o, x).kind = "number"
Dense(o, x)    == IsString(o, x) /\ At(o, x).dense /\ At(o, x).len >= EntropyStringMinLen

Tallied(o, t, V) ==
  /\ t.strings = SumFunctionOnSet(Content(o), V)
  /\ t.numbers = Cardinality({x \in V : IsNumber(o, x)})
  /\ t.keys    = Cardinality({x \in V : OfObject(o, x)})
  /\ \A x \in V : Levels(o)[x] <= MaxDepth /\ ~Dense(o, x)

LEMMA ContentNat == ASSUME NEW o \in Outputs PROVE \A x \in Nodes(o) : Content(o)[x] \in Nat
BY NodeFacts DEF Content

\* The whole output has no less than a part of it.
LEMMA PartOf ==
  ASSUME NEW o \in Outputs, NEW V \in SUBSET Nodes(o)
  PROVE  /\ SumFunctionOnSet(Content(o), V) \in Nat /\ SumFunction(Content(o)) \in Nat
         /\ SumFunctionOnSet(Content(o), V) <= SumFunction(Content(o))
         /\ \A P \in SUBSET Nodes(o) : /\ Cardinality(V \cap P) \in Nat /\ Cardinality(P) \in Nat
                                       /\ Cardinality(V \cap P) <= Cardinality(P)
<1> DEFINE f == Content(o)
           W == Nodes(o) \ V
<1>1. IsFiniteSet(Nodes(o)) /\ IsFiniteSet(V) /\ IsFiniteSet(W)
  BY NodesFinite, FS_Subset
<1>2. \A x \in Nodes(o) : f[x] \in Nat
  BY ContentNat
<1>3. SumFunction(f) = SumFunctionOnSet(f, Nodes(o))
  BY DEF SumFunction, FoldFunction, SumFunctionOnSet, FoldFunctionOnSet, Content
<1> HIDE DEF f
<1>4. SumFunctionOnSet(f, V) \in Nat /\ SumFunctionOnSet(f, W) \in Nat
  <2>1. (\A x \in V : f[x] \in Nat) /\ (\A x \in W : f[x] \in Nat)
    BY <1>2
  <2> HIDE DEF W
  <2> QED
    BY <1>1, <2>1, SumNat
<1>5. SumFunctionOnSet(f, V \cup W) = SumFunctionOnSet(f, V) + SumFunctionOnSet(f, W)
  <2>1. V \cap W = {} /\ \A x \in V \cup W : f[x] \in Int
    BY <1>2
  <2> HIDE DEF W
  <2> QED
    BY <1>1, <2>1, SumUnion
<1>6. V \cup W = Nodes(o)
  OBVIOUS
<1>7. ASSUME NEW P \in SUBSET Nodes(o)
      PROVE  /\ Cardinality(V \cap P) \in Nat /\ Cardinality(P) \in Nat
             /\ Cardinality(V \cap P) <= Cardinality(P)
  BY <1>1, FS_Subset, FS_CardinalityType
<1> HIDE DEF W
<1>8. PICK s \in Nat, w \in Nat : s = SumFunctionOnSet(f, V) /\ w = SumFunctionOnSet(f, W)
  BY <1>4
<1>9. SumFunctionOnSet(f, V \cup W) = s + w
  BY <1>5, <1>8
<1>10. SumFunction(f) = s + w
  BY <1>3, <1>6, <1>9
<1>11. SumFunction(f) \in Nat /\ s <= SumFunction(f)
  BY <1>10
<1> QED
  BY <1>7, <1>8, <1>11 DEF f

\* One node more.
LEMMA NodeMore ==
  ASSUME NEW o \in Outputs, NEW V \in SUBSET Nodes(o), NEW x \in Nodes(o) \ V
  PROVE  /\ SumFunctionOnSet(Content(o), V \cup {x})
              = SumFunctionOnSet(Content(o), V) + Content(o)[x]
         /\ \A P : Cardinality((V \cup {x}) \cap P)
                     = Cardinality(V \cap P) + IF x \in P THEN 1 ELSE 0
<1>1. IsFiniteSet(V)
  BY NodesFinite, FS_Subset
<1>2. (\A y \in V : Content(o)[y] \in Int) /\ Content(o)[x] \in Int /\ x \notin V
  BY ContentNat
<1>3. SumFunctionOnSet(Content(o), V \cup {x}) = Content(o)[x] + SumFunctionOnSet(Content(o), V)
  BY <1>1, <1>2, SumAdd
<1>4. SumFunctionOnSet(Content(o), V) \in Nat
  BY PartOf
<1>5. ASSUME NEW P
      PROVE  Cardinality((V \cup {x}) \cap P) = Cardinality(V \cap P) + IF x \in P THEN 1 ELSE 0
  <2>1. IsFiniteSet(V \cap P) /\ Cardinality(V \cap P) \in Nat
    BY <1>1, FS_Subset, FS_CardinalityType
  <2>2. CASE x \in P
    <3>1. (V \cup {x}) \cap P = (V \cap P) \cup {x} /\ x \notin V \cap P
      BY <2>2
    <3> QED
      BY <2>1, <2>2, <3>1, FS_AddElement
  <2>3. CASE x \notin P
    <3>1. (V \cup {x}) \cap P = V \cap P
      BY <2>3
    <3> QED
      BY <2>1, <2>3, <3>1
  <2> QED
    BY <2>2, <2>3
<1> QED
  BY <1>2, <1>3, <1>4, <1>5

\* A node goes on the tally, unless it passes a bound: then the whole output does.
LEMMA Counted ==
  ASSUME NEW o \in Outputs, NEW t, NEW V \in SUBSET Nodes(o), NEW x \in Nodes(o) \ V,
         Tallied(o, t, V), NEW u, u.strings = t.strings + Content(o)[x],
         u.numbers = t.numbers + IF IsNumber(o, x) THEN 1 ELSE 0,
         u.keys = t.keys + IF OfObject(o, x) THEN 1 ELSE 0
  PROVE  /\ Levels(o)[x] <= MaxDepth /\ ~Dense(o, x) => Tallied(o, u, V \cup {x})
         /\ \/ Levels(o)[x] > MaxDepth \/ Dense(o, x) \/ u.strings > MaxStringBytes
            \/ u.numbers > MaxNumericValues \/ u.keys > MaxKeys
            => ~Bounded(o)
<1> DEFINE N == {y \in Nodes(o) : IsNumber(o, y)}
           K == {y \in Nodes(o) : OfObject(o, y)}
           U == V \cup {x}
<1>1. /\ {y \in V : IsNumber(o, y)} = V \cap N /\ {y \in U : IsNumber(o, y)} = U \cap N
      /\ {y \in V : OfObject(o, y)} = V \cap K /\ {y \in U : OfObject(o, y)} = U \cap K
      /\ (x \in N <=> IsNumber(o, x)) /\ (x \in K <=> OfObject(o, x))
  OBVIOUS
<1>2. {N, K} \subseteq SUBSET Nodes(o) /\ U \in SUBSET Nodes(o)
  OBVIOUS
<1>3. Bounded(o) => /\ SumFunction(Content(o)) <= MaxStringBytes
                    /\ Cardinality(N) <= MaxNumericValues /\ Cardinality(K) <= MaxKeys
                    /\ Levels(o)[x] <= MaxDepth /\ ~Dense(o, x)
  BY DEF Bounded, Dense, IsNumber
<1> HIDE DEF N, K
<1>4. /\ SumFunctionOnSet(Content(o), U) = SumFunctionOnSet(Content(o), V) + Content(o)[x]
      /\ Cardinality(U \cap N) = Cardinality(V \cap N) + IF x \in N THEN 1 ELSE 0
      /\ Cardinality(U \cap K) = Cardinality(V \cap K) + IF x \in K THEN 1 ELSE 0
  BY SMTT(20), NodeMore
<1> HIDE DEF U
<1>5. /\ u.strings = SumFunctionOnSet(Content(o), U)
      /\ u.numbers = Cardinality(U \cap N) /\ u.keys = Cardinality(U \cap K)
  BY <1>1, <1>4 DEF Tallied
<1>6. /\ SumFunctionOnSet(Content(o), U) <= SumFunction(Content(o))
      /\ SumFunctionOnSet(Content(o), U) \in Nat /\ SumFunction(Content(o)) \in Nat
      /\ Cardinality(U \cap N) <= Cardinality(N) /\ Cardinality(U \cap K) <= Cardinality(K)
      /\ {Cardinality(U \cap N), Cardinality(N), Cardinality(U \cap K), Cardinality(K)} \subseteq Nat
  BY <1>2, PartOf
<1>7. Levels(o)[x] \in Nat
  BY LevelsHold
<1>8. {MaxDepth, MaxStringBytes, MaxNumericValues, MaxKeys} \subseteq Nat
  BY GateAssumption
<1>9. ASSUME Levels(o)[x] <= MaxDepth, ~Dense(o, x) PROVE Tallied(o, u, U)
  <2>1. \A y \in U : Levels(o)[y] <= MaxDepth /\ ~Dense(o, y)
    BY <1>9 DEF Tallied, U
  <2> QED
    BY <1>1, <1>5, <2>1 DEF Tallied
<1>10. ASSUME Bounded(o) PROVE /\ Levels(o)[x] <= MaxDepth /\ ~Dense(o, x) /\ u.strings <= MaxStringBytes
                               /\ u.numbers <= MaxNumericValues /\ u.keys <= MaxKeys
  BY <1>3, <1>5, <1>6, <1>8, <1>10
<1>11. {u.strings, u.numbers, u.keys} \subseteq Nat
  BY <1>5, <1>6
<1> QED
  BY <1>7, <1>8, <1>9, <1>10, <1>11 DEF U

\* All nodes on a tally within the bounds: the output is.
LEMMA AllCounted ==
  ASSUME NEW o \in Outputs, NEW t, Tallied(o, t, Nodes(o)),
         t.strings <= MaxStringBytes, t.numbers <= MaxNumericValues, t.keys <= MaxKeys
  PROVE  Bounded(o)
<1>1. SumFunction(Content(o)) = SumFunctionOnSet(Content(o), Nodes(o))
  BY DEF SumFunction, FoldFunction, SumFunctionOnSet, FoldFunctionOnSet, Content
<1> QED
  BY <1>1 DEF Tallied, Bounded, IsNumber, Dense

LEMMA NoneCounted ==
  ASSUME NEW o \in Outputs
  PROVE  Tallied(o, [strings |-> 0, numbers |-> 0, keys |-> 0], {})
<1>1. {x \in {} : IsNumber(o, x)} = {} /\ {x \in {} : OfObject(o, x)} = {}
  OBVIOUS
<1>2. Cardinality({}) = 0 /\ SumFunctionOnSet(Content(o), {}) = 0
  BY FS_EmptySet, SumEmpty
<1> QED
  BY <1>1, <1>2 DEF Tallied

-----------------------------------------------------------------------------
\* The walk of file a with the frames st has visited V: the files before it, and of its
\* own nodes those on the stack, all below those that are done, and no child that a frame
\* still has to visit.
Frame == [node: Nat, left: SUBSET Nat]

Walked(o, a, st, V) ==
  LET tree == o.files[a].tree IN
  /\ \A x \in Nodes(o) : (x[1] < a => x \in V) /\ (x \in V => x[1] <= a)
  /\ st = <<>> => \A x \in V : x[1] # a
  /\ st # <<>> => a \in DOMAIN o.files /\ st[1].node = 1
  /\ \A i \in 1 .. Len(st) :
        /\ <<a, st[i].node>> \in V
        /\ Levels(o)[<<a, st[i].node>>] = i - 1
        /\ st[i].left = {m \in Kids(tree, st[i].node) : <<a, m>> \notin V}
  /\ \A x \in V : x[1] = a =>
        /\ x[2] # 1 => Above(o, x) \in V
        /\ \/ \E i \in 1 .. Len(st) : st[i].node = x[2]
           \/ \A m \in Kids(tree, x[2]) : <<a, m>> \in V

\* A child of a node, as a node of the output.
LEMMA ChildFacts ==
  ASSUME NEW o \in Outputs, NEW a \in DOMAIN o.files, NEW n \in Kept(o.files[a].tree),
         NEW m \in Kids(o.files[a].tree, n)
  PROVE  /\ <<a, m>> \in Nodes(o) /\ m \in Nat /\ m # 1 /\ m # n
         /\ Above(o, <<a, m>>) = <<a, n>>
         /\ Levels(o)[<<a, m>>] = 1 + Levels(o)[<<a, n>>]
<1>1. /\ m \in DOMAIN o.files[a].tree /\ o.files[a].tree[m].parent = n
      /\ ~Replaced(o.files[a].tree, m)
  BY DEF Kids
<1>2. TreeOK(o.files[a].tree) /\ m \in Nat \ {0} /\ n \in Nat \ {0}
  <2>1. TreeOK(o.files[a].tree)
    BY Places
  <2>2. n \in DOMAIN o.files[a].tree
    BY <2>1, KeptNodes
  <2> QED
    BY <1>1, <2>1, <2>2 DEF TreeOK
<1>3. <<a, m>> \in Nodes(o)
  <2>1. m \in Kept(o.files[a].tree)
    BY <1>1, <1>2, KeptNodes
  <2> QED
    BY <2>1, Places
<1>4. m # 1 /\ m # n
  BY <1>1, <1>2 DEF TreeOK
<1>5. Above(o, <<a, m>>) = <<a, n>>
  BY <1>1 DEF Above, At
<1>6. Levels(o)[<<a, m>>] = 1 + Levels(o)[<<a, n>>]
  BY <1>3, <1>4, <1>5, LevelsHold
<1> QED
  BY <1>2, <1>3, <1>4, <1>5, <1>6

LEMMA KidsNat ==
  ASSUME NEW o \in Outputs, NEW a \in DOMAIN o.files, NEW n \in DOMAIN o.files[a].tree
  PROVE  n \in Nat /\ Kids(o.files[a].tree, n) \subseteq Nat
<1>1. PICK t : t = o.files[a].tree
  OBVIOUS
<1>2. TreeOK(t)
  BY <1>1, Places
<1>3. DOMAIN t \subseteq Nat
  BY <1>2 DEF TreeOK
<1> QED
  BY <1>1, <1>3 DEF Kids

\* The next node is new, one level further down, and on the stack once it is visited.
LEMMA NextNode ==
  ASSUME NEW o \in Outputs, NEW a \in DOMAIN o.files, NEW st \in Seq(Frame),
         NEW V \in SUBSET Nodes(o), Walked(o, a, st, V), NEW n,
         \/ st = <<>> /\ n = 1
         \/ st # <<>> /\ n \in st[Len(st)].left
  PROVE  /\ n \in Kept(o.files[a].tree) /\ n \in DOMAIN o.files[a].tree
         /\ <<a, n>> \in Nodes(o) \ V
         /\ Levels(o)[<<a, n>>] = Len(st)
         /\ n = 1 <=> st = <<>>
         /\ st # <<>> => /\ st[Len(st)].node \in Kept(o.files[a].tree)
                         /\ n \in Kids(o.files[a].tree, st[Len(st)].node)
<1> DEFINE tree == o.files[a].tree
<1>1. TreeOK(tree) /\ 1 \in DOMAIN tree /\ 1 \in Kept(tree)
  <2>1. TreeOK(tree)
    BY Places
  <2>2. 1 \in DOMAIN tree
    BY <2>1 DEF TreeOK
  <2> QED
    BY <2>1, <2>2, KeptNodes
<1>2. CASE st = <<>> /\ n = 1
  <2>1. <<a, 1>> \in Nodes(o)
    BY <1>1, Places
  <2>2. Levels(o)[<<a, 1>>] = 0
    BY <2>1, LevelsHold
  <2>3. <<a, 1>> \notin V
    BY <1>2 DEF Walked
  <2> QED
    BY <1>1, <1>2, <2>1, <2>2, <2>3
<1>3. CASE st # <<>> /\ n \in st[Len(st)].left
  <2> DEFINE top == st[Len(st)].node
  <2>1. Len(st) \in 1 .. Len(st) /\ Len(st) \in Nat
    BY <1>3
  <2>2. /\ <<a, top>> \in V /\ Levels(o)[<<a, top>>] = Len(st) - 1
        /\ st[Len(st)].left = {m \in Kids(tree, top) : <<a, m>> \notin V}
    BY <2>1 DEF Walked
  <2>3. top \in Kept(tree)
    BY <2>2, NodeFacts
  <2>4. n \in Kids(tree, top) /\ <<a, n>> \notin V
    BY <1>3, <2>2
  <2> HIDE DEF top
  <2>5. /\ <<a, n>> \in Nodes(o) /\ n # 1 /\ n \in DOMAIN tree /\ n \in Kept(tree)
        /\ Levels(o)[<<a, n>>] = 1 + Levels(o)[<<a, top>>]
    BY <2>3, <2>4, ChildFacts, NodeFacts
  <2> QED
    BY <1>3, <2>1, <2>2, <2>3, <2>4, <2>5 DEF top
<1> QED
  BY <1>2, <1>3

\* The walk below a node: it is taken from what is left of the one on top.
Taken(st, n, below) ==
  /\ below \in Seq(Frame) /\ Len(below) = Len(st)
  /\ \A i \in 1 .. Len(st) : /\ below[i].node = st[i].node
                             /\ i = Len(st) => below[i].left = st[i].left \ {n}
                             /\ i # Len(st) => below[i].left = st[i].left

\* It goes on the stack with all its children to visit.
LEMMA WalksDown ==
  ASSUME NEW o \in Outputs, NEW a \in DOMAIN o.files, NEW st \in Seq(Frame),
         NEW V \in SUBSET Nodes(o), Walked(o, a, st, V), NEW n,
         \/ st = <<>> /\ n = 1
         \/ st # <<>> /\ n \in st[Len(st)].left,
         NEW below, Taken(st, n, below),
         NEW r \in Frame, r.node = n, r.left = Kids(o.files[a].tree, n)
  PROVE  /\ Walked(o, a, Append(below, r), V \cup {<<a, n>>})
         /\ Append(below, r) \in Seq(Frame)
<1> DEFINE tree == o.files[a].tree
           x == <<a, n>>
           U == V \cup {x}
<1>1. /\ n \in Kept(tree) /\ x \in Nodes(o) \ V /\ Levels(o)[x] = Len(st)
      /\ n = 1 <=> st = <<>>
      /\ st # <<>> => st[Len(st)].node \in Kept(tree) /\ n \in Kids(tree, st[Len(st)].node)
  BY NextNode
<1>2. PICK on : on = Append(below, r)
  OBVIOUS
<1>3. /\ on \in Seq(Frame) /\ Len(on) = Len(st) + 1 /\ Len(st) \in Nat /\ on # <<>>
      /\ on[Len(st) + 1] = r
      /\ \A i \in 1 .. Len(st) : on[i] = below[i]
  BY <1>2 DEF Taken
<1>4. on[1].node = 1
  <2>1. CASE st = <<>>
    BY <1>1, <1>3, <2>1
  <2>2. CASE st # <<>>
    <3>1. 1 \in 1 .. Len(st) /\ st[1].node = 1
      BY <2>2 DEF Walked
    <3> QED
      BY <1>3, <3>1 DEF Taken
  <2> QED
    BY <2>1, <2>2
<1>5. \A y \in Nodes(o) : (y[1] < a => y \in U) /\ (y \in U => y[1] <= a)
  <2>1. a \in Nat
    BY Places
  <2> QED
    BY <2>1 DEF Walked
<1>6. ASSUME NEW m \in Kids(tree, n) PROVE <<a, m>> \notin U
  <2>1. /\ <<a, m>> \in Nodes(o) /\ m # 1 /\ m # n /\ Above(o, <<a, m>>) = x
    BY <1>1, ChildFacts
  <2>2. <<a, m>> \notin V
    BY <1>1, <2>1 DEF Walked
  <2> QED
    BY <2>1, <2>2
<1>7. ASSUME NEW i \in 1 .. Len(on)
      PROVE  /\ <<a, on[i].node>> \in U /\ Levels(o)[<<a, on[i].node>>] = i - 1
             /\ on[i].left = {m \in Kids(tree, on[i].node) : <<a, m>> \notin U}
  <2>1. CASE i = Len(st) + 1
    <3>1. on[i].node = n /\ on[i].left = Kids(tree, n)
      BY <1>3, <2>1
    <3>2. on[i].left = {m \in Kids(tree, n) : <<a, m>> \notin U}
      BY <1>6, <3>1
    <3>3. i - 1 = Len(st) /\ <<a, on[i].node>> = x
      BY <1>3, <2>1, <3>1
    <3> HIDE DEF tree
    <3> QED
      BY <1>1, <2>1, <3>1, <3>2, <3>3
  <2>2. CASE i \in 1 .. Len(st)
    <3>1. /\ on[i].node = st[i].node
          /\ i = Len(st) => on[i].left = st[i].left \ {n}
          /\ i # Len(st) => on[i].left = st[i].left
      BY <1>3, <2>2 DEF Taken
    <3>2. /\ <<a, st[i].node>> \in V /\ Levels(o)[<<a, st[i].node>>] = i - 1
          /\ st[i].left = {m \in Kids(tree, st[i].node) : <<a, m>> \notin V}
      BY <2>2 DEF Walked
    <3>3. i # Len(st) => n \notin Kids(tree, st[i].node)
      <4> SUFFICES ASSUME i # Len(st), n \in Kids(tree, st[i].node) PROVE FALSE
        OBVIOUS
      <4>1. st[i].node \in Kept(tree)
        BY <3>2, NodeFacts
      <4>2. Levels(o)[x] = 1 + Levels(o)[<<a, st[i].node>>]
        BY <4>1, ChildFacts
      <4> QED
        BY <1>1, <1>3, <2>2, <3>2, <4>2
    <3>4. \A m : <<a, m>> \in U <=> <<a, m>> \in V \/ m = n
      OBVIOUS
    <3>5. on[i].left = {m \in Kids(tree, st[i].node) : <<a, m>> \notin U}
      BY <3>1, <3>2, <3>3, <3>4
    <3> QED
      BY <3>1, <3>2, <3>5
  <2>3. i = Len(st) + 1 \/ i \in 1 .. Len(st)
    BY <1>3
  <2> QED
    BY <2>1, <2>2, <2>3
<1>8. ASSUME NEW y \in U, y[1] = a
      PROVE  /\ y[2] # 1 => Above(o, y) \in U
             /\ \/ \E i \in 1 .. Len(on) : on[i].node = y[2]
                \/ \A m \in Kids(tree, y[2]) : <<a, m>> \in U
  <2>1. CASE y = x
    <3>1. n # 1 => Above(o, x) \in V
      <4> SUFFICES ASSUME n # 1 PROVE Above(o, x) \in V
        OBVIOUS
      <4>1. st # <<>> /\ Len(st) \in 1 .. Len(st)
        BY <1>1, <1>3
      <4>2. PICK p : p = st[Len(st)].node
        OBVIOUS
      <4>3. p \in Kept(tree) /\ n \in Kids(tree, p)
        BY <1>1, <4>1, <4>2
      <4>4. Above(o, x) = <<a, p>>
        BY <4>3 DEF Above, At, Kids
      <4>5. <<a, p>> \in V
        BY <4>1, <4>2 DEF Walked
      <4> QED
        BY <4>4, <4>5
    <3>2. Len(st) + 1 \in 1 .. Len(on) /\ on[Len(st) + 1].node = n
      BY <1>3
    <3> QED
      BY <2>1, <3>1, <3>2
  <2>2. CASE y \in V
    <3>1. /\ y[2] # 1 => Above(o, y) \in V
          /\ \/ \E i \in 1 .. Len(st) : st[i].node = y[2]
             \/ \A m \in Kids(tree, y[2]) : <<a, m>> \in V
      BY <1>8, <2>2 DEF Walked
    <3>2. ASSUME NEW i \in 1 .. Len(st) PROVE i \in 1 .. Len(on) /\ on[i].node = st[i].node
      BY <1>3 DEF Taken
    <3> QED
      BY <3>1, <3>2
  <2> QED
    BY <2>1, <2>2
<1> HIDE DEF U
<1>9. Walked(o, a, on, U)
  BY <1>3, <1>4, <1>5, <1>7, <1>8 DEF Walked
<1> QED
  BY <1>2, <1>3, <1>9 DEF U

\* What is done comes off; with its root, the file is.
LEMMA WalksUp ==
  ASSUME NEW o \in Outputs, NEW a, a \in Nat, NEW st \in Seq(Frame), NEW V \in SUBSET Nodes(o),
         Walked(o, a, st, V), st # <<>>, st[Len(st)].left = {},
         NEW up, up = SubSeq(st, 1, Len(st) - 1)
  PROVE  /\ Len(st) = 1 => Walked(o, a + 1, up, V)
         /\ Len(st) # 1 => Walked(o, a, up, V)
         /\ up \in Seq(Frame)
<1> DEFINE tree == o.files[a].tree
           top == st[Len(st)].node
<1>1. /\ up \in Seq(Frame) /\ Len(up) = Len(st) - 1 /\ Len(st) \in Nat \ {0}
      /\ \A i \in 1 .. Len(up) : up[i] = st[i] /\ i \in 1 .. Len(st)
      /\ Len(st) \in 1 .. Len(st)
  <2>1. Len(st) \in Nat \ {0}
    OBVIOUS
  <2>2. Len(st) - 1 \in Nat /\ \A i \in 1 .. Len(st) - 1 : i \in 1 .. Len(st) /\ st[i] \in Frame
    BY <2>1
  <2>3. up = [i \in 1 .. Len(st) - 1 |-> st[i]]
    BY <2>1
  <2> DEFINE L == Len(st) - 1
  <2>4. L \in Nat /\ up \in [1 .. L -> Frame] /\ DOMAIN up = 1 .. L
    BY <2>2, <2>3
  <2> HIDE DEF L
  <2>5. up \in Seq(Frame)
    BY <2>4
  <2>6. Len(up) = L
    BY <2>4, <2>5
  <2> QED
    BY <2>1, <2>2, <2>3, <2>5, <2>6 DEF L
<1>2. a \in DOMAIN o.files /\ st[1].node = 1
  BY DEF Walked
<1>3. \A m \in Kids(tree, top) : <<a, m>> \in V
  BY <1>1 DEF Walked
<1>4. ASSUME NEW y \in V, y[1] = a
      PROVE  \/ \E i \in 1 .. Len(up) : up[i].node = y[2]
             \/ \A m \in Kids(tree, y[2]) : <<a, m>> \in V
  <2>1. ASSUME NEW i \in 1 .. Len(st), st[i].node = y[2], ~ \A m \in Kids(tree, y[2]) : <<a, m>> \in V
        PROVE  i \in 1 .. Len(up) /\ up[i].node = y[2]
    <3>1. i # Len(st)
      BY <1>3, <2>1
    <3> QED
      BY <1>1, <2>1, <3>1
  <2>2. \/ \E i \in 1 .. Len(st) : st[i].node = y[2]
        \/ \A m \in Kids(tree, y[2]) : <<a, m>> \in V
    BY <1>4 DEF Walked
  <2> QED
    BY <2>1, <2>2
<1>5. ASSUME Len(st) # 1 PROVE Walked(o, a, up, V)
  <2>0. Len(up) \in Nat \ {0}
    BY <1>1, <1>5
  <2>1. up # <<>> /\ 1 \in 1 .. Len(up) /\ up[1].node = 1
    <3>1. 1 \in 1 .. Len(up)
      BY <2>0
    <3>2. up[1] = st[1]
      BY <1>1, <3>1
    <3>3. up # <<>>
      BY <2>0
    <3> QED
      BY <1>2, <1>5, <3>1, <3>2, <3>3
  <2>2. \A i \in 1 .. Len(up) :
           /\ <<a, up[i].node>> \in V /\ Levels(o)[<<a, up[i].node>>] = i - 1
           /\ up[i].left = {m \in Kids(tree, up[i].node) : <<a, m>> \notin V}
    BY <1>1 DEF Walked
  <2>3. \A y \in V : y[1] = a => (y[2] # 1 => Above(o, y) \in V)
    BY DEF Walked
  <2>4. \A x \in Nodes(o) : (x[1] < a => x \in V) /\ (x \in V => x[1] <= a)
    BY DEF Walked
  <2> HIDE DEF tree
  <2> QED
    BY <1>1, <1>2, <1>4, <2>1, <2>2, <2>3, <2>4 DEF Walked, tree
<1>6. ASSUME Len(st) = 1 PROVE Walked(o, a + 1, up, V)
  <2>0. PICK b : b = a + 1
    OBVIOUS
  <2>1. up = <<>> /\ Len(up) = 0 /\ b = a + 1
    BY <1>1, <1>6, <2>0
  <2>2. \A y \in V : y[1] = a => \A m \in Kids(tree, y[2]) : <<a, m>> \in V
    BY <1>1, <1>4, <2>1
  <2>3. <<a, 1>> \in V
    BY <1>1, <1>2 DEF Walked
  <2> DEFINE Missing == {n \in Nat : <<a, n>> \in Nodes(o) \ V}
  <2>4. Missing = {}
    <3> SUFFICES ASSUME Missing # {} PROVE FALSE
      OBVIOUS
    <3>1. Missing \subseteq Nat
      OBVIOUS
    <3> HIDE DEF Missing
    <3>2. PICK n \in Missing : \A m \in Missing : n <= m
      BY <3>1, Least
    <3>3. n \in Nat /\ <<a, n>> \in Nodes(o) /\ <<a, n>> \notin V
      BY <3>2 DEF Missing
    <3>4. n # 1
      BY <2>3, <3>3
    <3>5. PICK p : p = o.files[a].tree[n].parent
      OBVIOUS
    <3>6. /\ n \in DOMAIN tree /\ n \in Nat \ {0} /\ p \in 1 .. n - 1
          /\ <<a, p>> \in Nodes(o) /\ ~Replaced(tree, n)
      BY <3>3, <3>4, <3>5, NodeFacts DEF At, Above
    <3>7. n \in Kids(tree, p)
      BY <3>5, <3>6 DEF Kids
    <3>8. <<a, p>> \in V
      BY <3>2, <3>6 DEF Missing
    <3> QED
      BY <2>2, <3>3, <3>7, <3>8
  <2>5. \A x \in Nodes(o) : x[1] \in Nat /\ x[2] \in Nat /\ x = <<x[1], x[2]>>
    BY NodeFacts
  <2>6. \A x \in Nodes(o) : x[1] = a => x \in V
    BY <2>4, <2>5
  <2>7. \A x \in Nodes(o) : (x[1] < b => x \in V) /\ (x \in V => x[1] < b)
    BY <2>1, <2>5, <2>6 DEF Walked
  <2>8. \A x \in Nodes(o) : x \in V => x[1] # b /\ x[1] <= b
    BY <2>1, <2>5, <2>7
  <2>9. \A i \in 1 .. Len(up) : FALSE
    BY <2>1
  <2>10. Walked(o, b, up, V)
    BY <1>1, <2>1, <2>7, <2>8, <2>9 DEF Walked
  <2> QED
    BY <2>0, <2>10
<1> QED
  BY <1>1, <1>5, <1>6

-----------------------------------------------------------------------------
\* The gate at work: before the walk it has the archive's shape still to see; in the walk
\* all of it is shaped, and the tally is that of the nodes visited.
Tallies == [strings: Nat, numbers: Nat, keys: Nat]

GateTyped == /\ output \in Outputs /\ verdict \in Reasons \cup {"open", "pass"}
             /\ at \in -1 .. Len(output.files) + 1
             /\ tally \in Tallies
             /\ tally.strings <= MaxStringBytes /\ tally.numbers <= MaxNumericValues
             /\ tally.keys <= MaxKeys
             /\ stack \in Seq(Frame) /\ Len(stack) <= MaxDepth + 1
EarlyInv  == /\ at < 1 => stack = <<>> /\ tally = [strings |-> 0, numbers |-> 0, keys |-> 0]
             /\ at = -1 => /\ output.zip /\ output.bytes <= MaxBytes
                           /\ Len(output.files) \in 1 .. MaxEntries
WalkInv   == at > 0 => /\ Shaped(output)
                       /\ \E V \in SUBSET Nodes(output) : /\ Tallied(output, tally, V)
                                                          /\ Walked(output, at, stack, V)
GateIInv == GateTyped /\ GateExact /\ (verdict = "open" => EarlyInv /\ WalkInv)

LEMMA Limits == /\ MaxBytes \in Nat /\ MaxStringBytes \in Nat /\ MaxNumericValues \in Nat
                /\ MaxKeys \in Nat /\ MaxDepth \in Nat /\ MaxEntries \in Nat
BY GateAssumption

LEMMA GateTypes ==
  ASSUME GateTyped
  PROVE  /\ output \in Outputs /\ at \in Int /\ Len(output.files) \in Nat
         /\ DOMAIN output.files = 1 .. Len(output.files)
         /\ stack \in Seq(Frame) /\ Len(stack) \in Nat
         /\ tally.strings \in Nat /\ tally.numbers \in Nat /\ tally.keys \in Nat
<1>1. output \in Outputs /\ stack \in Seq(Frame) /\ tally \in Tallies
  BY DEF GateTyped
<1>2. Len(output.files) \in Nat /\ DOMAIN output.files = 1 .. Len(output.files)
  BY <1>1, OutputsAssumption
<1>3. at \in Int
  BY <1>2 DEF GateTyped
<1>4. Len(stack) \in Nat
  BY <1>1
<1>5. tally.strings \in Nat /\ tally.numbers \in Nat /\ tally.keys \in Nat
  BY <1>1 DEF Tallies
<1> QED
  BY <1>1, <1>2, <1>3, <1>4, <1>5

LEMMA GateStart == GateInit => GateIInv
<1> SUFFICES ASSUME GateInit PROVE GateIInv
  OBVIOUS
<1>1. /\ output \in Outputs /\ at = 0 /\ stack = <<>> /\ verdict = "open"
      /\ tally = [strings |-> 0, numbers |-> 0, keys |-> 0]
  BY DEF GateInit
<1>2. Len(output.files) \in Nat
  BY <1>1, OutputsAssumption
<1>3. at \in -1 .. Len(output.files) + 1
  BY <1>1, <1>2
<1>4. tally \in Tallies /\ tally.strings = 0 /\ tally.numbers = 0 /\ tally.keys = 0
  BY <1>1 DEF Tallies
<1>5. stack \in Seq(Frame) /\ Len(stack) = 0
  BY <1>1
<1>6. tally.strings <= MaxStringBytes /\ tally.numbers <= MaxNumericValues
      /\ tally.keys <= MaxKeys /\ Len(stack) <= MaxDepth + 1
  BY <1>4, <1>5, Limits
<1>7. GateTyped
  BY <1>1, <1>3, <1>4, <1>5, <1>6 DEF GateTyped
<1>8. GateExact
  BY <1>1 DEF GateExact, Reasons
<1>9. EarlyInv /\ WalkInv
  BY <1>1 DEF EarlyInv, WalkInv
<1> QED
  BY <1>7, <1>8, <1>9 DEF GateIInv

\* The walk begins before the first file, with nothing visited.
LEMMA WalkStart ==
  ASSUME NEW o \in Outputs
  PROVE  Walked(o, 1, <<>>, {})
<1>1. \A x \in Nodes(o) : ~ (x[1] < 1)
  BY NodeFacts
<1> QED
  BY <1>1 DEF Walked

\* A verdict that agrees with the bounds.
LEMMA VerdictStep ==
  ASSUME GateIInv, verdict = "open", NEW v \in Reasons \cup {"pass"}, Verdict(v),
         v \in Reasons => ~ (Shaped(output) /\ Bounded(output)),
         v = "pass" => Shaped(output) /\ Bounded(output)
  PROVE  GateIInv'
<1>1. verdict' = v /\ output' = output /\ at' = at /\ stack' = stack /\ tally' = tally
  BY DEF Verdict
<1>2. v # "open"
  BY DEF Reasons
<1>3. GateExact'
  BY <1>1 DEF GateExact
<1>4. GateTyped'
  BY <1>1 DEF GateIInv, GateTyped
<1> QED
  BY <1>1, <1>2, <1>3, <1>4 DEF GateIInv

\* A node is visited, or refused for what the output is refused for.
LEMMA VisitStep ==
  ASSUME GateIInv, verdict = "open", at \in DOMAIN output.files, NEW n,
         \/ stack = <<>> /\ n = 1
         \/ stack # <<>> /\ n \in stack[Len(stack)].left,
         NEW below, Taken(stack, n, below),
         NEW strings, NEW keys,
         strings = tally.strings + IF OfObject(output, <<at, n>>) THEN Tree[n].key ELSE 0,
         keys = tally.keys + IF OfObject(output, <<at, n>>) THEN 1 ELSE 0,
         keys <= MaxKeys, Visit(n, below, strings, keys)
  PROVE  GateIInv'
<1> DEFINE x == <<at, n>>
           s == strings + StringBytes(n)
           c == tally.numbers + Numbers(n)
           u == [strings |-> s, numbers |-> c, keys |-> keys]
<1>0. GateTyped /\ GateExact /\ WalkInv
  BY DEF GateIInv
<1>1. /\ output \in Outputs /\ at \in Nat \ {0} /\ stack \in Seq(Frame) /\ Len(stack) \in Nat
      /\ below \in Seq(Frame) /\ Len(below) = Len(stack)
  BY <1>0, GateTypes, Places DEF Taken
<1>2. Shaped(output) /\ GateExact
  BY <1>0, <1>1 DEF WalkInv
<1>3. PICK V \in SUBSET Nodes(output) : Tallied(output, tally, V) /\ Walked(output, at, stack, V)
  BY <1>0, <1>1 DEF WalkInv
<1>4. /\ n \in DOMAIN Tree /\ x \in Nodes(output) \ V /\ Levels(output)[x] = Len(stack)
  BY <1>1, <1>3, NextNode DEF Tree
<1>5. At(output, x) = Tree[n]
  BY DEF At, Tree
<1>6. Tree[n].len \in Nat /\ Tree[n].key \in Nat
  BY <1>1, <1>4, <1>5, NodeFacts
<1>7. tally \in Tallies /\ tally.strings \in Nat /\ tally.numbers \in Nat /\ tally.keys \in Nat
  BY <1>0, GateTypes DEF GateTyped
<1>8. s = tally.strings + Content(output)[x] /\ s \in Nat
  BY <1>4, <1>5, <1>6, <1>7 DEF Content, StringBytes, IsString
<1>9. c = tally.numbers + (IF IsNumber(output, x) THEN 1 ELSE 0) /\ c \in Nat /\ keys \in Nat
  BY <1>5, <1>7 DEF Numbers, IsNumber
<1>10. /\ u.strings = tally.strings + Content(output)[x]
       /\ u.numbers = tally.numbers + IF IsNumber(output, x) THEN 1 ELSE 0
       /\ u.keys = tally.keys + IF OfObject(output, x) THEN 1 ELSE 0
  BY <1>8, <1>9
<1>11. /\ Levels(output)[x] <= MaxDepth /\ ~Dense(output, x) => Tallied(output, u, V \cup {x})
       /\ \/ Levels(output)[x] > MaxDepth \/ Dense(output, x) \/ u.strings > MaxStringBytes
          \/ u.numbers > MaxNumericValues \/ u.keys > MaxKeys
          => ~Bounded(output)
  <2>1. output \in Outputs /\ V \in SUBSET Nodes(output) /\ x \in Nodes(output) \ V
        /\ Tallied(output, tally, V)
    BY <1>1, <1>3, <1>4
  <2> HIDE DEF u, x
  <2> QED
    BY <1>10, <2>1, Counted
<1>12. Dense(output, x) <=> Tree[n].kind = "string" /\ Tree[n].dense /\ Tree[n].len >= EntropyStringMinLen
  BY <1>5 DEF Dense, IsString
<1>14. ASSUME NEW v \in Reasons, Verdict(v), ~Bounded(output) PROVE GateIInv'
  <2>1. v # "pass"
    BY DEF Reasons
  <2> QED
    BY <1>14, <2>1, VerdictStep
<1>15. CASE Len(below) > MaxDepth
  <2>1. ~Bounded(output)
    BY <1>1, <1>4, <1>11, <1>15
  <2>2. Verdict("output_too_deep")
    BY <1>15 DEF Visit
  <2> QED
    BY <1>14, <2>1, <2>2 DEF Reasons
<1>16. CASE ~(Len(below) > MaxDepth) /\ s > MaxStringBytes
  <2>1. ~Bounded(output)
    BY <1>11, <1>16
  <2>2. Verdict("output_strings_too_large")
    BY <1>16 DEF Visit
  <2> QED
    BY <1>14, <2>1, <2>2 DEF Reasons
<1>17. CASE ~(Len(below) > MaxDepth) /\ ~(s > MaxStringBytes) /\ Dense(output, x)
  <2>1. ~Bounded(output)
    BY <1>11, <1>17
  <2>2. Verdict("output_high_entropy_string")
    BY <1>12, <1>17 DEF Visit
  <2> QED
    BY <1>14, <2>1, <2>2 DEF Reasons
<1>18. CASE /\ ~(Len(below) > MaxDepth) /\ ~(s > MaxStringBytes) /\ ~Dense(output, x)
            /\ c > MaxNumericValues
  <2>1. ~Bounded(output)
    BY <1>11, <1>18
  <2>2. Verdict("output_too_many_numbers")
    BY <1>12, <1>18 DEF Visit
  <2> QED
    BY <1>14, <2>1, <2>2 DEF Reasons
<1>19. CASE /\ ~(Len(below) > MaxDepth) /\ ~(s > MaxStringBytes) /\ ~Dense(output, x)
            /\ ~(c > MaxNumericValues)
  <2> DEFINE on == Append(below, [node |-> n, left |-> Kids(Tree, n)])
  <2>1. /\ stack' = on /\ tally' = u /\ output' = output /\ at' = at /\ verdict' = verdict
    BY <1>12, <1>19 DEF Visit
  <2>2. Walked(output, at, on, V \cup {x}) /\ on \in Seq(Frame)
    <3> DEFINE r == [node |-> n, left |-> Kids(Tree, n)]
    <3>1. r.node = n /\ r.left = Kids(output.files[at].tree, n) /\ on = Append(below, r)
      BY DEF Tree
    <3>4. r \in Frame
      BY <1>1, <1>4, KidsNat DEF Tree, Frame
    <3>2. output \in Outputs /\ at \in DOMAIN output.files /\ stack \in Seq(Frame)
          /\ V \in SUBSET Nodes(output) /\ Walked(output, at, stack, V)
      BY <1>1, <1>3
    <3> HIDE DEF r
    <3>5. /\ Walked(output, at, Append(below, r), V \cup {<<at, n>>})
          /\ Append(below, r) \in Seq(Frame)
      BY <3>1, <3>2, <3>4, WalksDown
    <3> QED
      BY <3>5 DEF r
  <2>3. Len(on) = Len(stack) + 1 /\ Len(on) <= MaxDepth + 1
    BY <1>1, Limits, <1>19
  <2>4. /\ u \in Tallies /\ u.strings <= MaxStringBytes /\ u.numbers <= MaxNumericValues
        /\ u.keys <= MaxKeys
    <3>1. u \in Tallies
      BY <1>8, <1>9 DEF Tallies
    <3> QED
      BY <3>1, <1>8, <1>9, Limits, <1>19
  <2>5. Levels(output)[x] <= MaxDepth
    BY <1>1, <1>4, Limits, <1>19
  <2>6. Tallied(output, u, V \cup {x})
    BY <1>11, <1>19, <2>5
  <2>7. V \cup {x} \in SUBSET Nodes(output)
    BY <1>4
  <2> HIDE DEF on, u, x
  <2>8. GateExact'
    BY <2>1, <1>2 DEF GateExact
  <2>9. \E W \in SUBSET Nodes(output) : Tallied(output, u, W) /\ Walked(output, at, on, W)
    BY <2>2, <2>6, <2>7
  <2>10. GateTyped'
    BY <1>0, <2>1, <2>2, <2>3, <2>4 DEF GateTyped
  <2>11. EarlyInv' /\ WalkInv'
    BY <1>1, <1>2, <2>1, <2>9 DEF EarlyInv, WalkInv
  <2> QED
    BY <2>8, <2>10, <2>11 DEF GateIInv
<1> QED
  BY <1>15, <1>16, <1>17, <1>18, <1>19

\* The files up to one are no larger than all of them.
LEMMA SizesGrow ==
  ASSUME NEW o \in Outputs, NEW k \in DOMAIN o.files
  PROVE  /\ SizesTo(o, k) \in Nat /\ SizesTo(o, Len(o.files)) \in Nat
         /\ SizesTo(o, k) <= SizesTo(o, Len(o.files))
<1> DEFINE f == [i \in DOMAIN o.files |-> o.files[i].size]
           A == 1 .. k
           B == k + 1 .. Len(o.files)
<1>1. DOMAIN o.files = 1 .. Len(o.files) /\ Len(o.files) \in Nat
  BY OutputsAssumption
<1>2. \A i \in DOMAIN o.files : f[i] \in Nat
  BY OutputsAssumption DEF Range
<1>3. IsFiniteSet(A) /\ IsFiniteSet(B) /\ A \cap B = {} /\ A \cup B = 1 .. Len(o.files)
  <2>1. PICK n \in Nat : n = Len(o.files)
    BY <1>1
  <2>2. k \in 1 .. n
    BY <1>1, <2>1
  <2>3. IsFiniteSet(1 .. k) /\ IsFiniteSet(k + 1 .. n)
    <3>1. 1 \in Int /\ k \in Int /\ k + 1 \in Int /\ n \in Int
      BY <2>2
    <3>2. IsFiniteSet(1 .. k)
      BY <3>1, FS_Interval
    <3>3. IsFiniteSet(k + 1 .. n)
      BY <3>1, FS_Interval
    <3> QED
      BY <3>2, <3>3
  <2>4. (1 .. k) \cap (k + 1 .. n) = {} /\ (1 .. k) \cup (k + 1 .. n) = 1 .. n
    BY <2>2
  <2> QED
    BY <2>1, <2>3, <2>4
<1>4. SizesTo(o, k) = SumFunctionOnSet(f, A)
      /\ SizesTo(o, Len(o.files)) = SumFunctionOnSet(f, 1 .. Len(o.files))
  BY DEF SizesTo
<1>5. (\A i \in A : f[i] \in Nat) /\ (\A i \in B : f[i] \in Nat) /\ \A i \in A \cup B : f[i] \in Int
  <2>1. \A i \in A \cup B : f[i] \in Nat
    <3> HIDE DEF f, A, B
    <3> QED
      BY <1>1, <1>2, <1>3
  <2> HIDE DEF f, A, B
  <2> QED
    BY <2>1
<1> HIDE DEF f, A, B
<1>6. SumFunctionOnSet(f, A) \in Nat /\ SumFunctionOnSet(f, B) \in Nat
  BY <1>3, <1>5, SumNat
<1>7. SumFunctionOnSet(f, A \cup B) = SumFunctionOnSet(f, A) + SumFunctionOnSet(f, B)
  BY <1>3, <1>5, SumUnion
<1>8. SizesTo(o, Len(o.files)) = SumFunctionOnSet(f, A) + SumFunctionOnSet(f, B)
  BY <1>3, <1>4, <1>7
<1> QED
  BY <1>4, <1>6, <1>8

\* The shape is seen.
LEMMA AdmitStep == GateIInv /\ Admit => GateIInv'
<1> SUFFICES ASSUME GateIInv, Admit PROVE GateIInv'
  OBVIOUS
<1>1. /\ verdict = "open" /\ at = 0 /\ GateTyped /\ EarlyInv /\ GateExact /\ output \in Outputs
      /\ stack = <<>> /\ tally = [strings |-> 0, numbers |-> 0, keys |-> 0]
  BY DEF Admit, GateIInv, GateTyped, EarlyInv
<1>2. ASSUME NEW v \in Reasons, Verdict(v), ~Shaped(output) PROVE GateIInv'
  <2>1. v # "pass"
    BY DEF Reasons
  <2> QED
    BY <1>1, <1>2, <2>1, VerdictStep
<1>3. output.bytes \in Nat /\ MaxBytes \in Nat
  BY <1>1, OutputsAssumption, Limits
<1>4. CASE output.bytes > MaxBytes
  <2>1. ~Shaped(output) /\ Verdict("output_exceeds_max_bytes")
    BY <1>3, <1>4 DEF Shaped, Admit
  <2> QED
    BY <1>2, <2>1 DEF Reasons
<1> DEFINE wrong == IF output.zip THEN Len(output.files) \notin 1 .. MaxEntries ELSE ~RootOK(output)
<1>5. CASE ~(output.bytes > MaxBytes) /\ wrong
  <2>1. ~Shaped(output) /\ Verdict("output_not_structured")
    BY <1>5 DEF Shaped, Admit
  <2> QED
    BY <1>2, <2>1 DEF Reasons
<1>6. CASE ~(output.bytes > MaxBytes) /\ ~wrong
  <2>1. /\ at' = (IF output.zip THEN -1 ELSE 1)
        /\ UNCHANGED <<output, stack, tally, verdict>>
    BY <1>6 DEF Admit
  <2>2. GateExact'
    BY <1>1, <2>1 DEF GateExact
  <2>3. Len(output.files) \in Nat /\ output.zip \in BOOLEAN
    BY <1>1, OutputsAssumption
  <2>4. CASE output.zip
    <3>1. at' = -1 /\ -1 \in -1 .. Len(output.files) + 1
      BY <2>1, <2>3, <2>4
    <3>2. output.bytes <= MaxBytes /\ Len(output.files) \in 1 .. MaxEntries
      BY <1>3, <1>6, <2>4
    <3>3. GateTyped'
      BY <1>1, <2>1, <3>1 DEF GateTyped
    <3>4. EarlyInv' /\ WalkInv'
      BY <1>1, <2>1, <2>4, <3>1, <3>2 DEF EarlyInv, WalkInv
    <3> QED
      BY <2>2, <3>3, <3>4 DEF GateIInv
  <2>5. CASE ~output.zip
    <3>1. Len(output.files) = 1 /\ DOMAIN output.files = 1 .. Len(output.files)
      BY <1>1, <2>5, OutputsAssumption
    <3>2. Shaped(output)
      BY <1>3, <1>6, <2>5, <3>1 DEF Shaped, RootOK
    <3>3. Tallied(output, tally, {}) /\ Walked(output, 1, <<>>, {})
      BY <1>1, NoneCounted, WalkStart
    <3>4. at' = 1 /\ 1 \in -1 .. Len(output.files) + 1
      BY <2>1, <2>5, <3>1
    <3>5. {} \in SUBSET Nodes(output)
      OBVIOUS
    <3>6. GateTyped'
      BY <1>1, <2>1, <3>4 DEF GateTyped
    <3>7. EarlyInv' /\ WalkInv'
      BY <1>1, <2>1, <3>2, <3>3, <3>4, <3>5 DEF EarlyInv, WalkInv
    <3> QED
      BY <2>2, <3>6, <3>7 DEF GateIInv
  <2> QED
    BY <2>4, <2>5
<1> QED
  BY <1>4, <1>5, <1>6

\* The archive's files are decoded, or the first that is bad ends it.
LEMMA DecodeStep == GateIInv /\ DecodeZip => GateIInv'
<1> SUFFICES ASSUME GateIInv, DecodeZip PROVE GateIInv'
  OBVIOUS
<1> DEFINE bad == {k \in DOMAIN output.files :
                      \/ ~output.files[k].json \/ ~OneValue(output.files[k])
                      \/ SizesTo(output, k) > MaxBytes}
<1>1. /\ verdict = "open" /\ at = -1 /\ GateTyped /\ output \in Outputs /\ GateExact
      /\ output.zip /\ output.bytes <= MaxBytes /\ Len(output.files) \in 1 .. MaxEntries
      /\ stack = <<>> /\ tally = [strings |-> 0, numbers |-> 0, keys |-> 0]
  BY DEF DecodeZip, GateIInv, GateTyped, EarlyInv
<1>2. DOMAIN output.files = 1 .. Len(output.files) /\ Len(output.files) \in Nat /\ MaxBytes \in Nat
  BY <1>1, OutputsAssumption, Limits
<1>3. \A k \in DOMAIN output.files : /\ SizesTo(output, k) \in Nat
                                     /\ SizesTo(output, Len(output.files)) \in Nat
                                     /\ SizesTo(output, k) <= SizesTo(output, Len(output.files))
  BY <1>1, SizesGrow
<1>4. CASE bad = {}
  <2>1. at' = 1 /\ UNCHANGED <<output, stack, tally, verdict>>
    BY <1>4 DEF DecodeZip
  <2>2. Len(output.files) \in DOMAIN output.files
    <3>1. PICK n \in Nat : n = Len(output.files)
      BY <1>2
    <3>2. n \in 1 .. n
      BY <1>1, <3>1, Limits
    <3> QED
      BY <1>2, <3>1, <3>2
  <2>3. Shaped(output)
    <3>1. \A k \in DOMAIN output.files : /\ output.files[k].json /\ OneValue(output.files[k])
                                         /\ ~(SizesTo(output, k) > MaxBytes)
      BY <1>4
    <3>2. SizesTo(output, Len(output.files)) <= MaxBytes
      BY <1>2, <1>3, <2>2, <3>1
    <3> QED
      BY <1>1, <3>1, <3>2 DEF Shaped
  <2>4. GateExact'
    BY <1>1, <2>1 DEF GateExact
  <2>6. Tallied(output, tally, {}) /\ Walked(output, 1, <<>>, {}) /\ {} \in SUBSET Nodes(output)
    BY <1>1, NoneCounted, WalkStart
  <2>7. 1 \in -1 .. Len(output.files) + 1
    BY <1>2
  <2>8. GateTyped'
    BY <1>1, <2>1, <2>7 DEF GateTyped
  <2>9. EarlyInv' /\ WalkInv'
    BY <1>1, <2>1, <2>3, <2>6 DEF EarlyInv, WalkInv
  <2> QED
    BY <2>4, <2>8, <2>9 DEF GateIInv
<1>5. CASE bad # {}
  <2> DEFINE first == Min(bad)
             v == IF output.files[first].json /\ SizesTo(output, first) > MaxBytes
                  THEN "output_exceeds_max_bytes" ELSE "output_not_structured"
  <2>1. bad \subseteq Nat
    BY <1>2
  <2>2. first \in bad
    <3> HIDE DEF bad
    <3>1. \E k \in bad : \A m \in bad : k <= m
      BY <1>5, <2>1, Least
    <3> QED
      BY <3>1 DEF Min
  <2>3. v \in Reasons /\ v # "pass"
    BY DEF Reasons
  <2>4. Verdict(v)
    BY <1>5 DEF DecodeZip
  <2>5. ~Shaped(output)
    <3>1. PICK k : k = first
      OBVIOUS
    <3>2. /\ k \in DOMAIN output.files
          /\ \/ ~output.files[k].json \/ ~OneValue(output.files[k])
             \/ SizesTo(output, k) > MaxBytes
      BY <2>2, <3>1
    <3>3. SizesTo(output, k) > MaxBytes => ~(SizesTo(output, Len(output.files)) <= MaxBytes)
      BY <1>2, <1>3, <3>2
    <3> QED
      BY <1>1, <3>2, <3>3 DEF Shaped
  <2> HIDE DEF v
  <2> QED
    BY <1>1, <2>3, <2>4, <2>5, VerdictStep
<1> QED
  BY <1>4, <1>5

\* The root of the next file, or all of them are walked.
LEMMA WalkFileStep == GateIInv /\ WalkFile => GateIInv'
<1> SUFFICES ASSUME GateIInv, WalkFile PROVE GateIInv'
  OBVIOUS
<1>1. /\ verdict = "open" /\ at > 0 /\ stack = <<>> /\ GateTyped /\ WalkInv
      /\ at \in -1 .. Len(output.files) + 1 /\ Shaped(output) /\ output \in Outputs
  BY DEF WalkFile, GateIInv, GateTyped, WalkInv
<1>2. DOMAIN output.files = 1 .. Len(output.files) /\ Len(output.files) \in Nat /\ at \in Int
  BY <1>1, GateTypes
<1>3. CASE at > Len(output.files)
  <2>1. PICK V \in SUBSET Nodes(output) : Tallied(output, tally, V) /\ Walked(output, at, stack, V)
    BY <1>1 DEF WalkInv
  <2>2. \A x \in Nodes(output) : x[1] < at
    <3>1. PICK n \in Nat, a \in Int : n = Len(output.files) /\ a = at
      BY <1>2
    <3>2. \A x \in Nodes(output) : x[1] \in 1 .. n
      BY <1>1, <1>2, <3>1, NodeFacts
    <3>3. \A x \in Nodes(output) : x[1] < a
      BY <1>3, <3>1, <3>2
    <3> QED
      BY <3>1, <3>3
  <2>3. V = Nodes(output)
    BY <2>1, <2>2 DEF Walked
  <2>4. tally.strings <= MaxStringBytes /\ tally.numbers <= MaxNumericValues /\ tally.keys <= MaxKeys
    BY <1>1 DEF GateTyped
  <2>5. Bounded(output)
    BY <1>1, <2>1, <2>3, <2>4, AllCounted
  <2>6. Verdict("pass") /\ "pass" \notin Reasons
    BY <1>3 DEF WalkFile, Reasons
  <2> QED
    BY <1>1, <2>5, <2>6, VerdictStep
<1>4. CASE ~(at > Len(output.files))
  <2>1. at \in DOMAIN output.files
    <3>1. PICK n \in Nat, a \in Int : n = Len(output.files) /\ a = at
      BY <1>2
    <3>2. a \in 1 .. n
      BY <1>1, <1>4, <3>1
    <3> QED
      BY <1>2, <3>1, <3>2
  <2>2. Visit(1, <<>>, tally.strings, tally.keys)
    BY <1>4 DEF WalkFile
  <2>3. ~OfObject(output, <<at, 1>>)
    BY DEF OfObject
  <2>4. /\ tally.strings \in Nat /\ tally.keys \in Nat /\ tally.keys <= MaxKeys
    BY <1>1, GateTypes DEF GateTyped
  <2>5. /\ tally.strings = tally.strings + IF OfObject(output, <<at, 1>>) THEN Tree[1].key ELSE 0
        /\ tally.keys = tally.keys + IF OfObject(output, <<at, 1>>) THEN 1 ELSE 0
    BY <2>3, <2>4
  <2>6. <<>> \in Seq(Frame) /\ Len(<<>>) = Len(stack)
    BY <1>1
  <2>7. Taken(stack, 1, <<>>)
    BY <1>1, <2>6 DEF Taken
  <2> QED
    BY <1>1, <2>1, <2>2, <2>4, <2>5, <2>7, VisitStep
<1> QED
  BY <1>3, <1>4

\* A member of the object, or the next of the array.
LEMMA MemberStep == GateIInv /\ Member => GateIInv'
<1> SUFFICES ASSUME GateIInv, Member PROVE GateIInv'
  OBVIOUS
<1>1. /\ verdict = "open" /\ stack # <<>> /\ Top.left # {} /\ output \in Outputs /\ stack \in Seq(Frame)
      /\ GateTyped /\ EarlyInv /\ WalkInv
  BY DEF Member, GateIInv, GateTyped
<1>2. at > 0
  <2>1. at \in Int
    BY <1>1, GateTypes
  <2> QED
    BY <1>1, <2>1 DEF EarlyInv
<1>3. PICK V \in SUBSET Nodes(output) : Tallied(output, tally, V) /\ Walked(output, at, stack, V)
  BY <1>1, <1>2 DEF WalkInv
<1>4. Shaped(output) /\ at \in DOMAIN output.files
  BY <1>1, <1>2, <1>3 DEF WalkInv, Walked
<1>5. PICK m \in (IF InObject THEN Top.left ELSE {Min(Top.left)}) :
         LET keys    == tally.keys + IF InObject THEN 1 ELSE 0
             strings == tally.strings + IF InObject THEN Tree[m].key ELSE 0
         IN  IF keys > MaxKeys THEN Verdict("output_too_many_keys")
             ELSE IF strings > MaxStringBytes THEN Verdict("output_strings_too_large")
             ELSE Visit(m, Without(m), strings, keys)
  BY DEF Member
<1>6. Len(stack) \in 1 .. Len(stack) /\ Top = stack[Len(stack)] /\ Top \in Frame /\ Len(stack) \in Nat
  <2>1. Len(stack) \in Nat /\ Len(stack) # 0 /\ DOMAIN stack = 1 .. Len(stack)
    BY <1>1
  <2>2. Len(stack) \in 1 .. Len(stack)
    BY <2>1
  <2> QED
    BY <1>1, <2>1, <2>2 DEF Top
<1>7. m \in Top.left
  <2>1. Top.left \subseteq Nat
    BY <1>6 DEF Frame
  <2>2. \E k \in Top.left : \A l \in Top.left : k <= l
    BY <1>1, <2>1, Least
  <2>3. Min(Top.left) \in Top.left
    BY <2>2 DEF Min
  <2> QED
    BY <1>5, <2>3
<1> DEFINE x == <<at, m>>
           keys    == tally.keys + IF InObject THEN 1 ELSE 0
           strings == tally.strings + IF InObject THEN Tree[m].key ELSE 0
<1>8. /\ m \in DOMAIN Tree /\ x \in Nodes(output) \ V
      /\ m = 1 <=> stack = <<>>
      /\ m \in Kids(Tree, Top.node)
  BY <1>1, <1>3, <1>4, <1>6, <1>7, NextNode DEF Tree
<1>9. OfObject(output, x) <=> InObject
  BY <1>1, <1>8 DEF OfObject, Above, At, Kids, InObject, Tree
<1>10. Tree[m].key \in Nat /\ At(output, x) = Tree[m]
  BY <1>1, <1>8, NodeFacts DEF At, Tree
<1>11. /\ tally.strings \in Nat /\ tally.keys \in Nat /\ MaxKeys \in Nat /\ MaxStringBytes \in Nat
       /\ tally \in [strings: Nat, numbers: Nat, keys: Nat]
  BY <1>1, GateTypes, Limits DEF GateTyped, Tallies
<1>12. /\ keys = tally.keys + IF OfObject(output, x) THEN 1 ELSE 0
       /\ strings = tally.strings + IF OfObject(output, x) THEN Tree[m].key ELSE 0
       /\ keys \in Nat /\ strings \in Nat
  BY <1>9, <1>10, <1>11
<1>13. strings <= tally.strings + Content(output)[x] /\ Content(output)[x] \in Nat
  <2>1. At(output, x).len \in Nat
    BY <1>1, <1>8, NodeFacts
  <2> QED
    BY SMTT(20), <1>8, <1>10, <1>11, <1>12, <2>1 DEF Content
<1> DEFINE u == [strings |-> tally.strings + Content(output)[x],
                 numbers |-> tally.numbers + IF IsNumber(output, x) THEN 1 ELSE 0,
                 keys    |-> tally.keys + IF OfObject(output, x) THEN 1 ELSE 0]
<1>14. u.strings > MaxStringBytes \/ u.keys > MaxKeys => ~Bounded(output)
  <2>1. /\ u.strings = tally.strings + Content(output)[x]
        /\ u.numbers = tally.numbers + IF IsNumber(output, x) THEN 1 ELSE 0
        /\ u.keys = tally.keys + IF OfObject(output, x) THEN 1 ELSE 0
    OBVIOUS
  <2>2. output \in Outputs /\ V \in SUBSET Nodes(output) /\ x \in Nodes(output) \ V
        /\ Tallied(output, tally, V)
    BY <1>1, <1>3, <1>8
  <2> HIDE DEF u, x
  <2> QED
    BY <2>1, <2>2, Counted
<1>15. CASE keys > MaxKeys
  <2>1. ~Bounded(output) /\ Verdict("output_too_many_keys")
    BY <1>5, <1>12, <1>14, <1>15
  <2>2. "output_too_many_keys" \in Reasons
    BY DEF Reasons
  <2> QED
    BY <1>1, <2>1, <2>2, VerdictStep
<1>16. CASE ~(keys > MaxKeys) /\ strings > MaxStringBytes
  <2>1. u.strings > MaxStringBytes
    BY <1>11, <1>12, <1>13, <1>16
  <2>2. ~Bounded(output) /\ Verdict("output_strings_too_large")
    BY <1>5, <1>14, <1>16, <2>1
  <2>3. "output_strings_too_large" \in Reasons
    BY DEF Reasons
  <2> QED
    BY <1>1, <2>2, <2>3, VerdictStep
<1>17. CASE ~(keys > MaxKeys) /\ ~(strings > MaxStringBytes)
  <2> DEFINE below == Without(m)
  <2>1. Visit(m, below, strings, keys)
    BY <1>5, <1>17
  <2>2. below \in Seq(Frame) /\ Len(below) = Len(stack)
    BY <1>1, <1>6 DEF Without, Frame
  <2>3. \A i \in 1 .. Len(stack) :
           /\ below[i].node = stack[i].node
           /\ i = Len(stack) => below[i].left = stack[i].left \ {m}
           /\ i # Len(stack) => below[i].left = stack[i].left
    BY <1>1, <1>6 DEF Without, Frame
  <2>4. keys <= MaxKeys
    BY <1>11, <1>12, <1>17
  <2>5. stack # <<>> /\ m \in stack[Len(stack)].left
    BY <1>1, <1>6, <1>7
  <2>6. /\ strings = tally.strings + IF OfObject(output, <<at, m>>) THEN Tree[m].key ELSE 0
        /\ keys = tally.keys + IF OfObject(output, <<at, m>>) THEN 1 ELSE 0
    BY <1>12
  <2> HIDE DEF below, strings, keys
  <2>7. Taken(stack, m, below)
    BY <2>2, <2>3 DEF Taken
  <2> QED
    BY <1>1, <1>4, <2>1, <2>4, <2>5, <2>6, <2>7, VisitStep
<1> QED
  BY <1>15, <1>16, <1>17

\* A value is done.
LEMMA ReturnStep == GateIInv /\ Return => GateIInv'
<1> SUFFICES ASSUME GateIInv, Return PROVE GateIInv'
  OBVIOUS
<1>1. /\ verdict = "open" /\ stack # <<>> /\ stack[Len(stack)].left = {}
      /\ output \in Outputs /\ stack \in Seq(Frame) /\ GateExact
      /\ GateTyped /\ EarlyInv /\ WalkInv
      /\ output' = output /\ tally' = tally /\ verdict' = verdict
  BY DEF Return, GateIInv, GateTyped
<1>2. at > 0 /\ at \in Nat
  <2>1. at \in Int
    BY <1>1, GateTypes
  <2> QED
    BY <1>1, <2>1 DEF EarlyInv
<1>3. PICK V \in SUBSET Nodes(output) : Tallied(output, tally, V) /\ Walked(output, at, stack, V)
  BY <1>1, <1>2 DEF WalkInv
<1>4. PICK up, b : up = SubSeq(stack, 1, Len(stack) - 1) /\ b = IF Len(stack) = 1 THEN at + 1 ELSE at
  OBVIOUS
<1>5. Walked(output, b, up, V) /\ up \in Seq(Frame)
  <2>1. /\ output \in Outputs /\ stack \in Seq(Frame) /\ stack # <<>>
        /\ stack[Len(stack)].left = {} /\ V \in SUBSET Nodes(output)
        /\ Walked(output, at, stack, V)
    BY <1>1, <1>3
  <2>2. up = SubSeq(stack, 1, Len(stack) - 1)
    BY <1>4
  <2>3. /\ Len(stack) = 1 => Walked(output, at + 1, up, V)
        /\ Len(stack) # 1 => Walked(output, at, up, V)
        /\ up \in Seq(Frame)
    BY <1>2, <2>1, <2>2, WalksUp
  <2> QED
    BY <1>4, <2>3
<1>6. stack' = up /\ at' = b
  BY <1>4 DEF Return
<1>7. Len(up) <= Len(stack) /\ Len(up) \in Nat /\ Len(stack) \in Nat
  <2>1. PICK n \in Nat : n = Len(stack)
    BY <1>1
  <2>2. n # 0
    BY <1>1, <2>1
  <2>3. Len(up) = n - 1
    BY <1>1, <1>4, <2>1, <2>2
  <2> QED
    BY <2>1, <2>2, <2>3
<1>8. at \in DOMAIN output.files /\ DOMAIN output.files = 1 .. Len(output.files)
      /\ Len(output.files) \in Nat
  BY <1>1, <1>3, OutputsAssumption DEF Walked
<1>9. b \in -1 .. Len(output.files) + 1 /\ b > 0
  BY <1>2, <1>4, <1>8
<1>10. GateExact'
  BY <1>1 DEF GateExact
<1>11. Len(up) <= MaxDepth + 1
  <2>1. Len(stack) <= MaxDepth + 1
    BY <1>1 DEF GateTyped
  <2> QED
    BY <1>7, <2>1, Limits
<1>12. Shaped(output)
  BY <1>1, <1>2 DEF WalkInv
<1>13. GateTyped'
  BY <1>1, <1>5, <1>6, <1>9, <1>11 DEF GateTyped
<1>14. EarlyInv' /\ WalkInv'
  BY <1>1, <1>3, <1>5, <1>6, <1>9, <1>12 DEF EarlyInv, WalkInv
<1> QED
  BY <1>10, <1>13, <1>14 DEF GateIInv

\* output_gate.go: for any output, any trees and any order of an object's members, the
\* gate lets out exactly what has the shape and decodes to what keeps every bound.
THEOREM GateCorrect == GateSpec => []GateInv
<1>1. GateIInv /\ [GateNext]_gateVars => GateIInv'
  <2>1. GateIInv /\ UNCHANGED gateVars => GateIInv'
    BY DEF GateIInv, gateVars, GateExact, GateTyped, EarlyInv, WalkInv
  <2> QED
    BY <2>1, AdmitStep, DecodeStep, WalkFileStep, MemberStep, ReturnStep DEF GateNext
<1>2. GateIInv => GateInv
  <2> SUFFICES ASSUME GateTyped, GateExact PROVE GateInv
    BY DEF GateIInv
  <2>1. /\ tally.strings \in 0 .. MaxStringBytes /\ tally.numbers \in 0 .. MaxNumericValues
        /\ tally.keys \in 0 .. MaxKeys
    BY GateTypes, Limits DEF GateTyped
  <2> QED
    BY <2>1 DEF GateInv, GateTypeOK, GateTyped
<1> QED
  BY <1>1, <1>2, GateStart, PTL DEF GateSpec
=============================================================================
