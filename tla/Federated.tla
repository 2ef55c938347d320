----------------------------- MODULE Federated -----------------------------
(***************************************************************************)
(* A joint job over several datasets (compute/federated.go).  The          *)
(* submitter creates the parent and one sub-job per dataset, each paid     *)
(* with a credit of that dataset's entitlement.  Whoever ends a sub-job    *)
(* calls tryAdvanceFederated: the call that finds every sub-job settled    *)
(* and wins the parent's conditional update refunds the dropouts and       *)
(* releases the joint output, or fails the parent and refunds everybody.   *)
(*                                                                         *)
(* A worker is named by the dataset whose sub-job it runs.  The sub-jobs   *)
(* are fanned out in any order.  Every entitlement starts with one credit  *)
(* used by an earlier job, so that one refund too many shows.              *)
(***************************************************************************)
EXTENDS Integers, FiniteSets

CONSTANTS Parties,         \* datasets of the joint job
          Submitter,
          MinParticipants, \* fed.MinParticipants, 2 .. the number of datasets
          Private,         \* datasets whose offer charges privacy for the sub-job itself
          NoParty

ASSUME FederatedAssumption == /\ IsFiniteSet(Parties) /\ NoParty \notin Parties
                              /\ Submitter \notin Parties /\ Private \subseteq Parties
                              /\ MinParticipants \in 2 .. Cardinality(Parties)

VARIABLES
  mode,      \* compute_federated_jobs.mode; a federated job asks for privacy
  fed,       \* compute_federated_jobs.status
  stored,    \* the joint output is an object
  sub,       \* compute_jobs.status of each sub-job
  channel,   \* sub-jobs in the workers' channel
  jobsUsed,  \* compute_entitlements.jobs_used
  charged,   \* dp_budget_ledger: rows per sub-job for the joint output
  spent,     \* dp_budget_ledger: rows per sub-job for its own
  fpc,       \* next statement of each process
  target,    \* the dataset the submitter is sending
  todo,      \* sub-jobs a process has yet to refund
  back,      \* history: refunds of each sub-job's credit
  early,     \* history: sub-jobs whose credit their own worker gave back
  faults,    \* history: sub-jobs whose refund a failed statement or a crash lost
  disturbed  \* history: a fault has happened, or the full channel dropped an id

fedRows == <<mode, fed, stored, sub, channel>>
ledger  == <<charged, spent>>
fedHist == <<early, faults, disturbed>>
fedVars == <<mode, fed, stored, sub, channel, jobsUsed, charged, spent, fpc, target, todo, back,
             early, faults, disturbed>>

FedProcs  == Parties \cup {Submitter}
FedStatus == {"none", "created", "fanout", "aggregating", "released", "failed"}
SubStatus == {"none", "queued", "running", "released", "dropped"}
FedPc     == {"idle", "spend", "create", "giveBack", "failFanout", "run",
              "spent", "reread", "parent", "list", "take", "fail", "refundDropouts", "refundAll",
              "aggregate", "failAggregate", "release", "charge", "done"}

Survivors == {d \in Parties : sub[d] = "released"}
Dropouts  == {d \in Parties : sub[d] = "dropped"}
Created   == {d \in Parties : sub[d] # "none"}

FederatedInit ==
  /\ mode \in {"federated", "psi"} /\ fed = "none" /\ stored = FALSE
  /\ sub = [d \in Parties |-> "none"] /\ channel = {}
  /\ jobsUsed = [d \in Parties |-> 1] /\ charged = [d \in Parties |-> 0]
  /\ spent = [d \in Parties |-> 0]
  /\ fpc = [p \in FedProcs |-> "idle"] /\ target = NoParty
  /\ todo = [p \in FedProcs |-> {}]
  /\ back = [d \in Parties |-> 0] /\ early = {} /\ faults = {} /\ disturbed = FALSE

FAt(p, l)   == fpc[p] = l
FGoto(p, l) == fpc' = [fpc EXCEPT ![p] = l]

\* RefundQuota: never below zero.
GiveBack(d) == /\ jobsUsed' = [jobsUsed EXCEPT ![d] = IF @ > 0 THEN @ - 1 ELSE 0]
               /\ back' = [back EXCEPT ![d] = @ + 1]

-----------------------------------------------------------------------------
(***************************************************************************)
(* SubmitFederatedJob.  The checks of every dataset change nothing and     *)
(* come first.                                                             *)
(***************************************************************************)
CreateFederatedJob ==
  /\ FAt(Submitter, "idle") /\ fed = "none"
  /\ fed' = "created"
  /\ FGoto(Submitter, "spend")
  /\ UNCHANGED <<mode, stored, sub, channel, jobsUsed, ledger, target, todo, back, fedHist>>

\* submitJobTagged up to its SpendQuota: any check may refuse by now.
SubSpend ==
  /\ FAt(Submitter, "spend") /\ Created # Parties
  /\ \/ \E d \in Parties \ Created :
           /\ target' = d
           /\ jobsUsed' = [jobsUsed EXCEPT ![d] = @ + 1]
           /\ FGoto(Submitter, "create")
     \/ FGoto(Submitter, "failFanout") /\ UNCHANGED <<target, jobsUsed>>
  /\ UNCHANGED <<fedRows, ledger, todo, back, fedHist>>

\* CreateJob and enqueue: a full channel drops the id.  A failed insert is
\* refunded by submitJobTagged itself.
SubCreate ==
  /\ FAt(Submitter, "create")
  /\ \/ /\ sub' = [sub EXCEPT ![target] = "queued"]
        /\ \/ channel' = channel \cup {target} /\ UNCHANGED disturbed
           \/ UNCHANGED channel /\ disturbed' = TRUE
        /\ FGoto(Submitter, "spend") /\ target' = NoParty
     \/ FGoto(Submitter, "giveBack") /\ UNCHANGED <<sub, channel, target, disturbed>>
  /\ UNCHANGED <<mode, fed, stored, jobsUsed, ledger, todo, back, early, faults>>

SubGiveBack ==
  /\ FAt(Submitter, "giveBack")
  /\ GiveBack(target)
  /\ FGoto(Submitter, "failFanout") /\ target' = NoParty
  /\ UNCHANGED <<fedRows, ledger, todo, fedHist>>

\* The parent fails with what was created: those sub-jobs run on.
FailFanout ==
  /\ FAt(Submitter, "failFanout")
  /\ fed' = IF fed \in {"released", "failed"} THEN fed ELSE "failed"
  /\ todo' = [todo EXCEPT ![Submitter] = Created]
  /\ FGoto(Submitter, "refundAll")
  /\ UNCHANGED <<mode, stored, sub, channel, jobsUsed, ledger, target, back, fedHist>>

\* Mutant: no kick after the parent has started.
StartQuietly ==
  /\ FAt(Submitter, "spend") /\ Created = Parties
  /\ fed = "created" /\ fed' = "fanout"
  /\ FGoto(Submitter, "done")
  /\ UNCHANGED <<mode, stored, sub, channel, jobsUsed, ledger, target, todo, back, fedHist>>

\* created -> fanout, and tryAdvance for the sub-jobs that were faster.
StartFanout ==
  /\ FAt(Submitter, "spend") /\ Created = Parties
  /\ fed = "created" /\ fed' = "fanout"
  /\ FGoto(Submitter, "parent")
  /\ UNCHANGED <<mode, stored, sub, channel, jobsUsed, ledger, target, todo, back, fedHist>>

-----------------------------------------------------------------------------
(***************************************************************************)
(* The worker of one sub-job.                                              *)
(***************************************************************************)
ClaimSub(d) ==
  /\ FAt(d, "idle") /\ d \in channel
  /\ channel' = channel \ {d}
  /\ IF sub[d] = "queued"
     THEN sub' = [sub EXCEPT ![d] = "running"] /\ FGoto(d, "run")
     ELSE UNCHANGED <<sub, fpc>>
  /\ UNCHANGED <<mode, fed, stored, jobsUsed, ledger, target, todo, back, fedHist>>

\* SpendDP, for an offer that asks privacy of this kind of algorithm: the charge stays
\* whatever becomes of the joint job.  Over the budget the sub-job is rejected, and
\* without its ledger it fails.
SpendOwn(d) ==
  /\ FAt(d, "run") /\ d \in Private
  /\ spent' = [spent EXCEPT ![d] = @ + 1]
  /\ FGoto(d, "spent")
  /\ UNCHANGED <<fedRows, jobsUsed, charged, target, todo, back, fedHist>>

\* Release and Reject need a running job, Fail one that is not over: whoever misses
\* goes no further.
EndSub(d, from, to, next) ==
  /\ IF sub[d] \in from THEN sub' = [sub EXCEPT ![d] = to] /\ FGoto(d, next)
                        ELSE UNCHANGED sub /\ FGoto(d, "done")
  /\ UNCHANGED <<mode, fed, stored, channel, jobsUsed, ledger, target, todo, back, fedHist>>

ReleaseSub(d) == /\ FAt(d, IF d \in Private THEN "spent" ELSE "run")
                 /\ EndSub(d, {"running"}, "released", "parent")
RejectSub(d)  == FAt(d, "run") /\ EndSub(d, {"running"}, "dropped", "reread")
FailSub(d)    == FAt(d, "run") /\ EndSub(d, {"queued", "running"}, "dropped", "parent")

\* rejectJob reads the job it rejected, to leave a federated one to the coordinator.
RereadRejected(d) ==
  /\ FAt(d, "reread") /\ FGoto(d, "parent")
  /\ UNCHANGED <<fedRows, jobsUsed, ledger, target, todo, back, fedHist>>

-----------------------------------------------------------------------------
(***************************************************************************)
(* tryAdvanceFederated.                                                    *)
(***************************************************************************)
ReadParent(p) ==
  /\ FAt(p, "parent")
  /\ FGoto(p, IF fed = "fanout" THEN "list" ELSE "done")
  /\ UNCHANGED <<fedRows, jobsUsed, ledger, target, todo, back, fedHist>>

ListSubJobs(p) ==
  /\ FAt(p, "list")
  /\ FGoto(p, IF Survivors \cup Dropouts # Parties THEN "done"
              ELSE IF Cardinality(Survivors) >= MinParticipants THEN "take" ELSE "fail")
  /\ UNCHANGED <<fedRows, jobsUsed, ledger, target, todo, back, fedHist>>

\* Mutant: the update does not ask for the status it was read with.
TakeAlways(p) ==
  /\ FAt(p, "take")
  /\ fed' = "aggregating" /\ todo' = [todo EXCEPT ![p] = Dropouts] /\ FGoto(p, "refundDropouts")
  /\ UNCHANGED <<mode, stored, sub, channel, jobsUsed, ledger, target, back, fedHist>>

TransitionFederated(p) ==
  /\ FAt(p, "take")
  /\ IF fed = "fanout"
     THEN /\ fed' = "aggregating" /\ todo' = [todo EXCEPT ![p] = Dropouts]
          /\ FGoto(p, "refundDropouts")
     ELSE FGoto(p, "done") /\ UNCHANGED <<fed, todo>>
  /\ UNCHANGED <<mode, stored, sub, channel, jobsUsed, ledger, target, back, fedHist>>

\* FailFederated hits once; the winner refunds everybody, or, when it has
\* refunded the dropouts already, the survivors.
FailFederated(p) ==
  /\ fpc[p] \in {"fail", "failAggregate"}
  /\ IF fed \notin {"released", "failed"}
     THEN /\ fed' = "failed"
          /\ todo' = [todo EXCEPT ![p] = IF FAt(p, "fail") THEN Parties ELSE Survivors]
          /\ FGoto(p, "refundAll")
     ELSE FGoto(p, "done") /\ UNCHANGED <<fed, todo>>
  /\ UNCHANGED <<mode, stored, sub, channel, jobsUsed, ledger, target, back, fedHist>>

Refunding(p) == fpc[p] \in {"refundDropouts", "refundAll"}

\* One round of refundFederated's loop: a failed refund is logged.
RefundOne(p) ==
  /\ Refunding(p)
  /\ \E d \in todo[p] :
        /\ todo' = [todo EXCEPT ![p] = @ \ {d}]
        /\ GiveBack(d)
  /\ UNCHANGED <<fedRows, ledger, fpc, target, fedHist>>

RefundFails(p) ==
  /\ Refunding(p)
  /\ \E d \in todo[p] : /\ todo' = [todo EXCEPT ![p] = @ \ {d}]
                        /\ faults' = faults \cup {d}
  /\ disturbed' = TRUE
  /\ UNCHANGED <<fedRows, jobsUsed, ledger, fpc, target, back, early>>

RefundDone(p) ==
  /\ Refunding(p) /\ todo[p] = {}
  /\ FGoto(p, IF FAt(p, "refundDropouts") THEN "aggregate" ELSE "done")
  /\ UNCHANGED <<fedRows, jobsUsed, ledger, target, todo, back, fedHist>>

\* Read the partials, combine them, store the joint output: every error fails
\* the parent.
Combine(p, m) ==
  /\ FAt(p, "aggregate") /\ mode = m
  /\ \/ stored' = TRUE /\ FGoto(p, "release")
     \/ UNCHANGED stored /\ FGoto(p, "failAggregate")
  /\ UNCHANGED <<mode, fed, sub, channel, jobsUsed, ledger, target, todo, back, fedHist>>

Aggregate(p)    == Combine(p, "federated")
AggregatePSI(p) == Combine(p, "psi")

ReleaseFederated(p) ==
  /\ FAt(p, "release")
  /\ IF fed = "aggregating"
     THEN /\ fed' = "released"
          /\ IF mode = "federated"
             THEN FGoto(p, "charge") /\ todo' = [todo EXCEPT ![p] = Survivors]
             ELSE FGoto(p, "done") /\ UNCHANGED todo
     ELSE FGoto(p, "done") /\ UNCHANGED <<fed, todo>>
  /\ UNCHANGED <<mode, stored, sub, channel, jobsUsed, ledger, target, back, fedHist>>

\* SpendDP for each survivor, after the release: an error is logged.
ChargeSurvivors(p) ==
  /\ FAt(p, "charge")
  /\ \/ \E d \in todo[p] : /\ todo' = [todo EXCEPT ![p] = @ \ {d}]
                           /\ charged' \in {charged, [charged EXCEPT ![d] = @ + 1]}
                           /\ UNCHANGED fpc
     \/ todo[p] = {} /\ FGoto(p, "done") /\ UNCHANGED <<todo, charged>>
  /\ UNCHANGED <<fedRows, jobsUsed, spent, target, back, fedHist>>

-----------------------------------------------------------------------------
(***************************************************************************)
(* Faults: a lease that ends, a failed statement, the end of the process.  *)
(***************************************************************************)
\* ReclaimStaleLeases: back to queued, or failed after the last attempt.
\* Nobody calls tryAdvanceFederated, nobody sends the id again.
ReclaimSub(d) ==
  /\ sub[d] = "running"
  /\ \E to \in {"queued", "dropped"} : sub' = [sub EXCEPT ![d] = to]
  /\ disturbed' = TRUE
  /\ UNCHANGED <<mode, fed, stored, channel, jobsUsed, ledger, fpc, target, todo, back, early,
                 faults>>

\* When it cannot be read it is taken for an ordinary job: its credit goes back, unless
\* that fails too, and the coordinator is not called.
RereadFails(d) ==
  /\ FAt(d, "reread") /\ FGoto(d, "done")
  /\ \/ GiveBack(d) /\ early' = early \cup {d}
     \/ UNCHANGED <<jobsUsed, back, early>>
  /\ disturbed' = TRUE
  /\ UNCHANGED <<fedRows, ledger, target, todo, faults>>

Owed(p) == IF Refunding(p) THEN todo[p] ELSE {}

\* A statement fails: the call returns, but a submitter that cannot give the
\* credit back still fails the parent, and one that cannot fail it still refunds.
FedStop(p) ==
  /\ \/ /\ \/ fpc[p] \in {"run", "spent", "parent", "list", "take", "fail", "failAggregate",
                        "release"}
           \/ FAt(p, "spend") /\ Created = Parties
        /\ FGoto(p, "done") /\ UNCHANGED <<target, todo>>
     \/ FAt(p, "giveBack") /\ FGoto(p, "failFanout") /\ target' = NoParty /\ UNCHANGED todo
     \/ /\ FAt(p, "failFanout") /\ FGoto(p, "refundAll")
        /\ todo' = [todo EXCEPT ![p] = Created] /\ UNCHANGED target
  /\ disturbed' = TRUE
  /\ UNCHANGED <<fedRows, jobsUsed, ledger, back, early, faults>>

\* Every request and worker ends, and the channel with them.
FedCrash ==
  /\ fed # "none"
  /\ faults' = faults \cup UNION {Owed(p) : p \in FedProcs}
  /\ disturbed' = TRUE
  /\ fpc' = [p \in FedProcs |-> "done"] /\ target' = NoParty
  /\ todo' = [p \in FedProcs |-> {}] /\ channel' = {}
  /\ UNCHANGED <<mode, fed, stored, sub, jobsUsed, ledger, back, early>>

Advance(p) == \/ ReadParent(p) \/ ListSubJobs(p) \/ TransitionFederated(p) \/ FailFederated(p)
              \/ RefundOne(p) \/ RefundDone(p)
              \/ Aggregate(p) \/ AggregatePSI(p) \/ ReleaseFederated(p) \/ ChargeSurvivors(p)

Submission == SubSpend \/ SubCreate \/ SubGiveBack \/ FailFanout \/ StartFanout

SubWork(d) == \/ ClaimSub(d) \/ SpendOwn(d) \/ ReleaseSub(d) \/ RejectSub(d) \/ FailSub(d)
              \/ RereadRejected(d)

FedFaults == \/ \E d \in Parties : ReclaimSub(d) \/ RereadFails(d)
             \/ \E p \in FedProcs : RefundFails(p) \/ FedStop(p)
             \/ FedCrash

FederatedNext == \/ CreateFederatedJob \/ Submission
                 \/ \E d \in Parties : SubWork(d)
                 \/ \E p \in FedProcs : Advance(p)
                 \/ FedFaults

\* The workers and the submitter go on until their statements are done.
FederatedFairness == /\ WF_fedVars(Submission)
                     /\ \A d \in Parties : WF_fedVars(SubWork(d))
                     /\ \A p \in FedProcs : WF_fedVars(Advance(p))

FederatedSpec == FederatedInit /\ [][FederatedNext]_fedVars /\ FederatedFairness

-----------------------------------------------------------------------------
(***************************************************************************)
(* Properties.                                                             *)
(***************************************************************************)
\* Every variable has its type.
FederatedTypeOK ==
  /\ mode \in {"federated", "psi"} /\ fed \in FedStatus /\ stored \in BOOLEAN
  /\ sub \in [Parties -> SubStatus] /\ channel \subseteq Parties
  /\ jobsUsed \in [Parties -> 0 .. 2]
  /\ charged \in [Parties -> Nat] /\ spent \in [Parties -> Nat]
  /\ fpc \in [FedProcs -> FedPc] /\ target \in Parties \cup {NoParty}
  /\ todo \in [FedProcs -> SUBSET Parties]
  /\ back \in [Parties -> Nat] /\ {early, faults} \subseteq SUBSET Parties /\ disturbed \in BOOLEAN

\* federated.go:218: however the last sub-jobs finish together, one call decides;
\* nobody else aggregates, refunds or charges.
OneDecision ==
  Cardinality({p \in FedProcs : fpc[p] \in {"refundDropouts", "refundAll", "aggregate",
                                            "failAggregate", "release", "charge"}}) <= 1

\* federated.go:411: no credit is given back twice, so no other job's credit is, except
\* that of a rejected sub-job whose own worker gave it back; and a survivor of a released
\* joint job is billed.
BilledOnce ==
  \A d \in Parties : /\ back[d] <= IF d \in early THEN 2 ELSE 1
                     /\ d \in early => sub[d] = "dropped"
                     /\ d \in Created => jobsUsed[d] = 2 - back[d]
                     /\ d \notin Created => jobsUsed[d] >= 1
                     /\ fed = "released" /\ sub[d] = "released" => back[d] = 0

\* Once nobody is at work, a job that is over has given back every credit that
\* bought nothing, but for those a fault lost.
RefundsComplete ==
  (fed \in {"released", "failed"} /\ \A p \in FedProcs : Owed(p) = {})
  => \A d \in Created \ faults : back[d] >= 1 \/ (fed = "released" /\ sub[d] = "released")

\* A released joint output comes from enough parties, all of them settled, and its own
\* privacy cost is charged to those parties only, once each; a partial of an offer that
\* charges for itself was charged once before it counted as one of them, on top of that.
JointFromSurvivors ==
  /\ fed \in {"aggregating", "released"} =>
        Survivors \cup Dropouts = Parties /\ Cardinality(Survivors) >= MinParticipants
  /\ fed = "released" => stored
  /\ \A d \in Parties :
        /\ charged[d] <= (IF fed = "released" /\ sub[d] = "released" THEN 1 ELSE 0)
        /\ spent[d] <= (IF d \in Private THEN 1 ELSE 0)
        /\ sub[d] = "released" /\ d \in Private => spent[d] = 1

\* federated.go:113: with nothing failing, a job whose sub-jobs may all end
\* before its own start is committed never hangs.
FederatedSettles == fed = "created" ~> (fed \in {"released", "failed"} \/ disturbed)

\* What a joint job owes its parties, together.
FederatedInv ==
  FederatedTypeOK /\ OneDecision /\ BilledOnce /\ RefundsComplete /\ JointFromSurvivors
=============================================================================
