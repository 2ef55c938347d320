------------------------------ MODULE Registry ------------------------------
(***************************************************************************)
(* Which algorithm may run on a dataset, on which machine, with which key  *)
(* (compute/service.go, worker.go, runner_tee.go, kbs.go).  Operators      *)
(* review algorithms; a review then changes the key broker's in-memory     *)
(* policy.  Sellers edit the offer.  One buyer's job is checked against    *)
(* the offer and the algorithm when it is submitted, and against the offer *)
(* as it is by then when a worker starts it.                               *)
(*                                                                         *)
(* The broker is the one in the process: it starts with no policy, and a   *)
(* policy of nothing admits every measurement.                             *)
(***************************************************************************)
EXTENDS Integers, FiniteSets

CONSTANTS Algos, ModelAlgos,  \* algorithms; those whose output is a model
          Reviews,            \* what a review may set: status, trusted
          OfferChoices,       \* what a seller may set: trust_level, enabled, allowed
          Operators, NoAlgo

\* An algorithm stands for its image which nothing changes: two algorithms
\* with one image are not modelled.
AlgoRow  == [status : {"pending", "approved", "rejected", "disabled"}, trusted : BOOLEAN]
Offers   == [trust : {"L1", "L2"}, enabled : BOOLEAN, allow : SUBSET Algos]

ASSUME RegistryAssumption == /\ ModelAlgos \subseteq Algos /\ NoAlgo \notin Algos
                             /\ Reviews \subseteq AlgoRow /\ OfferChoices \subseteq Offers

VARIABLES
  algo,      \* algorithms: status, trusted
  offer,     \* dataset_compute_offers: trust_level, enabled, allowed ({} is all)
  tee,       \* this process runs a TEE runner
  allowed,   \* mockKBS.allowed, by algorithm
  review,    \* of each operator: the algorithm whose policy change is due
  job,       \* the job: state, algorithm, the offer read, attested
  reviewed,  \* history: algorithms reviewed since the process started
  raced,     \* history: algorithms two reviews of which overlapped
  moved      \* history: the offer or an algorithm changed since the job was checked

registryVars == <<algo, offer, tee, allowed, review, job, reviewed, raced, moved>>

JobState == {"none", "submitting", "queued", "running", "keyed", "released", "refused", "failed", "stranded"}
NoReview == [algo |-> NoAlgo, add |-> FALSE]
NoOffer  == [trust |-> "L1", enabled |-> FALSE, allow |-> {}]
NoJobYet == [state |-> "none", algo |-> NoAlgo, offer |-> NoOffer, attested |-> FALSE]

Good(a)  == algo[a] = [status |-> "approved", trusted |-> TRUE]

RegistryInit ==
  /\ algo \in [Algos -> Reviews] /\ offer \in OfferChoices
  /\ tee \in BOOLEAN
  /\ allowed = {} /\ review = [o \in Operators |-> NoReview]
  /\ job = NoJobYet /\ reviewed = {} /\ raced = {} /\ moved = FALSE

-----------------------------------------------------------------------------
\* ReviewAlgorithm: the row, and the policy after it.
ReviewAlgorithm(o, a, row) ==
  /\ review[o] = NoReview
  /\ algo' = [algo EXCEPT ![a] = row]
  /\ review' = [review EXCEPT ![o] =
                  [algo |-> a, add |-> row.trusted /\ row.status = "approved"]]
  /\ reviewed' = reviewed \cup {a}
  /\ raced' = IF \E q \in Operators : review[q].algo = a THEN raced \cup {a} ELSE raced
  /\ moved' = (moved \/ job.state # "none")
  /\ UNCHANGED <<offer, tee, allowed, job>>

\* Mutant: a review only ever widens the policy.
RegisterOnly(o) ==
  /\ review[o] # NoReview
  /\ allowed' = IF review[o].add THEN allowed \cup {review[o].algo} ELSE allowed
  /\ review' = [review EXCEPT ![o] = NoReview]
  /\ UNCHANGED <<algo, offer, tee, job, reviewed, raced, moved>>

UpdatePolicy(o) ==
  /\ review[o] # NoReview
  /\ allowed' = IF review[o].add THEN allowed \cup {review[o].algo}
                ELSE allowed \ {review[o].algo}
  /\ review' = [review EXCEPT ![o] = NoReview]
  /\ UNCHANGED <<algo, offer, tee, job, reviewed, raced, moved>>

ConfigureOffer(new) ==
  /\ offer' = new /\ offer # new
  /\ moved' = (moved \/ job.state # "none")
  /\ UNCHANGED <<algo, tee, allowed, review, job, reviewed, raced>>

-----------------------------------------------------------------------------
\* submitJobTagged reads the offer, and the algorithm later.
ReadOffer(a) ==
  /\ job.state = "none" /\ offer.enabled
  /\ job' = [state |-> "submitting", algo |-> a, offer |-> offer, attested |-> FALSE]
  /\ UNCHANGED <<algo, offer, tee, allowed, review, reviewed, raced, moved>>

resolveAlgorithm ==
  LET a == job.algo IN
  /\ job.state = "submitting"
  /\ job' = [job EXCEPT !.state =
               IF /\ algo[a].status = "approved"
                  /\ job.offer.allow # {} => a \in job.offer.allow
                  /\ job.offer.trust = "L1" /\ a \in ModelAlgos => algo[a].trusted
               THEN "queued" ELSE "refused"]
  /\ UNCHANGED <<algo, offer, tee, allowed, review, reviewed, raced, moved>>

\* processJob reads the algorithm and the offer again, and asks only whether the
\* runner fits the trust level.
StartJob ==
  /\ job.state = "queued"
  /\ job' = [job EXCEPT !.state = IF offer.trust = "L2" /\ ~tee THEN "failed" ELSE "running",
                        !.offer = offer]
  /\ UNCHANGED <<algo, offer, tee, allowed, review, reviewed, raced, moved>>

\* teeRunner: the data key, for a measurement in the policy.
ReleaseDataKey ==
  /\ job.state = "running" /\ tee
  /\ job' = [job EXCEPT !.state =
               IF allowed # {} /\ job.algo \notin allowed THEN "failed" ELSE "keyed"]
  /\ UNCHANGED <<algo, offer, tee, allowed, review, reviewed, raced, moved>>

\* The run, the report, the gate and the release; any may fail.
FinishJob ==
  /\ job.state = IF tee THEN "keyed" ELSE "running"
  /\ \/ /\ job.offer.trust = "L2" => tee
        /\ job' = [job EXCEPT !.state = "released", !.attested = tee]
     \/ job' = [job EXCEPT !.state = "failed"]
  /\ UNCHANGED <<algo, offer, tee, allowed, review, reviewed, raced, moved>>

\* The process ends and another starts, maybe with another runner: no policy, no
\* channel to take the queued job from, and the running one is over.
RegistryRestart ==
  /\ allowed' = {} /\ reviewed' = {} /\ raced' = {}
  /\ review' = [o \in Operators |-> NoReview]
  /\ tee' \in BOOLEAN
  /\ job' = [job EXCEPT !.state = IF @ = "submitting" THEN "refused"
                                  ELSE IF @ = "queued" THEN "stranded"
                                  ELSE IF @ \in {"running", "keyed"} THEN "failed" ELSE @]
  /\ UNCHANGED <<algo, offer, moved>>

RegistryNext ==
  \/ \E o \in Operators : UpdatePolicy(o) \/ \E a \in Algos, row \in Reviews : ReviewAlgorithm(o, a, row)
  \/ \E new \in OfferChoices : ConfigureOffer(new)
  \/ \E a \in Algos : ReadOffer(a)
  \/ resolveAlgorithm \/ StartJob \/ ReleaseDataKey \/ FinishJob \/ RegistryRestart

RegistrySpec == RegistryInit /\ [][RegistryNext]_registryVars

-----------------------------------------------------------------------------
\* Every variable has its type.
RegistryTypeOK ==
  /\ algo \in [Algos -> AlgoRow] /\ offer \in Offers
  /\ tee \in BOOLEAN /\ allowed \subseteq Algos
  /\ review \in [Operators -> [algo : Algos \cup {NoAlgo}, add : BOOLEAN]]
  /\ job \in [state : JobState, algo : Algos \cup {NoAlgo}, offer : Offers, attested : BOOLEAN]
  /\ job.state # "none" => job.algo \in Algos
  /\ reviewed \subseteq Algos /\ raced \subseteq Algos /\ moved \in BOOLEAN

\* service.go:676: a model that leaves an L1 offer comes from an audited algorithm,
\* unless the offer or the review changed after the job was checked.
ModelAudited ==
  job.state = "released" /\ ~moved /\ job.offer.trust = "L1" /\ job.algo \in ModelAlgos
  => Good(job.algo)

\* worker.go:190, :242: what an L2 offer lets out was attested by the runner that
\* made it, whatever runner the process has and however the offer was edited.
AttestedL2 == job.state = "released" /\ job.offer.trust = "L2" => job.attested

\* service.go:293: once its reviews are through, one at a time, the broker admits an
\* algorithm's own image exactly while operators hold it approved and trusted.
PolicyFollows ==
  \A a \in reviewed \ raced :
     (\A o \in Operators : review[o].algo # a) => (a \in allowed <=> Good(a))


\* What the reviews, the offer and the runner let through, together.
RegistryInv == RegistryTypeOK /\ ModelAudited /\ AttestedL2 /\ PolicyFollows
=============================================================================
