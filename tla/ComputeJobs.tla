---------------------------- MODULE ComputeJobs ----------------------------
(***************************************************************************)
(* Compute-to-data jobs bought with one entitlement over one dataset: HTTP *)
(* handlers submit, cancel and review jobs, the in-process worker pool     *)
(* drains a bounded channel of job ids, the sweep reclaims running jobs    *)
(* whose lease is over, and each output is charged to the dataset's        *)
(* differential-privacy budget before it is let out.                       *)
(*                                                                         *)
(* A submitted job is a row that carries what the offer said when it was   *)
(* read (review) and whether its output costs a unit of the budget (dp).   *)
(* Federated sub-jobs take the same steps and leave refunds to their       *)
(* parent: they are not modelled here.                                     *)
(***************************************************************************)
EXTENDS Integers, Sequences, FiniteSets

CONSTANTS
  Handlers,     \* HTTP handlers
  Workers,      \* goroutines draining the channel
  Jobs, NoJob,  \* compute_jobs ids (a bound on the rows inserted), and none
  Keys, NoKey,  \* idempotency keys a client may send, and none
  Asks,         \* the submissions made: key, the offer's review flag, privacy cost
  Quota,        \* jobs_quota
  Budget,       \* DPEpsilonTotal, in units of a job's DPEpsilon
  Buffer,       \* capacity of the channel
  MaxAttempts,  \* DefaultMaxAttempts
  NoWorker

ASSUME BoundsAssumption == /\ {Quota, MaxAttempts} \subseteq Nat \ {0}
                           /\ {Budget, Buffer} \subseteq Nat
                           /\ IsFiniteSet(Handlers) /\ IsFiniteSet(Workers) /\ IsFiniteSet(Jobs)
ASSUME AsksAssumption == Asks \subseteq [key : Keys \cup {NoKey}, review : BOOLEAN, dp : BOOLEAN]
ASSUME NamesAssumption == NoKey \notin Keys /\ NoJob \notin Jobs /\ NoWorker \notin Workers
                          /\ Handlers \cap Workers = {}

VARIABLES
  credit, used,     \* compute_entitlements: status, jobs_used
  status, attempts, \* compute_jobs
  row,              \* compute_jobs: what the submission fixed
  expired,          \* running jobs whose lease_until has passed
  ledger,           \* dp_budget_ledger: rows per job
  dpLock,           \* the worker that holds the budget's advisory lock
  queue,            \* the channel of job ids
  pc, on, ask,      \* per process: next statement, its job, the job it submits
  lost              \* history: credits a fault or a revocation kept from being given back

entitlement == <<credit, used, lost>>
jobs  == <<status, attempts, row, expired>>
dp    == <<ledger, dpLock>>
procs == <<pc, on, ask>>
vars  == <<entitlement, jobs, dp, queue, procs>>

Procs == Handlers \cup Workers
Blank == [key |-> NoKey, review |-> FALSE, dp |-> FALSE]
Rows  == [key : Keys \cup {NoKey}, review : BOOLEAN, dp : BOOLEAN]

Live       == {"queued", "running", "output_reviewing"}
Terminal   == {"released", "failed", "rejected", "canceled"}
Statements == {"idle", "SpendQuota", "CreateJob", "enqueue",
               "Run", "SpendDP", "InsertDP", "Finish", "Fail", "Reject", "RefundQuota"}

\* SUM(epsilon): the ledger's rows, a unit each.
Charges == UNION {{j} \X (1 .. ledger[j]) : j \in Jobs}
Spent == Cardinality(Charges)

Init == /\ credit = "active" /\ used = 0 /\ lost = 0
        /\ status   = [j \in Jobs |-> "none"]
        /\ attempts = [j \in Jobs |-> 0]
        /\ row      = [j \in Jobs |-> Blank]
        /\ expired  = {}
        /\ ledger   = [j \in Jobs |-> 0] /\ dpLock = NoWorker
        /\ queue    = <<>>
        /\ pc  = [p \in Procs |-> "idle"]
        /\ on  = [p \in Procs |-> NoJob]
        /\ ask = [h \in Handlers |-> Blank]

Pred(n)    == IF n > 0 THEN n - 1 ELSE 0
At(p, l)   == pc[p] = l
Goto(p, l) == pc' = [pc EXCEPT ![p] = l] /\ UNCHANGED <<on, ask>>
Take(p, l, j) == pc' = [pc EXCEPT ![p] = l] /\ on' = [on EXCEPT ![p] = j] /\ UNCHANGED ask
\* The request or the run ends: its locals are forgotten.
Leave(p) == /\ pc'  = [pc EXCEPT ![p] = "idle"]
            /\ on'  = [on EXCEPT ![p] = NoJob]
            /\ ask' = [h \in Handlers |-> IF h = p THEN Blank ELSE ask[h]]

-----------------------------------------------------------------------------
(***************************************************************************)
(* Credits.                                                                *)
(***************************************************************************)
SpendQuota(h) ==
  /\ At(h, "SpendQuota")
  /\ \/ /\ credit = "active" /\ used < Quota
        /\ used' = used + 1
        /\ credit' = IF used + 1 >= Quota THEN "exhausted" ELSE credit
        /\ Goto(h, "CreateJob")
     \/ /\ ~(credit = "active" /\ used < Quota)
        /\ Leave(h) /\ UNCHANGED <<used, credit>>
  /\ UNCHANGED <<lost, jobs, dp, queue>>

RefundQuota(p) ==
  /\ At(p, "RefundQuota")
  /\ IF credit # "revoked"
     THEN /\ used' = Pred(used)
          /\ credit' = "active"
          /\ UNCHANGED lost
     ELSE lost' = lost + 1 /\ UNCHANGED <<used, credit>>
  /\ Leave(p)
  /\ UNCHANGED <<jobs, dp, queue>>

\* The order behind the entitlement is refunded.
RevokeByOrder == /\ credit \in {"active", "exhausted"}
                 /\ credit' = "revoked"
                 /\ UNCHANGED <<used, lost, jobs, dp, queue, procs>>

-----------------------------------------------------------------------------
(***************************************************************************)
(* SubmitJob.  The offer, the entitlement, the key and the budget are read *)
(* in statements of their own before the credit is spent.  They are one    *)
(* action here: all that was seen, except the offer's review flag, only    *)
(* ever turns to a refusal later, so whoever passes them one by one passes *)
(* them all at the first.                                                  *)
(***************************************************************************)
Taken(k) == k # NoKey /\ \E j \in Jobs : status[j] # "none" /\ row[j].key = k

SubmitJob(h, a) ==
  /\ At(h, "idle")
  /\ credit # "revoked" /\ ~Taken(a.key) /\ (a.dp => Spent + 1 <= Budget)
  /\ ask' = [ask EXCEPT ![h] = a]
  /\ pc'  = [pc EXCEPT ![h] = "SpendQuota"]
  /\ UNCHANGED <<entitlement, jobs, dp, queue, on>>

\* Mutant: the insert fails and the credit is kept.
CreateUnrefunded(h) ==
  /\ At(h, "CreateJob")
  /\ \/ /\ ~Taken(ask[h].key)
        /\ \E j \in Jobs : /\ status[j] = "none"
                           /\ status' = [status EXCEPT ![j] = "queued"]
                           /\ row'    = [row EXCEPT ![j] = ask[h]]
                           /\ Take(h, "enqueue", j)
     \/ Leave(h) /\ UNCHANGED <<status, row>>
  /\ UNCHANGED <<entitlement, attempts, expired, dp, queue>>

\* The unique index on (entitlement, key) refuses a second row.
CreateJob(h) ==
  /\ At(h, "CreateJob")
  /\ \/ /\ ~Taken(ask[h].key)
        /\ \E j \in Jobs : /\ status[j] = "none"
                           /\ status' = [status EXCEPT ![j] = "queued"]
                           /\ row'    = [row EXCEPT ![j] = ask[h]]
                           /\ Take(h, "enqueue", j)
     \/ Goto(h, "RefundQuota") /\ UNCHANGED <<status, row>>
  /\ UNCHANGED <<entitlement, attempts, expired, dp, queue>>

\* A full channel drops the id, and nothing sends it again.
enqueue(h) == /\ At(h, "enqueue")
              /\ queue' = IF Len(queue) < Buffer THEN Append(queue, on[h]) ELSE queue
              /\ Leave(h)
              /\ UNCHANGED <<entitlement, jobs, dp>>

-----------------------------------------------------------------------------
(***************************************************************************)
(* Conditional updates of a job's row.                                     *)
(***************************************************************************)
Move(j, to) == /\ status'  = [status EXCEPT ![j] = to]
               /\ expired' = expired \ {j}
               /\ UNCHANGED <<attempts, row>>

\* UPDATE .. WHERE status IN (from): the next statement if it hits, idle if not.
Update(p, j, from, to, next) ==
  /\ \/ status[j] \in from /\ Move(j, to) /\ IF next = "idle" THEN Leave(p) ELSE Take(p, next, j)
     \/ status[j] \notin from /\ UNCHANGED jobs /\ Leave(p)
  /\ UNCHANGED <<entitlement, dp, queue>>

CancelJob(h, j) == At(h, "idle") /\ status[j] # "none" /\ Update(h, j, {"queued"}, "canceled", "RefundQuota")

OpsReleaseOutput(h, j) == /\ At(h, "idle") /\ status[j] = "output_reviewing"
                          /\ Update(h, j, {"running", "output_reviewing"}, "released", "idle")

OpsRejectOutput(h, j) == /\ At(h, "idle") /\ status[j] = "output_reviewing"
                         /\ Update(h, j, {"running", "output_reviewing"}, "rejected", "RefundQuota")

-----------------------------------------------------------------------------
(***************************************************************************)
(* processJob.                                                             *)
(***************************************************************************)
\* A worker takes the head of the channel and claims it if it is still queued.
ClaimJob(w) ==
  /\ At(w, "idle") /\ queue # <<>>
  /\ queue' = Tail(queue)
  /\ LET j == Head(queue) IN
       \/ /\ status[j] = "queued"
          /\ status'   = [status   EXCEPT ![j] = "running"]
          /\ attempts' = [attempts EXCEPT ![j] = @ + 1]
          /\ Take(w, "Run", j)
       \/ status[j] # "queued" /\ UNCHANGED <<status, attempts, procs>>
  /\ UNCHANGED <<entitlement, row, expired, dp>>

\* At "Run" the runner, the output gate and the upload have come to any of their
\* ends: Fail, Reject, or, with the output stored, LockDP or Finish.
Ready(w) == \/ At(w, "Finish")
            \/ At(w, "Run") /\ ~row[on[w]].dp

LockDP(w) == /\ At(w, "Run") /\ row[on[w]].dp /\ dpLock = NoWorker
             /\ dpLock' = w
             /\ Goto(w, "SpendDP")
             /\ UNCHANGED <<entitlement, jobs, ledger, queue>>

Unlock(w) == dpLock' = IF dpLock = w THEN NoWorker ELSE dpLock

SpendDP(w) == /\ At(w, "SpendDP")
              /\ IF Spent + 1 > Budget THEN Goto(w, "Reject") /\ Unlock(w)
                                       ELSE Goto(w, "InsertDP") /\ UNCHANGED dpLock
              /\ UNCHANGED <<entitlement, jobs, ledger, queue>>

\* The row and the end of its transaction.
InsertDP(w) == /\ At(w, "InsertDP")
               /\ ledger' = [ledger EXCEPT ![on[w]] = @ + 1]
               /\ Goto(w, "Finish") /\ Unlock(w)
               /\ UNCHANGED <<entitlement, jobs, queue>>

\* The transaction fails and rolls back.
DPError(w) == /\ pc[w] \in {"SpendDP", "InsertDP"}
              /\ Goto(w, "Fail") /\ Unlock(w)
              /\ UNCHANGED <<entitlement, jobs, ledger, queue>>

\* StageForReview or Release, as the submission fixed.
Finish(w) ==
  /\ Ready(w)
  /\ IF row[on[w]].review THEN Update(w, on[w], {"running"}, "output_reviewing", "idle")
     ELSE Update(w, on[w], {"running", "output_reviewing"}, "released", "idle")

\* Mutant: the UPDATE has no condition on the status.
FailAlways(w) == pc[w] \in {"Run", "Fail"} /\ Update(w, on[w], Live \cup Terminal, "failed", "RefundQuota")

Fail(w)   == pc[w] \in {"Run", "Fail"} /\ Update(w, on[w], Live, "failed", "RefundQuota")
Reject(w) == pc[w] \in {"Run", "Reject"} /\ Update(w, on[w], {"running", "output_reviewing"}, "rejected", "RefundQuota")

-----------------------------------------------------------------------------
(***************************************************************************)
(* Time, faults and the sweep.                                             *)
(***************************************************************************)
Expire(j) == /\ status[j] = "running" /\ j \notin expired
             /\ expired' = expired \cup {j}
             /\ UNCHANGED <<entitlement, status, attempts, row, dp, queue, procs>>

\* One UPDATE over every running job past its lease: no credit is given back.
ReclaimStaleLeases ==
  LET dead == {j \in expired : attempts[j] >= MaxAttempts} IN
  /\ expired # {}
  /\ status' = [j \in Jobs |-> IF j \notin expired THEN status[j]
                               ELSE IF j \in dead THEN "failed" ELSE "queued"]
  /\ lost' = lost + Cardinality(dead)
  /\ expired' = {}
  /\ UNCHANGED <<credit, used, attempts, row, dp, queue, procs>>

Holding == {p \in Procs : pc[p] \in {"CreateJob", "RefundQuota"}}

\* A statement fails and the process goes no further: a refund that fails is
\* only logged.
Stop(p) == /\ pc[p] \in {"SpendQuota", "Run", "Finish", "Fail", "Reject", "RefundQuota"}
           /\ lost' = IF At(p, "RefundQuota") THEN lost + 1 ELSE lost
           /\ Leave(p)
           /\ UNCHANGED <<credit, used, jobs, dp, queue>>

\* The process dies and another starts: rows stay, the channel does not.
Crash == /\ queue' = <<>> /\ dpLock' = NoWorker
         /\ lost' = lost + Cardinality(Holding)
         /\ pc' = [p \in Procs |-> "idle"]
         /\ on' = [p \in Procs |-> NoJob] /\ ask' = [h \in Handlers |-> Blank]
         /\ UNCHANGED <<credit, used, jobs, ledger>>

HandlerStep(h) == SpendQuota(h) \/ CreateJob(h) \/ enqueue(h) \/ RefundQuota(h)
WorkerStep(w)  == \/ ClaimJob(w) \/ LockDP(w) \/ SpendDP(w) \/ InsertDP(w) \/ DPError(w)
                  \/ Finish(w) \/ Fail(w) \/ Reject(w) \/ RefundQuota(w)

\* What happens while nothing fails and every run ends within its lease.
Work == \/ \E h \in Handlers : HandlerStep(h)
        \/ \E h \in Handlers, a \in Asks : SubmitJob(h, a)
        \/ \E h \in Handlers, j \in Jobs : CancelJob(h, j) \/ OpsReleaseOutput(h, j) \/ OpsRejectOutput(h, j)
        \/ \E w \in Workers : WorkerStep(w)
        \/ RevokeByOrder

Next == \/ Work
        \/ \E j \in Jobs : Expire(j)
        \/ \E p \in Procs : Stop(p)
        \/ ReclaimStaleLeases \/ Crash

Spec == Init /\ [][Next]_vars

-----------------------------------------------------------------------------
(***************************************************************************)
(* Properties.                                                             *)
(***************************************************************************)
\* Every variable has its type.
TypeOK ==
  /\ credit \in {"active", "exhausted", "revoked"} /\ used \in 0 .. Quota /\ lost \in Nat
  /\ status \in [Jobs -> {"none"} \cup Live \cup Terminal]
  /\ attempts \in [Jobs -> 0 .. MaxAttempts] /\ row \in [Jobs -> Rows] /\ expired \subseteq Jobs
  /\ ledger \in [Jobs -> Nat] /\ dpLock \in Workers \cup {NoWorker}
  /\ queue \in Seq(Jobs) /\ Len(queue) <= Buffer
  /\ pc \in [Procs -> Statements] /\ on \in [Procs -> Jobs \cup {NoJob}] /\ ask \in [Handlers -> Rows]

\* worker.go:348, :374: a job that failed, was rejected or canceled is not billed,
\* and is given back once.  Every credit spent belongs to a job that may still
\* deliver or has, to a process about to create the job or to give it back, or to
\* one of the faults that lose it.
CreditsBalance == used = Cardinality({j \in Jobs : status[j] \in Live \cup {"released"}})
                         + Cardinality(Holding) + lost

\* The entitlement is usable exactly while a credit is left, whatever order
\* spends and refunds come in.
StatusFollowsCredits == credit # "revoked" => (credit = "exhausted" <=> used = Quota)

\* Concurrent outputs never spend more than the dataset's privacy budget.
BudgetHolds == Spent <= Budget

\* No output that costs privacy is let out, or shown to a reviewer, before it is
\* on the ledger, and none is charged twice.
OutputCharged == \A j \in Jobs : /\ ledger[j] <= 1
                                 /\ row[j].dp /\ status[j] \in {"output_reviewing", "released"} => ledger[j] = 1

\* One run per job: an id is sent once, and what the sweep puts back to queued no
\* worker takes again, so a worker that outlives its lease is alone with the job.
RunsOnce == \A j \in Jobs : attempts[j] + Cardinality({i \in DOMAIN queue : queue[i] = j})
                            + Cardinality({h \in Handlers : pc[h] = "enqueue" /\ on[h] = j}) <= 1

\* Credits, budget, ledger and queue together.
JobsInv == /\ TypeOK /\ CreditsBalance /\ StatusFollowsCredits /\ BudgetHolds
           /\ OutputCharged /\ RunsOnce

\* An output whose submission promised a review is let out only by the operators,
\* whatever the seller edits since.
ReviewKept == [][\A j \in Jobs : row[j].review /\ status'[j] = "released"
                                 => status[j] \in {"output_reviewing", "released"}]_vars

\* No late worker, sweep or operator changes a job that is over.
OverIsOver == [][\A j \in Jobs : status[j] \in Terminal => status'[j] = status[j]]_vars

\* A job moves as its submission was promised and never once it is over.
JobsMove == ReviewKept /\ OverIsOver
=============================================================================
