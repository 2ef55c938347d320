------------------------- MODULE ComputeJobsProofs -------------------------
(***************************************************************************)
(* Proofs about ComputeJobs, for any handlers, workers, jobs, keys, quota, *)
(* budget and channel.                                                     *)
(*                                                                         *)
(* EntInv, the entitlement's invariant, is inductive by itself.  The two   *)
(* action properties rest on LeaseInv: the sweep may only touch a job that *)
(* is running, so whatever ends a job also takes it off the sweep's list.  *)
(* JobsCorrect, the last theorem, adds what keeps the budget, the ledger   *)
(* and the channel to both (JobsIInv).                                     *)
(***************************************************************************)
EXTENDS ComputeJobs, FiniteSetTheorems, TLAPS

EntInv == /\ credit \in {"active", "exhausted", "revoked"}
          /\ used \in 0 .. Quota
          /\ StatusFollowsCredits

LeaseInv == /\ status \in [Jobs -> {"none"} \cup Live \cup Terminal]
            /\ expired \subseteq {j \in Jobs : status[j] = "running"}

USE DEF At, Goto, Take, Leave, entitlement, jobs, dp, procs, vars

-----------------------------------------------------------------------------
(***************************************************************************)
(* Credits.                                                                *)
(***************************************************************************)
\* The entitlement starts usable: a grant has at least one credit.
LEMMA EntInit == Init => EntInv
BY BoundsAssumption DEF Init, EntInv, StatusFollowsCredits

\* Every step keeps EntInv; only spending, refunding and revoking touch it.
LEMMA EntStep == EntInv /\ [Next]_vars => EntInv'
<1> SUFFICES ASSUME EntInv, [Next]_vars PROVE EntInv'
  OBVIOUS
<1> USE BoundsAssumption DEF EntInv, StatusFollowsCredits
<1>1. ASSUME NEW h \in Handlers, SpendQuota(h) PROVE EntInv'
  BY <1>1 DEF SpendQuota
<1>2. ASSUME NEW p \in Procs, RefundQuota(p) PROVE EntInv'
  BY <1>2 DEF RefundQuota, Pred
<1>3. CASE RevokeByOrder
  BY <1>3 DEF RevokeByOrder
<1>4. CASE UNCHANGED <<credit, used>>
  BY <1>4
<1>5. ASSUME NEW h \in Handlers, HandlerStep(h) PROVE EntInv'
  <2>1. CASE CreateJob(h) \/ enqueue(h)
    BY <2>1, <1>4 DEF CreateJob, enqueue
  <2> QED
    BY <1>1, <1>2, <1>5, <2>1 DEF HandlerStep, Procs
<1>6. ASSUME NEW w \in Workers, WorkerStep(w) PROVE EntInv'
  <2>1. CASE ClaimJob(w) \/ LockDP(w) \/ SpendDP(w) \/ InsertDP(w) \/ DPError(w)
    BY <2>1, <1>4 DEF ClaimJob, LockDP, SpendDP, InsertDP, DPError
  <2>2. CASE Finish(w) \/ Fail(w) \/ Reject(w)
    BY <2>2, <1>4 DEF Finish, Fail, Reject, Update
  <2> QED
    BY <1>2, <1>6, <2>1, <2>2 DEF WorkerStep, Procs
<1>7. ASSUME NEW h \in Handlers, NEW j \in Jobs,
             CancelJob(h, j) \/ OpsReleaseOutput(h, j) \/ OpsRejectOutput(h, j)
      PROVE  EntInv'
  BY <1>7, <1>4 DEF CancelJob, OpsReleaseOutput, OpsRejectOutput, Update
<1>8. ASSUME NEW h \in Handlers, NEW a \in Asks, SubmitJob(h, a) PROVE EntInv'
  BY <1>8, <1>4 DEF SubmitJob
<1>9. CASE \E j \in Jobs : Expire(j)
  BY <1>9, <1>4 DEF Expire
<1>10. CASE \E p \in Procs : Stop(p)
  BY <1>10, <1>4 DEF Stop
<1>11. CASE ReclaimStaleLeases \/ Crash
  BY <1>11, <1>4 DEF ReclaimStaleLeases, Crash
<1>12. CASE UNCHANGED vars
  BY <1>12, <1>4
<1> QED
  BY <1>3, <1>5, <1>6, <1>7, <1>8, <1>9, <1>10, <1>11, <1>12 DEF Next, Work

\* An entitlement with a credit left is usable and one without is not, in every
\* reachable state: SpendQuota's and RefundQuota's updates of status agree.
THEOREM CreditsUsable == Spec => []StatusFollowsCredits
<1>1. EntInv => StatusFollowsCredits
  BY DEF EntInv
<1> QED
  BY <1>1, EntInit, EntStep, PTL DEF Spec

-----------------------------------------------------------------------------
(***************************************************************************)
(* Jobs.  JobSteps is what any step may do to the jobs' rows.              *)
(***************************************************************************)
OnlyForward == \A j \in Jobs : status[j] \in Terminal => status'[j] = status[j]
OnlyReviewed == \A j \in Jobs : row[j].review /\ status'[j] = "released"
                                => status[j] \in {"output_reviewing", "released"}
JobSteps == LeaseInv' /\ OnlyForward /\ OnlyReviewed

\* No job has a lease to begin with.
LEMMA LeaseInit == Init => LeaseInv
BY DEF Init, LeaseInv

\* A conditional update of a row that is live, except to released, is a good step.
LEMMA UpdateSteps ==
  ASSUME LeaseInv, NEW p, NEW j, NEW from, from \subseteq Live,
         NEW to, to \in Live \cup Terminal, to # "running", NEW next, Update(p, j, from, to, next),
         to = "released" => j \notin Jobs \/ ~row[j].review \/ status[j] = "output_reviewing"
  PROVE  JobSteps
<1> USE DEF LeaseInv, Live, Terminal
<1>1. CASE status[j] \in from /\ Move(j, to)
  <2>1. LeaseInv'
    BY <1>1 DEF Move
  <2>2. OnlyForward /\ OnlyReviewed
    BY <1>1 DEF Move, OnlyForward, OnlyReviewed
  <2> QED
    BY <2>1, <2>2 DEF JobSteps
<1>2. CASE UNCHANGED jobs
  BY <1>2 DEF JobSteps, OnlyForward, OnlyReviewed
<1> QED
  BY <1>1, <1>2 DEF Update

\* Every step keeps LeaseInv, ends no job twice and releases no output unreviewed.
LEMMA JobStep == LeaseInv /\ [Next]_vars => JobSteps
<1> SUFFICES ASSUME LeaseInv, [Next]_vars PROVE JobSteps
  OBVIOUS
<1>1. CASE UNCHANGED jobs
  BY <1>1 DEF JobSteps, LeaseInv, OnlyForward, OnlyReviewed
<1>2. ASSUME NEW h \in Handlers, HandlerStep(h) PROVE JobSteps
  <2>1. CASE CreateJob(h)
    BY <2>1 DEF CreateJob, JobSteps, LeaseInv, OnlyForward, OnlyReviewed, Live, Terminal
  <2>2. CASE SpendQuota(h) \/ enqueue(h) \/ RefundQuota(h)
    BY <2>2, <1>1 DEF SpendQuota, enqueue, RefundQuota
  <2> QED
    BY <1>2, <2>1, <2>2 DEF HandlerStep
<1>3. ASSUME NEW w \in Workers, WorkerStep(w) PROVE JobSteps
  <2>1. CASE ClaimJob(w)
    BY <2>1 DEF ClaimJob, JobSteps, LeaseInv, OnlyForward, OnlyReviewed, Live, Terminal
  <2>2. CASE LockDP(w) \/ SpendDP(w) \/ InsertDP(w) \/ DPError(w) \/ RefundQuota(w)
    BY <2>2, <1>1 DEF LockDP, SpendDP, InsertDP, DPError, RefundQuota
  <2>3. CASE Finish(w)
    <3>1. CASE row[on[w]].review
      BY <2>3, <3>1, UpdateSteps DEF Finish, Live, Terminal
    <3>2. CASE ~row[on[w]].review
      BY <2>3, <3>2, UpdateSteps DEF Finish, Live, Terminal
    <3> QED
      BY <3>1, <3>2
  <2>4. CASE Fail(w) \/ Reject(w)
    BY <2>4, UpdateSteps DEF Fail, Reject, Live, Terminal
  <2> QED
    BY <1>3, <2>1, <2>2, <2>3, <2>4 DEF WorkerStep
<1>4. ASSUME NEW h \in Handlers, NEW j \in Jobs,
             CancelJob(h, j) \/ OpsReleaseOutput(h, j) \/ OpsRejectOutput(h, j)
      PROVE  JobSteps
  BY <1>4, UpdateSteps DEF CancelJob, OpsReleaseOutput, OpsRejectOutput, Live, Terminal
<1>5. ASSUME NEW h \in Handlers, NEW a \in Asks, SubmitJob(h, a) PROVE JobSteps
  BY <1>5, <1>1 DEF SubmitJob
<1>6. CASE RevokeByOrder
  BY <1>6, <1>1 DEF RevokeByOrder
<1>7. CASE \E j \in Jobs : Expire(j)
  BY <1>7 DEF Expire, JobSteps, LeaseInv, OnlyForward, OnlyReviewed, Live, Terminal
<1>8. CASE \E p \in Procs : Stop(p)
  BY <1>8, <1>1 DEF Stop
<1>9. CASE ReclaimStaleLeases
  BY <1>9 DEF ReclaimStaleLeases, JobSteps, LeaseInv, OnlyForward, OnlyReviewed, Live, Terminal
<1>10. CASE Crash
  BY <1>10, <1>1 DEF Crash
<1>11. CASE UNCHANGED vars
  BY <1>11, <1>1
<1> QED
  BY <1>2, <1>3, <1>4, <1>5, <1>6, <1>7, <1>8, <1>9, <1>10, <1>11 DEF Next, Work

\* Nothing changes a released, failed, rejected or canceled job: neither a worker
\* whose lease is gone nor the sweep nor a second reviewer.
THEOREM FinishedJobsStay == Spec => OverIsOver
<1>1. LeaseInv /\ [Next]_vars => LeaseInv' /\ [OnlyForward]_vars
  BY JobStep DEF JobSteps
<1> QED
  BY <1>1, LeaseInit, PTL DEF Spec, OverIsOver, OnlyForward

\* An output promised a review leaves it only through OpsReleaseOutput.
THEOREM ReviewsKept == Spec => ReviewKept
<1>1. LeaseInv /\ [Next]_vars => LeaseInv' /\ [OnlyReviewed]_vars
  BY JobStep DEF JobSteps
<1> QED
  BY <1>1, LeaseInit, PTL DEF Spec, ReviewKept, OnlyReviewed

\* compute/repo.go UpdateStatus, Release, ReclaimStaleLeases: for any jobs, workers and
\* leases, a job moves as its submission was promised and never once it is over.
THEOREM JobsMoveCorrect == Spec => JobsMove
<1> QED
  BY FinishedJobsStay, ReviewsKept DEF JobsMove

-----------------------------------------------------------------------------
(***************************************************************************)
(* Credits, budget, ledger and channel.  No id is sent twice and what the  *)
(* sweep puts back is not sent, so a worker is alone with its job (SentInv, *)
(* WorkersInv); the budget's lock keeps the sums of two workers apart.     *)
(***************************************************************************)
\* A worker's statements between the claim and the end of its job.
Running == {"Run", "SpendDP", "InsertDP", "Finish", "Fail", "Reject"}

\* The types; a job is claimed and charged once.
JobShape ==
    /\ lost \in Nat
    /\ attempts \in [Jobs -> {0, 1}] /\ ledger \in [Jobs -> {0, 1}]
    /\ row \in [Jobs -> Rows] /\ dpLock \in Workers \cup {NoWorker}
    /\ queue \in Seq(Jobs) /\ Len(queue) <= Buffer
    /\ pc \in [Procs -> Statements] /\ on \in [Procs -> Jobs \cup {NoJob}]
    /\ ask \in [Handlers -> Rows]

\* An id in the channel, or about to be sent, is there once and was not claimed.
SentInv ==
    /\ \A i, k \in 1 .. Len(queue) : queue[i] = queue[k] => i = k
    /\ \A i \in 1 .. Len(queue) : attempts[queue[i]] = 0 /\ status[queue[i]] # "none"
    /\ \A h \in Handlers : pc[h] = "enqueue" =>
          /\ on[h] \in Jobs /\ attempts[on[h]] = 0 /\ status[on[h]] # "none"
          /\ \A i \in 1 .. Len(queue) : queue[i] # on[h]
          /\ \A g \in Handlers : pc[g] = "enqueue" /\ on[g] = on[h] => g = h
    /\ \A j \in Jobs : status[j] = "none" => attempts[j] = 0

\* A worker is alone with the job it claimed and alone between the budget's sum and its row; a
\* job is charged by its worker, which has its output stored by then.
WorkersInv ==
    /\ \A w \in Workers : pc[w] \in Running =>
          /\ on[w] \in Jobs /\ attempts[on[w]] = 1
          /\ \A v \in Workers : pc[v] \in Running /\ on[v] = on[w] => v = w
          /\ pc[w] \in {"Run", "SpendDP", "InsertDP"} => ledger[on[w]] = 0
          /\ pc[w] = "Finish" => ledger[on[w]] = 1
          /\ pc[w] \in {"SpendDP", "InsertDP"} => dpLock = w
          /\ pc[w] = "InsertDP" => Spent < Budget
    /\ \A j \in Jobs : attempts[j] = 0 => ledger[j] = 0

\* No output that costs privacy gets out before it is charged.
ChargedInv == \A j \in Jobs :
    row[j].dp /\ status[j] \in {"output_reviewing", "released"} => ledger[j] = 1

\* The jobs that keep their credit.
Billable == {j \in Jobs : status[j] \in Live \cup {"released"}}

JobsIInv == /\ EntInv /\ LeaseInv /\ JobShape /\ SentInv /\ WorkersInv /\ ChargedInv
            /\ BudgetHolds /\ CreditsBalance

LEMMA Finite ==
  /\ IsFiniteSet(Procs) /\ IsFiniteSet(Holding) /\ Cardinality(Holding) \in Nat
  /\ IsFiniteSet(Billable) /\ Cardinality(Billable) \in Nat
<1>1. IsFiniteSet(Procs)
  BY BoundsAssumption, FS_Union DEF Procs
<1>2. Holding \in SUBSET Procs /\ Billable \in SUBSET Jobs
  BY DEF Holding, Billable
<1> QED
  BY <1>1, <1>2, BoundsAssumption, FS_Subset, FS_CardinalityType

\* The ledger of a job has one row at most, so the rows are finitely many.
LEMMA Ledger ==
  ASSUME NEW l \in [Jobs -> {0, 1}]
  PROVE  LET rows == UNION {{j} \X (1 .. l[j]) : j \in Jobs} IN
         /\ IsFiniteSet(rows) /\ Cardinality(rows) \in Nat
         /\ rows = {j \in Jobs : l[j] = 1} \X {1}
<1> DEFINE rows == UNION {{j} \X (1 .. l[j]) : j \in Jobs}
<1>1. rows = {j \in Jobs : l[j] = 1} \X {1}
  <2>1. ASSUME NEW j \in Jobs PROVE (1 .. l[j]) = IF l[j] = 1 THEN {1} ELSE {}
    <3>1. CASE l[j] = 0
      BY <3>1
    <3>2. CASE l[j] = 1
      BY <3>2
    <3> QED
      BY <3>1, <3>2
  <2> QED
    BY <2>1
<1>2. IsFiniteSet({j \in Jobs : l[j] = 1}) /\ IsFiniteSet({1})
  BY BoundsAssumption, FS_Subset, FS_Singleton
<1> HIDE DEF rows
<1>3. IsFiniteSet(rows)
  BY <1>1, <1>2, FS_Product, Zenon
<1> QED
  BY <1>1, <1>3, FS_CardinalityType DEF rows

\* A statement on a job's row: it hits or it does not, and its process goes on or leaves.
Changed(p, j, to, next) ==
    /\ UNCHANGED <<used, credit, lost, attempts, row, ledger, dpLock, queue>>
    /\ pc' \in [Procs -> Statements] /\ pc'[p] \in {"idle", "RefundQuota"}
    /\ on' \in [Procs -> Jobs \cup {NoJob}] /\ ask' \in [Handlers -> Rows]
    /\ \A q \in Procs \ {p} : pc'[q] = pc[q] /\ on'[q] = on[q]
    /\ \/ UNCHANGED status /\ pc'[p] = "idle"
       \/ status[j] \in Live /\ status' = [status EXCEPT ![j] = to] /\ pc'[p] = next

LEMMA Updated ==
  ASSUME JobShape, NEW p \in Procs, NEW j \in Jobs, NEW from \in SUBSET Live, NEW to,
         NEW next \in {"idle", "RefundQuota"}, Update(p, j, from, to, next)
  PROVE  Changed(p, j, to, next)
<1> USE NamesAssumption DEF JobShape, Statements, Blank, Rows
<1>1. CASE status[j] \in from /\ Move(j, to) /\ next = "idle" /\ Leave(p)
  BY <1>1 DEF Update, Move, Changed
<1>2. CASE status[j] \in from /\ Move(j, to) /\ next = "RefundQuota" /\ Take(p, next, j)
  BY <1>2 DEF Update, Move, Changed
<1>3. CASE status[j] \notin from /\ UNCHANGED jobs /\ Leave(p)
  BY <1>3 DEF Update, Changed
<1> QED
  BY <1>1, <1>2, <1>3 DEF Update

\* The statements on a job's row.
LEMMA Updates ==
  ASSUME JobShape, WorkersInv
  PROVE  /\ \A h \in Handlers, j \in Jobs : CancelJob(h, j) =>
              pc[h] = "idle" /\ Changed(h, j, "canceled", "RefundQuota")
         /\ \A h \in Handlers, j \in Jobs : OpsReleaseOutput(h, j) =>
              /\ pc[h] = "idle" /\ status[j] = "output_reviewing"
              /\ Changed(h, j, "released", "idle")
         /\ \A h \in Handlers, j \in Jobs : OpsRejectOutput(h, j) =>
              pc[h] = "idle" /\ Changed(h, j, "rejected", "RefundQuota")
         /\ \A w \in Workers : Finish(w) =>
              /\ on[w] \in Jobs /\ pc[w] \in {"Run", "Finish"}
              /\ row[on[w]].dp => pc[w] = "Finish"
              /\ \E to \in {"output_reviewing", "released"} : Changed(w, on[w], to, "idle")
         /\ \A w \in Workers : Fail(w) =>
              on[w] \in Jobs /\ pc[w] \in Running /\ Changed(w, on[w], "failed", "RefundQuota")
         /\ \A w \in Workers : Reject(w) =>
              on[w] \in Jobs /\ pc[w] \in Running /\ Changed(w, on[w], "rejected", "RefundQuota")
<1>0. /\ {"queued"} \in SUBSET Live /\ {"running"} \in SUBSET Live
      /\ {"running", "output_reviewing"} \in SUBSET Live
      /\ Handlers \subseteq Procs /\ Workers \subseteq Procs
      /\ \A w \in Workers : pc[w] \in Running => on[w] \in Jobs
  BY DEF Live, Procs, WorkersInv
<1>1. ASSUME NEW h \in Handlers, NEW j \in Jobs, CancelJob(h, j)
      PROVE  pc[h] = "idle" /\ Changed(h, j, "canceled", "RefundQuota")
  BY <1>0, <1>1, Updated DEF CancelJob
<1>2. ASSUME NEW h \in Handlers, NEW j \in Jobs, OpsReleaseOutput(h, j)
      PROVE  /\ pc[h] = "idle" /\ status[j] = "output_reviewing"
             /\ Changed(h, j, "released", "idle")
  BY <1>0, <1>2, Updated DEF OpsReleaseOutput
<1>3. ASSUME NEW h \in Handlers, NEW j \in Jobs, OpsRejectOutput(h, j)
      PROVE  pc[h] = "idle" /\ Changed(h, j, "rejected", "RefundQuota")
  BY <1>0, <1>3, Updated DEF OpsRejectOutput
<1>4. ASSUME NEW w \in Workers, Finish(w)
      PROVE  /\ on[w] \in Jobs /\ pc[w] \in {"Run", "Finish"}
             /\ row[on[w]].dp => pc[w] = "Finish"
             /\ \E to \in {"output_reviewing", "released"} : Changed(w, on[w], to, "idle")
  <2>1. on[w] \in Jobs /\ pc[w] \in {"Run", "Finish"} /\ (row[on[w]].dp => pc[w] = "Finish")
    BY <1>0, <1>4 DEF Finish, Ready, Running
  <2>2. CASE row[on[w]].review
    <3>1. Update(w, on[w], {"running"}, "output_reviewing", "idle")
      BY <1>4, <2>2 DEF Finish
    <3> QED
      BY <1>0, <2>1, <3>1, Updated
  <2>3. CASE ~row[on[w]].review
    <3>1. Update(w, on[w], {"running", "output_reviewing"}, "released", "idle")
      BY <1>4, <2>3 DEF Finish
    <3> QED
      BY <1>0, <2>1, <3>1, Updated
  <2> QED
    BY <2>2, <2>3
<1>5. ASSUME NEW w \in Workers, Fail(w)
      PROVE  on[w] \in Jobs /\ pc[w] \in Running /\ Changed(w, on[w], "failed", "RefundQuota")
  BY <1>0, <1>5, Updated DEF Fail, Running
<1>6. ASSUME NEW w \in Workers, Reject(w)
      PROVE  on[w] \in Jobs /\ pc[w] \in Running /\ Changed(w, on[w], "rejected", "RefundQuota")
  BY <1>0, <1>6, Updated DEF Reject, Running
<1> QED
  BY <1>1, <1>2, <1>3, <1>4, <1>5, <1>6

\* Every step keeps the types.
LEMMA JobShapeStep == LeaseInv /\ JobShape /\ SentInv /\ WorkersInv /\ [Next]_vars => JobShape'
<1> SUFFICES ASSUME LeaseInv, JobShape, SentInv, WorkersInv, [Next]_vars PROVE JobShape'
  OBVIOUS
<1> USE NamesAssumption, AsksAssumption DEF JobShape, Statements, Blank, Rows, Procs, Unlock
<1>1. ASSUME NEW h \in Handlers, NEW a \in Asks, SubmitJob(h, a) PROVE JobShape'
  BY <1>1 DEF SubmitJob
<1>2. ASSUME NEW h \in Handlers, SpendQuota(h) PROVE JobShape'
  <2>1. UNCHANGED <<lost, attempts, ledger, row, dpLock, queue>>
    BY <1>2 DEF SpendQuota
  <2>2. CASE Goto(h, "CreateJob")
    BY <2>1, <2>2
  <2>3. CASE Leave(h)
    BY <2>1, <2>3
  <2> QED
    BY <1>2, <2>2, <2>3 DEF SpendQuota
<1>3. ASSUME NEW h \in Handlers, CreateJob(h) PROVE JobShape'
  <2>1. UNCHANGED <<lost, attempts, ledger, dpLock, queue>>
    BY <1>3 DEF CreateJob
  <2>2. CASE Goto(h, "RefundQuota") /\ UNCHANGED row
    BY <2>1, <2>2
  <2>3. ASSUME NEW j \in Jobs, row' = [row EXCEPT ![j] = ask[h]], Take(h, "enqueue", j)
        PROVE  JobShape'
    <3>1. row' \in [Jobs -> Rows]
      BY <2>3
    <3>2. /\ pc' \in [Procs -> Statements] /\ on' \in [Procs -> Jobs \cup {NoJob}]
          /\ ask' = ask
      BY <2>3
    <3> QED
      BY <2>1, <3>1, <3>2
  <2> QED
    BY <1>3, <2>2, <2>3 DEF CreateJob
<1>4. ASSUME NEW h \in Handlers, enqueue(h) PROVE JobShape'
  <2>1. on[h] \in Jobs
    BY <1>4 DEF enqueue, SentInv
  <2>2. queue' \in Seq(Jobs) /\ Len(queue') <= Buffer
    BY <1>4, <2>1, BoundsAssumption DEF enqueue
  <2> QED
    BY <1>4, <2>2 DEF enqueue
<1>5. ASSUME NEW p \in Procs, RefundQuota(p) PROVE JobShape'
  BY <1>5 DEF RefundQuota
<1>6. ASSUME NEW h \in Handlers, NEW j \in Jobs, CancelJob(h, j) PROVE JobShape'
  BY <1>6, Updates DEF Changed
<1>7. ASSUME NEW h \in Handlers, NEW j \in Jobs, OpsReleaseOutput(h, j) PROVE JobShape'
  BY <1>7, Updates DEF Changed
<1>8. ASSUME NEW h \in Handlers, NEW j \in Jobs, OpsRejectOutput(h, j) PROVE JobShape'
  BY <1>8, Updates DEF Changed
<1>9. ASSUME NEW w \in Workers, ClaimJob(w) PROVE JobShape'
  <2>1. /\ queue \in Seq(Jobs) /\ queue # <<>> /\ queue' = Tail(queue) /\ queue[1] = Head(queue)
        /\ 1 \in 1 .. Len(queue)
    BY <1>9 DEF ClaimJob
  <2>2. Head(queue) \in Jobs /\ attempts[Head(queue)] = 0
    BY <2>1 DEF SentInv
  <2>3. queue' \in Seq(Jobs) /\ Len(queue') <= Buffer
    BY <2>1, BoundsAssumption
  <2> DEFINE k == Head(queue)
  <2> HIDE DEF k
  <2>4. attempts' \in [Jobs -> {0, 1}]
    BY <1>9, <2>2 DEF ClaimJob, k
  <2>5. /\ UNCHANGED <<lost, ledger, row, dpLock, ask>>
        /\ pc' \in [Procs -> Statements] /\ on' \in [Procs -> Jobs \cup {NoJob}]
    <3>1. CASE UNCHANGED procs
      BY <1>9, <3>1 DEF ClaimJob
    <3>2. CASE Take(w, "Run", Head(queue))
      BY <1>9, <2>2, <3>2 DEF ClaimJob
    <3> QED
      BY <1>9, <3>1, <3>2 DEF ClaimJob
  <2> QED
    BY <2>3, <2>4, <2>5
<1>10. ASSUME NEW w \in Workers, LockDP(w) PROVE JobShape'
  BY <1>10 DEF LockDP
<1>11. ASSUME NEW w \in Workers, SpendDP(w) PROVE JobShape'
  BY <1>11 DEF SpendDP
<1>12. ASSUME NEW w \in Workers, InsertDP(w) PROVE JobShape'
  <2>1. on[w] \in Jobs /\ ledger[on[w]] = 0
    BY <1>12 DEF InsertDP, WorkersInv, Running
  <2>2. ledger' \in [Jobs -> {0, 1}]
    BY <1>12, <2>1 DEF InsertDP
  <2> QED
    BY <1>12, <2>2 DEF InsertDP
<1>13. ASSUME NEW w \in Workers, DPError(w) PROVE JobShape'
  BY <1>13 DEF DPError
<1>14. ASSUME NEW w \in Workers, Finish(w) PROVE JobShape'
  BY SMTT(60), <1>14, Updates DEF Changed
<1>15. ASSUME NEW w \in Workers, Fail(w) PROVE JobShape'
  BY <1>15, Updates DEF Changed
<1>16. ASSUME NEW w \in Workers, Reject(w) PROVE JobShape'
  BY <1>16, Updates DEF Changed
<1>17. CASE RevokeByOrder
  BY <1>17 DEF RevokeByOrder
<1>18. ASSUME NEW j \in Jobs, Expire(j) PROVE JobShape'
  BY <1>18 DEF Expire
<1>19. ASSUME NEW p \in Procs, Stop(p) PROVE JobShape'
  BY <1>19 DEF Stop
<1>20. CASE ReclaimStaleLeases
  <2>1. IsFiniteSet({j \in expired : attempts[j] >= MaxAttempts})
    BY BoundsAssumption, FS_Subset DEF LeaseInv
  <2>2. lost' \in Nat
    BY <1>20, <2>1, FS_CardinalityType DEF ReclaimStaleLeases
  <2> QED
    BY <1>20, <2>2 DEF ReclaimStaleLeases
<1>21. CASE Crash
  <2>1. lost' \in Nat
    BY <1>21, Finite DEF Crash
  <2>2. <<>> \in Seq(Jobs) /\ Len(<<>>) = 0
    OBVIOUS
  <2> QED
    BY <1>21, <2>1, <2>2, BoundsAssumption DEF Crash
<1>22. CASE UNCHANGED vars
  BY <1>22 DEF vars
<1> QED
  BY <1>1, <1>2, <1>3, <1>4, <1>5, <1>6, <1>7, <1>8, <1>9, <1>10, <1>11, <1>12, <1>13,
     <1>14, <1>15, <1>16, <1>17, <1>18, <1>19, <1>20, <1>21, <1>22
     DEF Next, Work, HandlerStep, WorkerStep, Procs

\* Every step keeps the ids sent once.
LEMMA SentStep == LeaseInv /\ JobShape /\ SentInv /\ WorkersInv /\ [Next]_vars => SentInv'
<1> SUFFICES ASSUME LeaseInv, JobShape, SentInv, WorkersInv, [Next]_vars PROVE SentInv'
  OBVIOUS
<1> USE NamesAssumption DEF JobShape, Procs
<1>u. ASSUME NEW p \in Procs, NEW j \in Jobs, NEW to, to # "none", NEW next,
             Changed(p, j, to, next)
      PROVE  SentInv'
  <2>1. /\ \A k \in Jobs : status[k] # "none" <=> status'[k] # "none"
        /\ UNCHANGED <<attempts, queue>>
        /\ \A h \in Handlers : pc'[h] = "enqueue" => pc[h] = "enqueue" /\ on'[h] = on[h]
    BY <1>u DEF Changed, Procs, LeaseInv, Live, JobShape
  <2>2. \A i \in 1 .. Len(queue) : queue[i] \in Jobs
    BY DEF JobShape
  <2> QED
    BY <2>1, <2>2 DEF SentInv

<1>1. ASSUME NEW h \in Handlers, NEW a \in Asks, SubmitJob(h, a) PROVE SentInv'
  <2>1. /\ UNCHANGED <<status, attempts, queue>>
        /\ \A g \in Handlers : pc'[g] = "enqueue" => pc[g] = "enqueue" /\ on'[g] = on[g]
    BY <1>1 DEF SubmitJob
  <2> QED
    BY <2>1 DEF SentInv
<1>2. ASSUME NEW h \in Handlers, SpendQuota(h) PROVE SentInv'
  <2>1. /\ UNCHANGED <<status, attempts, queue>>
        /\ \A g \in Handlers : pc'[g] = "enqueue" => pc[g] = "enqueue" /\ on'[g] = on[g]
    BY <1>2 DEF SpendQuota
  <2> QED
    BY <2>1 DEF SentInv
<1>3. ASSUME NEW h \in Handlers, CreateJob(h) PROVE SentInv'
  <2>1. CASE UNCHANGED status
    <3>1. /\ UNCHANGED <<status, attempts, queue>>
          /\ \A g \in Handlers : pc'[g] = "enqueue" => pc[g] = "enqueue" /\ on'[g] = on[g]
      BY <1>3, <2>1 DEF CreateJob, LeaseInv
    <3> QED
      BY <3>1 DEF SentInv
  <2>2. ASSUME NEW j \in Jobs, status[j] = "none", status' = [status EXCEPT ![j] = "queued"],
               Take(h, "enqueue", j)
        PROVE  SentInv'
    <3>1. UNCHANGED <<attempts, queue>>
      BY <1>3 DEF CreateJob
    <3>2. /\ attempts[j] = 0 /\ status'[j] # "none"
          /\ \A k \in Jobs \ {j} : status'[k] = status[k]
          /\ \A i \in 1 .. Len(queue) : queue[i] \in Jobs \ {j}
          /\ \A g \in Handlers : pc[g] = "enqueue" => on[g] # j
      BY <2>2 DEF SentInv, LeaseInv
    <3>3. /\ pc'[h] = "enqueue" /\ on'[h] = j
          /\ \A g \in Handlers \ {h} : pc'[g] = pc[g] /\ on'[g] = on[g]
      BY <2>2
    <3> QED
      BY <3>1, <3>2, <3>3 DEF SentInv
  <2> QED
    BY <1>3, <2>1, <2>2 DEF CreateJob
<1>4. ASSUME NEW h \in Handlers, enqueue(h) PROVE SentInv'
  <2>1. /\ UNCHANGED <<status, attempts>> /\ pc[h] = "enqueue" /\ pc'[h] = "idle"
        /\ \A g \in Handlers \ {h} : pc'[g] = pc[g] /\ on'[g] = on[g]
    BY <1>4 DEF enqueue
  <2>2. CASE UNCHANGED queue
    BY <2>1, <2>2 DEF SentInv
  <2>3. CASE queue' = Append(queue, on[h])
    <3>1. /\ on[h] \in Jobs /\ attempts[on[h]] = 0 /\ status[on[h]] # "none"
          /\ \A i \in 1 .. Len(queue) : queue[i] # on[h]
          /\ \A g \in Handlers \ {h} : pc[g] = "enqueue" => on[g] # on[h]
      BY <2>1 DEF SentInv
    <3>2. /\ Len(queue') = Len(queue) + 1 /\ queue'[Len(queue) + 1] = on[h] /\ Len(queue) \in Nat
          /\ \A i \in 1 .. Len(queue) : queue'[i] = queue[i]
      BY <2>3, <3>1
    <3>3. \A i \in 1 .. Len(queue') : i \in 1 .. Len(queue) \/ i = Len(queue) + 1
      BY <3>2
    <3>4. /\ \A i, k \in 1 .. Len(queue') : queue'[i] = queue'[k] => i = k
          /\ \A i \in 1 .. Len(queue') : attempts[queue'[i]] = 0 /\ status[queue'[i]] # "none"
      BY <3>1, <3>2, <3>3 DEF SentInv
    <3>5. ASSUME NEW g \in Handlers, pc'[g] = "enqueue"
          PROVE  \A i \in 1 .. Len(queue') : queue'[i] # on'[g]
      BY <2>1, <3>1, <3>2, <3>3, <3>5 DEF SentInv
    <3>6. ASSUME NEW g \in Handlers, pc'[g] = "enqueue"
          PROVE  /\ on'[g] \in Jobs /\ attempts'[on'[g]] = 0 /\ status'[on'[g]] # "none"
                 /\ \A f \in Handlers : pc'[f] = "enqueue" /\ on'[f] = on'[g] => f = g
      BY <2>1, <3>6 DEF SentInv
    <3>7. \A j \in Jobs : status'[j] = "none" => attempts'[j] = 0
      BY <2>1 DEF SentInv
    <3>8. \A i \in 1 .. Len(queue') : attempts'[queue'[i]] = 0 /\ status'[queue'[i]] # "none"
      BY <2>1, <3>4
    <3> HIDE DEF JobShape
    <3> QED
      BY <3>4, <3>5, <3>6, <3>7, <3>8 DEF SentInv
  <2> QED
    BY <1>4, <2>2, <2>3 DEF enqueue
<1>5. ASSUME NEW p \in Procs, RefundQuota(p) PROVE SentInv'
  <2>1. /\ UNCHANGED <<status, attempts, queue>>
        /\ \A g \in Handlers : pc'[g] = "enqueue" => pc[g] = "enqueue" /\ on'[g] = on[g]
    BY <1>5 DEF RefundQuota
  <2> QED
    BY <2>1 DEF SentInv
<1>6. ASSUME NEW h \in Handlers, NEW j \in Jobs, CancelJob(h, j) PROVE SentInv'
  BY <1>u, <1>6, Updates
<1>7. ASSUME NEW h \in Handlers, NEW j \in Jobs, OpsReleaseOutput(h, j) PROVE SentInv'
  BY <1>u, <1>7, Updates
<1>8. ASSUME NEW h \in Handlers, NEW j \in Jobs, OpsRejectOutput(h, j) PROVE SentInv'
  BY <1>u, <1>8, Updates
<1>9. ASSUME NEW w \in Workers, ClaimJob(w) PROVE SentInv'
  <2>1. /\ queue # <<>> /\ queue' = Tail(queue) /\ Head(queue) = queue[1] /\ 1 \in 1 .. Len(queue)
        /\ \A g \in Handlers : pc'[g] = pc[g] /\ on'[g] = on[g]
    BY <1>9 DEF ClaimJob
  <2>2. /\ Len(queue) \in Nat /\ Len(queue') = Len(queue) - 1
        /\ \A i \in 1 .. Len(queue') : queue'[i] = queue[i + 1] /\ i + 1 \in 1 .. Len(queue)
    BY <2>1
  <2> DEFINE k == Head(queue)
  <2>3. k \in Jobs /\ status[k] # "none" /\ \A g \in Handlers : pc[g] = "enqueue" => on[g] # k
    BY <2>1 DEF SentInv
  <2>k. k = queue[1]
    BY <2>1
  <2> HIDE DEF k
  <2>4. /\ \A j \in Jobs \ {k} : attempts'[j] = attempts[j]
        /\ \A j \in Jobs : status'[j] = "none" <=> status[j] = "none"
    BY <1>9 DEF ClaimJob, LeaseInv, k
  <2>5. \A i \in 1 .. Len(queue') : queue'[i] \in Jobs \ {k}
    <3>1. ASSUME NEW i \in 1 .. Len(queue') PROVE queue[i + 1] \in Jobs /\ queue[i + 1] # queue[1]
      <4>1. i + 1 \in 1 .. Len(queue) /\ i + 1 # 1
        BY <2>2
      <4> QED
        BY <2>1, <4>1 DEF SentInv
    <3> QED
      BY <2>2, <2>k, <3>1
  <2>6. /\ \A i, m \in 1 .. Len(queue') : queue'[i] = queue'[m] => i = m
        /\ \A i \in 1 .. Len(queue') : attempts'[queue'[i]] = 0 /\ status'[queue'[i]] # "none"
    <3>1. \A i, m \in 1 .. Len(queue') : queue'[i] = queue'[m] => i = m
      <4>1. ASSUME NEW i \in 1 .. Len(queue'), NEW m \in 1 .. Len(queue'), queue'[i] = queue'[m]
            PROVE  i = m
        <5>1. i + 1 = m + 1
          BY SMTT(20), <2>2, <4>1 DEF SentInv
        <5> QED
          BY <5>1
      <4> QED
        BY <4>1
    <3>2. ASSUME NEW i \in 1 .. Len(queue')
          PROVE  attempts'[queue'[i]] = 0 /\ status'[queue'[i]] # "none"
      BY <2>2, <2>4, <2>5 DEF SentInv
    <3> QED
      BY <3>1, <3>2
  <2>7. ASSUME NEW g \in Handlers, pc'[g] = "enqueue"
        PROVE  /\ on'[g] \in Jobs /\ attempts'[on'[g]] = 0 /\ status'[on'[g]] # "none"
               /\ \A i \in 1 .. Len(queue') : queue'[i] # on'[g]
               /\ \A f \in Handlers : pc'[f] = "enqueue" /\ on'[f] = on'[g] => f = g
    <3>1. /\ pc[g] = "enqueue" /\ on'[g] = on[g] /\ on[g] \in Jobs \ {k}
          /\ \A f \in Handlers : pc'[f] = pc[f] /\ on'[f] = on[f]
      BY <2>1, <2>3, <2>7 DEF SentInv
    <3>2. attempts'[on[g]] = 0 /\ status'[on[g]] # "none"
      BY <2>4, <3>1 DEF SentInv
    <3>3. \A i \in 1 .. Len(queue') : queue'[i] # on[g]
      BY <2>2, <3>1 DEF SentInv
    <3>4. \A f \in Handlers : pc[f] = "enqueue" /\ on[f] = on[g] => f = g
      BY <3>1 DEF SentInv
    <3> QED
      BY <3>1, <3>2, <3>3, <3>4
  <2>8. \A j \in Jobs : status'[j] = "none" => attempts'[j] = 0
    BY <2>3, <2>4 DEF SentInv
  <2> HIDE DEF JobShape
  <2> QED
    BY <2>6, <2>7, <2>8 DEF SentInv
<1>10. ASSUME NEW w \in Workers, LockDP(w) PROVE SentInv'
  <2>1. /\ UNCHANGED <<status, attempts, queue>>
        /\ \A g \in Handlers : pc'[g] = "enqueue" => pc[g] = "enqueue" /\ on'[g] = on[g]
    BY <1>10 DEF LockDP
  <2> QED
    BY <2>1 DEF SentInv
<1>11. ASSUME NEW w \in Workers, SpendDP(w) PROVE SentInv'
  <2>1. /\ UNCHANGED <<status, attempts, queue>>
        /\ \A g \in Handlers : pc'[g] = "enqueue" => pc[g] = "enqueue" /\ on'[g] = on[g]
    BY <1>11 DEF SpendDP
  <2> QED
    BY <2>1 DEF SentInv
<1>12. ASSUME NEW w \in Workers, InsertDP(w) PROVE SentInv'
  <2>1. /\ UNCHANGED <<status, attempts, queue>>
        /\ \A g \in Handlers : pc'[g] = "enqueue" => pc[g] = "enqueue" /\ on'[g] = on[g]
    BY <1>12 DEF InsertDP
  <2> QED
    BY <2>1 DEF SentInv
<1>13. ASSUME NEW w \in Workers, DPError(w) PROVE SentInv'
  <2>1. /\ UNCHANGED <<status, attempts, queue>>
        /\ \A g \in Handlers : pc'[g] = "enqueue" => pc[g] = "enqueue" /\ on'[g] = on[g]
    BY <1>13 DEF DPError
  <2> QED
    BY <2>1 DEF SentInv
<1>14. ASSUME NEW w \in Workers, Finish(w) PROVE SentInv'
  BY <1>u, <1>14, Updates
<1>15. ASSUME NEW w \in Workers, Fail(w) PROVE SentInv'
  BY <1>u, <1>15, Updates
<1>16. ASSUME NEW w \in Workers, Reject(w) PROVE SentInv'
  BY <1>u, <1>16, Updates
<1>17. CASE RevokeByOrder
  <2>1. /\ UNCHANGED <<status, attempts, queue>>
        /\ \A g \in Handlers : pc'[g] = "enqueue" => pc[g] = "enqueue" /\ on'[g] = on[g]
    BY <1>17 DEF RevokeByOrder
  <2> QED
    BY <2>1 DEF SentInv
<1>18. ASSUME NEW j \in Jobs, Expire(j) PROVE SentInv'
  <2>1. /\ UNCHANGED <<status, attempts, queue>>
        /\ \A g \in Handlers : pc'[g] = "enqueue" => pc[g] = "enqueue" /\ on'[g] = on[g]
    BY <1>18 DEF Expire
  <2> QED
    BY <2>1 DEF SentInv
<1>19. ASSUME NEW p \in Procs, Stop(p) PROVE SentInv'
  <2>1. /\ UNCHANGED <<status, attempts, queue>>
        /\ \A g \in Handlers : pc'[g] = "enqueue" => pc[g] = "enqueue" /\ on'[g] = on[g]
    BY <1>19 DEF Stop
  <2> QED
    BY <2>1 DEF SentInv
<1>20. CASE ReclaimStaleLeases
  <2>1. /\ \A j \in Jobs : status'[j] = "none" <=> status[j] = "none"
        /\ UNCHANGED <<attempts, queue, pc, on>>
    BY <1>20 DEF ReclaimStaleLeases, LeaseInv
  <2>2. \A i \in 1 .. Len(queue) : queue[i] \in Jobs
    OBVIOUS
  <2> QED
    BY <2>1, <2>2 DEF SentInv
<1>21. CASE Crash
  <2>1. /\ UNCHANGED <<status, attempts>> /\ queue' = <<>>
        /\ \A g \in Handlers : pc'[g] = "idle"
    BY <1>21 DEF Crash
  <2> QED
    BY <2>1 DEF SentInv
<1>22. CASE UNCHANGED vars
  BY <1>22 DEF SentInv
<1> QED
  BY <1>1, <1>2, <1>3, <1>4, <1>5, <1>6, <1>7, <1>8, <1>9, <1>10, <1>11, <1>12, <1>13,
     <1>14, <1>15, <1>16, <1>17, <1>18, <1>19, <1>20, <1>21, <1>22
     DEF Next, Work, HandlerStep, WorkerStep, Procs

\* Every step keeps a worker alone with its job and with the budget.
LEMMA WorkersStep == LeaseInv /\ JobShape /\ SentInv /\ WorkersInv /\ [Next]_vars => WorkersInv'
<1> SUFFICES ASSUME LeaseInv, JobShape, SentInv, WorkersInv, [Next]_vars PROVE WorkersInv'
  OBVIOUS
<1> USE NamesAssumption DEF JobShape, Procs, Running
<1>s. ASSUME UNCHANGED <<attempts, ledger>>,
             \A v \in Workers : pc'[v] \in Running =>
                /\ pc[v] \in Running /\ on'[v] = on[v]
                /\ pc'[v] = pc[v] \/ pc'[v] \in {"Fail", "Reject"}
                /\ pc'[v] = pc[v] /\ dpLock = v => dpLock' = v
      PROVE  WorkersInv'
  <2>1. Spent' = Spent
    BY <1>s DEF Spent, Charges
  <2>2. \A j \in Jobs : attempts'[j] = 0 => ledger'[j] = 0
    BY <1>s DEF WorkersInv
  <2>3. ASSUME NEW v \in Workers, pc'[v] \in Running
        PROVE  /\ on'[v] \in Jobs /\ attempts'[on'[v]] = 1
               /\ \A u \in Workers : pc'[u] \in Running /\ on'[u] = on'[v] => u = v
               /\ pc'[v] \in {"Run", "SpendDP", "InsertDP"} => ledger'[on'[v]] = 0
               /\ pc'[v] = "Finish" => ledger'[on'[v]] = 1
               /\ pc'[v] \in {"SpendDP", "InsertDP"} => dpLock' = v
               /\ pc'[v] = "InsertDP" => Spent' < Budget
    <3>1. /\ pc[v] \in Running /\ on'[v] = on[v] /\ UNCHANGED <<attempts, ledger>>
          /\ pc'[v] = pc[v] \/ pc'[v] \in {"Fail", "Reject"}
          /\ pc'[v] = pc[v] /\ dpLock = v => dpLock' = v
          /\ \A u \in Workers : pc'[u] \in Running => pc[u] \in Running /\ on'[u] = on[u]
      BY <1>s, <2>3
    <3> HIDE DEF JobShape
    <3> QED
      BY <2>1, <3>1 DEF WorkersInv
  <2> HIDE DEF Running, JobShape
  <2> QED
    BY <2>2, <2>3 DEF WorkersInv
<1>u. ASSUME NEW p \in Procs, NEW j \in Jobs, NEW to, NEW next, Changed(p, j, to, next)
      PROVE  WorkersInv'
  <2>1. /\ UNCHANGED <<attempts, ledger, dpLock>>
        /\ pc'[p] \notin Running /\ \A q \in Procs \ {p} : pc'[q] = pc[q] /\ on'[q] = on[q]
    BY <1>u DEF Changed
  <2> HIDE DEF JobShape
  <2> QED
    BY <1>s, <2>1

<1>1. ASSUME NEW h \in Handlers, NEW a \in Asks, SubmitJob(h, a) PROVE WorkersInv'
  <2>1. /\ UNCHANGED <<attempts, ledger>>
        /\ \A v \in Workers : pc'[v] \in Running => UNCHANGED <<pc[v], on[v], dpLock>>
    BY <1>1 DEF SubmitJob
  <2> QED
    BY <1>s, <2>1
<1>2. ASSUME NEW h \in Handlers, SpendQuota(h) PROVE WorkersInv'
  <2>1. /\ UNCHANGED <<attempts, ledger>>
        /\ \A v \in Workers : pc'[v] \in Running => UNCHANGED <<pc[v], on[v], dpLock>>
    BY <1>2 DEF SpendQuota
  <2> QED
    BY <1>s, <2>1
<1>3. ASSUME NEW h \in Handlers, CreateJob(h) PROVE WorkersInv'
  <2>1. /\ UNCHANGED <<attempts, ledger>>
        /\ \A v \in Workers : pc'[v] \in Running => UNCHANGED <<pc[v], on[v], dpLock>>
    BY <1>3 DEF CreateJob
  <2> QED
    BY <1>s, <2>1
<1>4. ASSUME NEW h \in Handlers, enqueue(h) PROVE WorkersInv'
  <2>1. /\ UNCHANGED <<attempts, ledger>>
        /\ \A v \in Workers : pc'[v] \in Running => UNCHANGED <<pc[v], on[v], dpLock>>
    BY <1>4 DEF enqueue
  <2> QED
    BY <1>s, <2>1
<1>5. ASSUME NEW p \in Procs, RefundQuota(p) PROVE WorkersInv'
  <2>1. /\ UNCHANGED <<attempts, ledger>>
        /\ \A v \in Workers : pc'[v] \in Running => UNCHANGED <<pc[v], on[v], dpLock>>
    BY <1>5 DEF RefundQuota
  <2> QED
    BY <1>s, <2>1
<1>6. ASSUME NEW h \in Handlers, NEW j \in Jobs, CancelJob(h, j) PROVE WorkersInv'
  BY <1>u, <1>6, Updates
<1>7. ASSUME NEW h \in Handlers, NEW j \in Jobs, OpsReleaseOutput(h, j) PROVE WorkersInv'
  BY <1>u, <1>7, Updates
<1>8. ASSUME NEW h \in Handlers, NEW j \in Jobs, OpsRejectOutput(h, j) PROVE WorkersInv'
  BY <1>u, <1>8, Updates
<1>9. ASSUME NEW w \in Workers, ClaimJob(w) PROVE WorkersInv'
  <2> DEFINE k == Head(queue)
  <2>1. queue # <<>> /\ k = queue[1] /\ 1 \in 1 .. Len(queue) /\ k \in Jobs
    BY <1>9 DEF ClaimJob
  <2>2. attempts[k] = 0 /\ ledger[k] = 0
    BY <2>1 DEF SentInv, WorkersInv
  <2>3. CASE UNCHANGED <<status, attempts, procs>>
    BY <1>s, <1>9, <2>3 DEF ClaimJob
  <2>4. CASE attempts' = [attempts EXCEPT ![k] = @ + 1] /\ Take(w, "Run", k)
    <3> HIDE DEF k
    <3>1. /\ UNCHANGED <<ledger, dpLock>> /\ pc[w] = "idle" /\ pc'[w] = "Run" /\ on'[w] = k
          /\ \A v \in Workers \ {w} : pc'[v] = pc[v] /\ on'[v] = on[v]
      BY <1>9, <2>4 DEF ClaimJob
    <3>2. attempts'[k] = 1 /\ \A j \in Jobs \ {k} : attempts'[j] = attempts[j]
      BY <2>1, <2>2, <2>4
    <3>3. \A v \in Workers : pc[v] \in Running => on[v] \in Jobs \ {k}
      BY <2>2 DEF WorkersInv
    <3>4. Spent' = Spent
      BY <3>1 DEF Spent, Charges
    <3> HIDE DEF JobShape
    <3>5. \A j \in Jobs : attempts'[j] = 0 => ledger'[j] = 0
      BY <3>1, <3>2 DEF WorkersInv
    <3>6. ASSUME NEW v \in Workers, pc'[v] \in Running
          PROVE  /\ on'[v] \in Jobs /\ attempts'[on'[v]] = 1
                 /\ \A u \in Workers : pc'[u] \in Running /\ on'[u] = on'[v] => u = v
                 /\ pc'[v] \in {"Run", "SpendDP", "InsertDP"} => ledger'[on'[v]] = 0
                 /\ pc'[v] = "Finish" => ledger'[on'[v]] = 1
                 /\ pc'[v] \in {"SpendDP", "InsertDP"} => dpLock' = v
                 /\ pc'[v] = "InsertDP" => Spent' < Budget
      <4>1. CASE v = w
        BY <2>1, <2>2, <3>1, <3>2, <3>3, <4>1
      <4>2. CASE v # w
        <5>1. /\ pc'[v] = pc[v] /\ on'[v] = on[v] /\ pc[v] \in Running /\ on[v] \in Jobs \ {k}
              /\ attempts'[on[v]] = attempts[on[v]]
          BY <3>1, <3>2, <3>3, <3>6, <4>2
        <5>2. \A u \in Workers : pc'[u] \in Running /\ on'[u] = on[v] => u = v
          BY <3>1, <5>1 DEF WorkersInv
        <5> QED
          BY <3>1, <3>4, <5>1, <5>2 DEF WorkersInv
      <4> QED
        BY <4>1, <4>2
    <3> HIDE DEF Running
    <3> QED
      BY <3>5, <3>6 DEF WorkersInv
  <2> QED
    BY <1>9, <2>3, <2>4 DEF ClaimJob
<1>10. ASSUME NEW w \in Workers, LockDP(w) PROVE WorkersInv'
  <2>1. /\ UNCHANGED <<attempts, ledger, on>> /\ pc[w] = "Run" /\ dpLock = NoWorker
        /\ dpLock' = w /\ pc'[w] = "SpendDP" /\ \A v \in Workers \ {w} : pc'[v] = pc[v]
    BY <1>10 DEF LockDP
  <2>2. \A v \in Workers : pc[v] \notin {"SpendDP", "InsertDP"}
    BY <2>1 DEF WorkersInv
  <2> HIDE DEF JobShape
  <2> QED
    BY <2>1, <2>2 DEF WorkersInv
<1>11. ASSUME NEW w \in Workers, SpendDP(w) PROVE WorkersInv'
  <2>1. CASE Goto(w, "Reject") /\ Unlock(w)
    BY <1>s, <1>11, <2>1 DEF SpendDP, Unlock
  <2>2. CASE ~(Spent + 1 > Budget) /\ Goto(w, "InsertDP") /\ UNCHANGED dpLock
    <3>1. /\ UNCHANGED <<attempts, ledger, dpLock, on>> /\ pc[w] = "SpendDP"
          /\ pc'[w] = "InsertDP" /\ \A v \in Workers \ {w} : pc'[v] = pc[v]
      BY <1>11, <2>2 DEF SpendDP
    <3>2. Spent' = Spent /\ Spent < Budget
      <4>1. Spent \in Nat /\ Budget \in Nat
        BY Ledger, BoundsAssumption DEF Spent, Charges
      <4> QED
        BY <2>2, <3>1, <4>1 DEF Spent, Charges
    <3> HIDE DEF JobShape
    <3> QED
      BY <3>1, <3>2 DEF WorkersInv
  <2> QED
    BY <1>11, <2>1, <2>2 DEF SpendDP
<1>12. ASSUME NEW w \in Workers, InsertDP(w) PROVE WorkersInv'
  <2>1. /\ UNCHANGED <<attempts, on>> /\ pc[w] = "InsertDP" /\ pc'[w] = "Finish"
        /\ \A v \in Workers \ {w} : pc'[v] = pc[v]
    BY <1>12 DEF InsertDP
  <2>2. /\ on[w] \in Jobs /\ attempts[on[w]] = 1 /\ ledger[on[w]] = 0 /\ dpLock = w
        /\ \A v \in Workers : pc[v] \in Running /\ on[v] = on[w] => v = w
    BY <2>1 DEF WorkersInv
  <2>3. ledger'[on[w]] = 1 /\ \A j \in Jobs \ {on[w]} : ledger'[j] = ledger[j]
    BY <1>12, <2>2 DEF InsertDP
  <2>4. \A v \in Workers \ {w} : pc[v] \notin {"SpendDP", "InsertDP"}
    BY <2>2 DEF WorkersInv
  <2>5. \A j \in Jobs : attempts'[j] = 0 => ledger'[j] = 0
    BY <2>1, <2>2, <2>3 DEF WorkersInv
  <2>6. ASSUME NEW v \in Workers, pc'[v] \in Running
        PROVE  /\ on'[v] \in Jobs /\ attempts'[on'[v]] = 1
               /\ \A u \in Workers : pc'[u] \in Running /\ on'[u] = on'[v] => u = v
               /\ pc'[v] \notin {"SpendDP", "InsertDP"}
               /\ pc'[v] = "Run" => ledger'[on'[v]] = 0
               /\ pc'[v] = "Finish" => ledger'[on'[v]] = 1
    <3>1. pc[v] \in Running /\ \A u \in Workers : pc'[u] \in Running => pc[u] \in Running
      BY <2>1, <2>6
    <3>2. /\ on[v] \in Jobs /\ attempts[on[v]] = 1
          /\ \A u \in Workers : pc[u] \in Running /\ on[u] = on[v] => u = v
      BY <3>1 DEF WorkersInv
    <3>3. CASE v = w
      BY <2>1, <2>2, <2>3, <3>1, <3>2, <3>3
    <3>4. CASE v # w
      <4>1. ledger'[on[v]] = ledger[on[v]] /\ pc'[v] = pc[v]
        BY <2>1, <2>2, <2>3, <3>1, <3>2, <3>4
      <4> QED
        BY <2>1, <2>4, <3>1, <3>2, <3>4, <4>1 DEF WorkersInv
    <3> QED
      BY <3>3, <3>4
  <2> HIDE DEF JobShape
  <2> QED
    BY <2>5, <2>6 DEF WorkersInv
<1>13. ASSUME NEW w \in Workers, DPError(w) PROVE WorkersInv'
  BY <1>s, <1>13 DEF DPError, Unlock
<1>14. ASSUME NEW w \in Workers, Finish(w) PROVE WorkersInv'
  BY <1>u, <1>14, Updates
<1>15. ASSUME NEW w \in Workers, Fail(w) PROVE WorkersInv'
  BY <1>u, <1>15, Updates
<1>16. ASSUME NEW w \in Workers, Reject(w) PROVE WorkersInv'
  BY <1>u, <1>16, Updates
<1>17. CASE RevokeByOrder
  <2>1. /\ UNCHANGED <<attempts, ledger>>
        /\ \A v \in Workers : pc'[v] \in Running => UNCHANGED <<pc[v], on[v], dpLock>>
    BY <1>17 DEF RevokeByOrder
  <2> QED
    BY <1>s, <2>1
<1>18. ASSUME NEW j \in Jobs, Expire(j) PROVE WorkersInv'
  <2>1. /\ UNCHANGED <<attempts, ledger>>
        /\ \A v \in Workers : pc'[v] \in Running => UNCHANGED <<pc[v], on[v], dpLock>>
    BY <1>18 DEF Expire
  <2> QED
    BY <1>s, <2>1
<1>19. ASSUME NEW p \in Procs, Stop(p) PROVE WorkersInv'
  <2>1. /\ UNCHANGED <<attempts, ledger>>
        /\ \A v \in Workers : pc'[v] \in Running => UNCHANGED <<pc[v], on[v], dpLock>>
    BY <1>19 DEF Stop
  <2> QED
    BY <1>s, <2>1
<1>20. CASE ReclaimStaleLeases
  <2>1. /\ UNCHANGED <<attempts, ledger>>
        /\ \A v \in Workers : pc'[v] \in Running => UNCHANGED <<pc[v], on[v], dpLock>>
    BY <1>20 DEF ReclaimStaleLeases
  <2> QED
    BY <1>s, <2>1
<1>21. CASE Crash
  <2>1. /\ UNCHANGED <<attempts, ledger>>
        /\ \A v \in Workers : pc'[v] \in Running => UNCHANGED <<pc[v], on[v], dpLock>>
    BY <1>21 DEF Crash
  <2> QED
    BY <1>s, <2>1
<1>22. CASE UNCHANGED vars
  BY <1>s, <1>22
<1> QED
  BY <1>1, <1>2, <1>3, <1>4, <1>5, <1>6, <1>7, <1>8, <1>9, <1>10, <1>11, <1>12, <1>13,
     <1>14, <1>15, <1>16, <1>17, <1>18, <1>19, <1>20, <1>21, <1>22
     DEF Next, Work, HandlerStep, WorkerStep, Procs

\* Every step keeps what is shown or let out charged.
LEMMA ChargedStep ==
  LeaseInv /\ JobShape /\ SentInv /\ WorkersInv /\ ChargedInv /\ [Next]_vars => ChargedInv'
<1> SUFFICES ASSUME LeaseInv, JobShape, SentInv, WorkersInv, ChargedInv, [Next]_vars PROVE ChargedInv'
  OBVIOUS
<1> USE DEF LeaseInv, JobShape, Live, Terminal
<1>s. ASSUME \A j \in Jobs : status'[j] \in {"output_reviewing", "released"} =>
                /\ row'[j] = row[j] /\ (ledger[j] = 1 => ledger'[j] = 1)
                /\ row[j].dp => status[j] \in {"output_reviewing", "released"} \/ ledger[j] = 1
      PROVE  ChargedInv'
  BY <1>s DEF ChargedInv
<1>u. ASSUME NEW p \in Procs, NEW j \in Jobs, NEW to, NEW next, Changed(p, j, to, next),
             row[j].dp /\ to \in {"output_reviewing", "released"} =>
                status[j] = "output_reviewing" \/ ledger[j] = 1
      PROVE  ChargedInv'
  <2>0. UNCHANGED <<row, ledger>> /\ (UNCHANGED status \/ status' = [status EXCEPT ![j] = to])
    BY <1>u, Zenon DEF Changed
  <2>1. UNCHANGED <<row, ledger>> /\ \A i \in Jobs \ {j} : status'[i] = status[i]
    BY <2>0
  <2>2. status'[j] = status[j] \/ status'[j] = to
    BY <2>0
  <2> QED
    BY <1>u, <2>1, <2>2 DEF ChargedInv

<1>1. ASSUME NEW h \in Handlers, NEW a \in Asks, SubmitJob(h, a) PROVE ChargedInv'
  BY <1>1 DEF SubmitJob, ChargedInv
<1>2. ASSUME NEW h \in Handlers, SpendQuota(h) PROVE ChargedInv'
  BY <1>2 DEF SpendQuota, ChargedInv
<1>3. ASSUME NEW h \in Handlers, CreateJob(h) PROVE ChargedInv'
  <2>1. CASE UNCHANGED <<status, row>>
    BY <1>3, <2>1 DEF CreateJob, ChargedInv
  <2>2. ASSUME NEW j \in Jobs, status' = [status EXCEPT ![j] = "queued"],
               row' = [row EXCEPT ![j] = ask[h]]
        PROVE  ChargedInv'
    BY <1>3, <2>2 DEF CreateJob, ChargedInv
  <2> QED
    BY <1>3, <2>1, <2>2 DEF CreateJob
<1>4. ASSUME NEW h \in Handlers, enqueue(h) PROVE ChargedInv'
  BY <1>4 DEF enqueue, ChargedInv
<1>5. ASSUME NEW p \in Procs, RefundQuota(p) PROVE ChargedInv'
  BY <1>5 DEF RefundQuota, ChargedInv
<1>6. ASSUME NEW h \in Handlers, NEW j \in Jobs, CancelJob(h, j) PROVE ChargedInv'
  BY <1>u, <1>6, Updates DEF Procs
<1>7. ASSUME NEW h \in Handlers, NEW j \in Jobs, OpsReleaseOutput(h, j) PROVE ChargedInv'
  BY <1>u, <1>7, Updates DEF Procs
<1>8. ASSUME NEW h \in Handlers, NEW j \in Jobs, OpsRejectOutput(h, j) PROVE ChargedInv'
  BY <1>u, <1>8, Updates DEF Procs
<1>9. ASSUME NEW w \in Workers, ClaimJob(w) PROVE ChargedInv'
  <2>1. /\ UNCHANGED <<row, ledger>>
        /\ \A j \in Jobs : status'[j] = status[j] \/ status'[j] = "running"
    BY <1>9 DEF ClaimJob
  <2> QED
    BY <2>1 DEF ChargedInv
<1>10. ASSUME NEW w \in Workers, LockDP(w) PROVE ChargedInv'
  BY <1>10 DEF LockDP, ChargedInv
<1>11. ASSUME NEW w \in Workers, SpendDP(w) PROVE ChargedInv'
  BY <1>11 DEF SpendDP, ChargedInv
<1>12. ASSUME NEW w \in Workers, InsertDP(w) PROVE ChargedInv'
  <2>1. on[w] \in Jobs /\ ledger[on[w]] = 0
    BY <1>12 DEF InsertDP, WorkersInv, Running
  <2>2. /\ UNCHANGED <<row, status>>
        /\ \A j \in Jobs : ledger[j] = 1 => ledger'[j] = 1
    BY <1>12, <2>1 DEF InsertDP
  <2> QED
    BY <2>2 DEF ChargedInv
<1>13. ASSUME NEW w \in Workers, DPError(w) PROVE ChargedInv'
  BY <1>13 DEF DPError, ChargedInv
<1>14. ASSUME NEW w \in Workers, Finish(w) PROVE ChargedInv'
  <2>1. on[w] \in Jobs /\ (row[on[w]].dp => ledger[on[w]] = 1)
    BY <1>14, Updates DEF WorkersInv, Running
  <2>2. PICK to \in {"output_reviewing", "released"} : Changed(w, on[w], to, "idle")
    BY <1>14, Updates
  <2> QED
    BY <1>u, <2>1, <2>2 DEF Procs
<1>15. ASSUME NEW w \in Workers, Fail(w) PROVE ChargedInv'
  BY <1>u, <1>15, Updates DEF Procs
<1>16. ASSUME NEW w \in Workers, Reject(w) PROVE ChargedInv'
  BY <1>u, <1>16, Updates DEF Procs
<1>17. CASE RevokeByOrder
  BY <1>17 DEF RevokeByOrder, ChargedInv
<1>18. ASSUME NEW j \in Jobs, Expire(j) PROVE ChargedInv'
  BY <1>18 DEF Expire, ChargedInv
<1>19. ASSUME NEW p \in Procs, Stop(p) PROVE ChargedInv'
  BY <1>19 DEF Stop, ChargedInv
<1>20. CASE ReclaimStaleLeases
  <2>1. /\ UNCHANGED <<row, ledger>>
        /\ \A j \in Jobs : status'[j] = status[j] \/ status'[j] \in {"failed", "queued"}
    BY <1>20 DEF ReclaimStaleLeases
  <2> QED
    BY <2>1 DEF ChargedInv
<1>21. CASE Crash
  BY <1>21 DEF Crash, ChargedInv
<1>22. CASE UNCHANGED vars
  BY <1>22 DEF ChargedInv
<1> QED
  BY <1>1, <1>2, <1>3, <1>4, <1>5, <1>6, <1>7, <1>8, <1>9, <1>10, <1>11, <1>12, <1>13,
     <1>14, <1>15, <1>16, <1>17, <1>18, <1>19, <1>20, <1>21, <1>22
     DEF Next, Work, HandlerStep, WorkerStep, Procs


\* Every step keeps the budget: one row more at most, and only below it.
LEMMA BudgetStep == JobShape /\ WorkersInv /\ BudgetHolds /\ [Next]_vars => BudgetHolds'
<1> SUFFICES ASSUME JobShape, WorkersInv, BudgetHolds, [Next]_vars PROVE BudgetHolds'
  OBVIOUS
<1>1. ASSUME NEW w \in Workers, InsertDP(w) PROVE BudgetHolds'
  <2>1. /\ on[w] \in Jobs /\ ledger[on[w]] = 0 /\ Spent < Budget
        /\ ledger \in [Jobs -> {0, 1}] /\ ledger' = [ledger EXCEPT ![on[w]] = @ + 1]
    BY <1>1 DEF InsertDP, WorkersInv, Running, JobShape
  <2>2. ledger' \in [Jobs -> {0, 1}]
    BY <2>1
  <2>3. /\ Charges = {j \in Jobs : ledger[j] = 1} \X {1} /\ IsFiniteSet(Charges)
        /\ Charges' = {j \in Jobs : ledger'[j] = 1} \X {1} /\ Spent \in Nat
    BY <2>1, <2>2, Ledger DEF Charges, Spent
  <2>4. {j \in Jobs : ledger'[j] = 1} = {j \in Jobs : ledger[j] = 1} \cup {on[w]}
    BY <2>1
  <2> DEFINE c == <<on[w], 1>>
  <2>5. Charges' = Charges \cup {c}
    BY <2>3, <2>4
  <2> HIDE DEF c
  <2>6. /\ Cardinality(Charges') <= Cardinality(Charges) + 1
        /\ Cardinality(Charges) \in Nat /\ Cardinality(Charges') \in Nat
    <3>1. /\ Cardinality(Charges \cup {c}) = IF c \in Charges THEN Cardinality(Charges)
                                              ELSE Cardinality(Charges) + 1
          /\ Cardinality(Charges) \in Nat
      BY <2>3, FS_AddElement, FS_CardinalityType
    <3>2. Cardinality(Charges') = Cardinality(Charges \cup {c})
      BY <2>5
    <3> QED
      BY <3>1, <3>2
  <2>7. Spent' = Cardinality(Charges') /\ Spent = Cardinality(Charges)
    BY DEF Spent
  <2> QED
    BY <2>1, <2>6, <2>7, BoundsAssumption DEF BudgetHolds
<1>2. CASE UNCHANGED ledger
  BY <1>2 DEF BudgetHolds, Spent, Charges
<1>3. (\E w \in Workers : InsertDP(w)) \/ UNCHANGED ledger
  BY DEF Next, Work, HandlerStep, WorkerStep, SubmitJob, SpendQuota, CreateJob, enqueue, RefundQuota,
         CancelJob, OpsReleaseOutput, OpsRejectOutput, Update, ClaimJob, LockDP, SpendDP, DPError, Finish,
         Fail, Reject, RevokeByOrder, Expire, Stop, ReclaimStaleLeases, Crash
<1> QED
  BY <1>1, <1>2, <1>3


\* One more, one less.
LEMMA Counted ==
  ASSUME NEW X, IsFiniteSet(X), NEW Y, NEW x
  PROVE  /\ Cardinality(X) \in Nat
         /\ x \notin X /\ Y = X \cup {x} => Cardinality(Y) = Cardinality(X) + 1
         /\ x \in X /\ Y = X \ {x} => Cardinality(Y) = Cardinality(X) - 1
BY FS_AddElement, FS_RemoveElement, FS_CardinalityType

\* Every step keeps the credits accounted for.
LEMMA BalanceStep ==
  EntInv /\ LeaseInv /\ JobShape /\ SentInv /\ WorkersInv /\ CreditsBalance /\ [Next]_vars => CreditsBalance'
<1> SUFFICES ASSUME EntInv, LeaseInv, JobShape, SentInv, WorkersInv, CreditsBalance, [Next]_vars
             PROVE  CreditsBalance'
  OBVIOUS
<1> USE NamesAssumption, BoundsAssumption DEF JobShape, Procs
<1>0. /\ IsFiniteSet(Billable) /\ IsFiniteSet(Holding)
      /\ Cardinality(Billable) \in Nat /\ Cardinality(Holding) \in Nat
      /\ lost \in Nat /\ used \in Nat
  BY Finite DEF EntInv
<1>t. used = Cardinality(Billable) + Cardinality(Holding) + lost
  BY DEF CreditsBalance, Billable
<1>g. used' = Cardinality(Billable') + Cardinality(Holding') + lost' => CreditsBalance'
  BY DEF CreditsBalance, Billable
<1>s. ASSUME UNCHANGED <<used, lost>>, Billable' = Billable, Holding' = Holding
      PROVE  CreditsBalance'
  BY <1>s, <1>t, <1>g
\* A process gives its credit up, for good or for a job.
<1>u. ASSUME NEW p \in Procs, pc[p] \notin {"CreateJob", "RefundQuota"}, NEW j \in Jobs, NEW to, NEW next,
             \/ next = "idle" /\ to \in {"output_reviewing", "released"}
             \/ next = "RefundQuota" /\ to \in {"canceled", "rejected", "failed"},
             Changed(p, j, to, next)
      PROVE  CreditsBalance'
  <2>1. /\ UNCHANGED <<used, lost>> /\ \A q \in Procs \ {p} : pc'[q] = pc[q]
        /\ \/ UNCHANGED status /\ pc'[p] = "idle"
           \/ status[j] \in Live /\ status' = [status EXCEPT ![j] = to] /\ pc'[p] = next
    BY <1>u, Zenon DEF Changed
  <2>2. CASE UNCHANGED status /\ pc'[p] = "idle"
    <3>1. Billable' = Billable /\ Holding' = Holding
      BY <1>u, <2>1, <2>2 DEF Billable, Holding
    <3> QED
      BY <1>s, <2>1, <3>1
  <2>3. CASE status[j] \in Live /\ status' = [status EXCEPT ![j] = to] /\ pc'[p] = next /\ next = "idle"
    <3>1. Billable' = Billable
      BY <1>u, <2>3 DEF Billable, LeaseInv, Live
    <3>2. Holding' = Holding
      BY <1>u, <2>1, <2>3 DEF Holding
    <3> QED
      BY <1>s, <2>1, <3>1, <3>2
  <2>4. CASE /\ status[j] \in Live /\ status' = [status EXCEPT ![j] = to] /\ pc'[p] = next
             /\ next = "RefundQuota" /\ to \in {"canceled", "rejected", "failed"}
    <3>1. j \in Billable /\ Billable' = Billable \ {j}
      BY <2>4 DEF Billable, LeaseInv, Live
    <3>2. p \notin Holding /\ Holding' = Holding \cup {p}
      BY <1>u, <2>1, <2>4 DEF Holding
    <3>3. /\ Cardinality(Billable') = Cardinality(Billable) - 1
          /\ Cardinality(Holding') = Cardinality(Holding) + 1
      BY <1>0, <3>1, <3>2, Counted
    <3> QED
      BY <1>0, <1>t, <1>g, <2>1, <3>3
  <2> QED
    BY <1>u, <2>1, <2>2, <2>3, <2>4

<1>1. ASSUME NEW h \in Handlers, NEW a \in Asks, SubmitJob(h, a) PROVE CreditsBalance'
  <2>1. UNCHANGED <<used, lost, status>>
    BY <1>1 DEF SubmitJob
  <2>2. Holding' = Holding
    BY <1>1 DEF SubmitJob, Holding
  <2> QED
    BY <1>s, <2>1, <2>2 DEF Billable
<1>2. ASSUME NEW h \in Handlers, SpendQuota(h) PROVE CreditsBalance'
  <2>1. UNCHANGED <<lost, status>> /\ Billable' = Billable /\ h \notin Holding
    BY <1>2 DEF SpendQuota, Billable, Holding
  <2>2. CASE used' = used + 1 /\ Goto(h, "CreateJob")
    <3>1. Holding' = Holding \cup {h}
      BY <2>2 DEF Holding
    <3>2. Cardinality(Holding') = Cardinality(Holding) + 1
      BY <1>0, <2>1, <3>1, Counted
    <3> QED
      BY <1>0, <1>t, <1>g, <2>1, <2>2, <3>2
  <2>3. CASE UNCHANGED used /\ Leave(h)
    <3>1. Holding' = Holding
      BY <2>1, <2>3 DEF Holding
    <3> QED
      BY <1>s, <2>1, <2>3, <3>1
  <2> QED
    BY <1>2, <2>2, <2>3 DEF SpendQuota
<1>3. ASSUME NEW h \in Handlers, CreateJob(h) PROVE CreditsBalance'
  <2>1. UNCHANGED <<used, lost>> /\ h \in Holding
    BY <1>3 DEF CreateJob, Holding
  <2>2. CASE UNCHANGED status /\ Goto(h, "RefundQuota")
    <3>1. Billable' = Billable /\ Holding' = Holding
      BY <2>1, <2>2 DEF Billable, Holding
    <3> QED
      BY <1>s, <2>1, <3>1
  <2>3. ASSUME NEW j \in Jobs, status[j] = "none", status' = [status EXCEPT ![j] = "queued"],
               Take(h, "enqueue", j)
        PROVE  CreditsBalance'
    <3>1. j \notin Billable /\ Billable' = Billable \cup {j}
      BY <2>3 DEF Billable, LeaseInv, Live
    <3>2. Holding' = Holding \ {h}
      BY <2>3 DEF Holding
    <3>3. /\ Cardinality(Billable') = Cardinality(Billable) + 1
          /\ Cardinality(Holding') = Cardinality(Holding) - 1
      BY <1>0, <2>1, <3>1, <3>2, Counted
    <3> QED
      BY <1>0, <1>t, <1>g, <2>1, <3>3
  <2> QED
    BY <1>3, <2>2, <2>3 DEF CreateJob
<1>4. ASSUME NEW h \in Handlers, enqueue(h) PROVE CreditsBalance'
  <2>1. UNCHANGED <<used, lost, status>>
    BY <1>4 DEF enqueue
  <2>2. Holding' = Holding
    BY <1>4 DEF enqueue, Holding
  <2> QED
    BY <1>s, <2>1, <2>2 DEF Billable
<1>5. ASSUME NEW p \in Procs, RefundQuota(p) PROVE CreditsBalance'
  <2>1. p \in Holding /\ Billable' = Billable /\ Leave(p)
    BY <1>5 DEF RefundQuota, Holding, Billable
  <2>2. Holding' = Holding \ {p}
    BY <2>1 DEF Holding
  <2>3. Cardinality(Holding') = Cardinality(Holding) - 1 /\ Cardinality(Holding') \in Nat
    <3>1. IsFiniteSet(Holding')
      BY <1>0, <2>2, FS_RemoveElement
    <3> QED
      BY <1>0, <2>1, <2>2, <3>1, Counted
  <2>4. \/ used' = Pred(used) /\ UNCHANGED lost
        \/ lost' = lost + 1 /\ UNCHANGED used
    BY <1>5 DEF RefundQuota
  <2> QED
    BY <1>0, <1>t, <1>g, <2>1, <2>3, <2>4 DEF Pred
<1>6. ASSUME NEW h \in Handlers, NEW j \in Jobs, CancelJob(h, j) PROVE CreditsBalance'
  BY <1>u, <1>6, Updates
<1>7. ASSUME NEW h \in Handlers, NEW j \in Jobs, OpsReleaseOutput(h, j) PROVE CreditsBalance'
  BY <1>u, <1>7, Updates
<1>8. ASSUME NEW h \in Handlers, NEW j \in Jobs, OpsRejectOutput(h, j) PROVE CreditsBalance'
  BY <1>u, <1>8, Updates
<1>9. ASSUME NEW w \in Workers, ClaimJob(w) PROVE CreditsBalance'
  <2>1. /\ UNCHANGED <<used, lost>> /\ pc[w] = "idle"
        /\ UNCHANGED pc \/ pc' = [pc EXCEPT ![w] = "Run"]
        /\ UNCHANGED status \/ (status[Head(queue)] = "queued"
                                 /\ status' = [status EXCEPT ![Head(queue)] = "running"])
    BY <1>9 DEF ClaimJob
  <2>2. Holding' = Holding
    BY <2>1 DEF Holding
  <2> DEFINE k == Head(queue)
  <2> HIDE DEF k
  <2>3. UNCHANGED status \/ (status[k] = "queued" /\ status' = [status EXCEPT ![k] = "running"])
    BY <2>1 DEF k
  <2>4. Billable' = Billable
    BY <2>3 DEF Billable, LeaseInv, Live
  <2> QED
    BY <1>s, <2>1, <2>2, <2>4
<1>10. ASSUME NEW w \in Workers, LockDP(w) PROVE CreditsBalance'
  <2>1. UNCHANGED <<used, lost, status>>
    BY <1>10 DEF LockDP
  <2>2. Holding' = Holding
    BY <1>10 DEF LockDP, Holding
  <2> QED
    BY <1>s, <2>1, <2>2 DEF Billable
<1>11. ASSUME NEW w \in Workers, SpendDP(w) PROVE CreditsBalance'
  <2>1. UNCHANGED <<used, lost, status>>
    BY <1>11 DEF SpendDP
  <2>2. Holding' = Holding
    BY <1>11 DEF SpendDP, Holding
  <2> QED
    BY <1>s, <2>1, <2>2 DEF Billable
<1>12. ASSUME NEW w \in Workers, InsertDP(w) PROVE CreditsBalance'
  <2>1. UNCHANGED <<used, lost, status>>
    BY <1>12 DEF InsertDP
  <2>2. Holding' = Holding
    BY <1>12 DEF InsertDP, Holding
  <2> QED
    BY <1>s, <2>1, <2>2 DEF Billable
<1>13. ASSUME NEW w \in Workers, DPError(w) PROVE CreditsBalance'
  <2>1. UNCHANGED <<used, lost, status>>
    BY <1>13 DEF DPError
  <2>2. Holding' = Holding
    BY <1>13 DEF DPError, Holding
  <2> QED
    BY <1>s, <2>1, <2>2 DEF Billable
<1>14. ASSUME NEW w \in Workers, Finish(w) PROVE CreditsBalance'
  <2>1. on[w] \in Jobs /\ pc[w] \in {"Run", "Finish"}
    BY <1>14, Updates
  <2>2. PICK to \in {"output_reviewing", "released"} : Changed(w, on[w], to, "idle")
    BY <1>14, Updates
  <2> QED
    BY <1>u, <2>1, <2>2
<1>15. ASSUME NEW w \in Workers, Fail(w) PROVE CreditsBalance'
  BY <1>u, <1>15, Updates DEF Running
<1>16. ASSUME NEW w \in Workers, Reject(w) PROVE CreditsBalance'
  BY <1>u, <1>16, Updates DEF Running
<1>17. CASE RevokeByOrder
  <2>1. UNCHANGED <<used, lost, status>>
    BY <1>17 DEF RevokeByOrder
  <2>2. Holding' = Holding
    BY <1>17 DEF RevokeByOrder, Holding
  <2> QED
    BY <1>s, <2>1, <2>2 DEF Billable
<1>18. ASSUME NEW j \in Jobs, Expire(j) PROVE CreditsBalance'
  <2>1. UNCHANGED <<used, lost, status>>
    BY <1>18 DEF Expire
  <2>2. Holding' = Holding
    BY <1>18 DEF Expire, Holding
  <2> QED
    BY <1>s, <2>1, <2>2 DEF Billable
<1>19. ASSUME NEW p \in Procs, Stop(p) PROVE CreditsBalance'
  <2>1. Billable' = Billable /\ Leave(p) /\ UNCHANGED used
    BY <1>19 DEF Stop, Billable
  <2>2. CASE pc[p] = "RefundQuota"
    <3>1. p \in Holding /\ Holding' = Holding \ {p} /\ lost' = lost + 1
      BY <1>19, <2>1, <2>2 DEF Stop, Holding
    <3>2. Cardinality(Holding') = Cardinality(Holding) - 1
      BY <1>0, <3>1, Counted
    <3> QED
      BY <1>0, <1>t, <1>g, <2>1, <3>1, <3>2
  <2>3. CASE pc[p] # "RefundQuota"
    <3>1. Holding' = Holding /\ UNCHANGED lost
      BY <1>19, <2>1, <2>3 DEF Stop, Holding
    <3> QED
      BY <1>s, <2>1, <3>1
  <2> QED
    BY <2>2, <2>3
<1>20. CASE ReclaimStaleLeases
  <2> DEFINE dead == {j \in expired : attempts[j] >= MaxAttempts}
  <2>1. lost' = lost + Cardinality(dead) /\ UNCHANGED <<used, pc>>
    BY <1>20 DEF ReclaimStaleLeases
  <2>2. dead \subseteq Billable /\ Billable' = Billable \ dead
    BY <1>20 DEF ReclaimStaleLeases, LeaseInv, Billable, Live
  <2>3. Holding' = Holding
    BY <2>1 DEF Holding
  <2> HIDE DEF dead
  <2>4. Cardinality(Billable') = Cardinality(Billable) - Cardinality(dead) /\ Cardinality(dead) \in Nat
    <3>1. Billable \cap dead = dead /\ IsFiniteSet(dead)
      BY <1>0, <2>2, FS_Subset
    <3> QED
      BY <1>0, <2>2, <3>1, FS_Difference, FS_CardinalityType
  <2> QED
    BY <1>0, <1>t, <1>g, <2>1, <2>3, <2>4
<1>21. CASE Crash
  <2>1. /\ UNCHANGED <<used, status>> /\ lost' = lost + Cardinality(Holding)
        /\ \A p \in Procs : pc'[p] = "idle"
    BY <1>21 DEF Crash
  <2>2. Holding' = {} /\ Billable' = Billable
    BY <2>1 DEF Holding, Billable
  <2>3. Cardinality(Holding') = 0
    BY <2>2, FS_EmptySet
  <2> QED
    BY <1>0, <1>t, <1>g, <2>1, <2>2, <2>3
<1>22. CASE UNCHANGED vars
  BY <1>s, <1>22 DEF Billable, Holding
<1> QED
  BY <1>1, <1>2, <1>3, <1>4, <1>5, <1>6, <1>7, <1>8, <1>9, <1>10, <1>11, <1>12, <1>13,
     <1>14, <1>15, <1>16, <1>17, <1>18, <1>19, <1>20, <1>21, <1>22
     DEF Next, Work, HandlerStep, WorkerStep, Procs


\* Nothing is spent, sent or charged to begin with.
LEMMA JobsStart == Init => JobsIInv
<1> SUFFICES ASSUME Init PROVE JobsIInv
  OBVIOUS
<1>1. JobShape
  <2>1. Blank \in Rows /\ <<>> \in Seq(Jobs) /\ Len(<<>>) = 0
    BY DEF Blank, Rows
  <2> QED
    BY <2>1, BoundsAssumption DEF Init, JobShape, Statements
<1>2. SentInv /\ ChargedInv
  BY DEF Init, SentInv, ChargedInv, Procs
<1>3. WorkersInv
  BY DEF Init, WorkersInv, Procs, Running
<1>4. BudgetHolds
  <2>1. Charges = {}
    <3>1. {j \in Jobs : ledger[j] = 1} = {} /\ ledger \in [Jobs -> {0, 1}]
      BY DEF Init
    <3> QED
      BY <3>1, Ledger DEF Charges
  <2> QED
    BY <2>1, FS_EmptySet, BoundsAssumption DEF BudgetHolds, Spent
<1>5. CreditsBalance
  <2>1. Holding = {} /\ Billable = {} /\ used = 0 /\ lost = 0
    BY DEF Init, Holding, Billable, Live
  <2> QED
    BY <2>1, FS_EmptySet DEF CreditsBalance, Billable
<1> QED
  BY <1>1, <1>2, <1>3, <1>4, <1>5, EntInit, LeaseInit DEF JobsIInv


\* A set whose members are all one has one member or none.
LEMMA AtMostOne ==
  ASSUME NEW X, \A x, y \in X : x = y
  PROVE  (X = {} /\ Cardinality(X) = 0) \/ (X # {} /\ Cardinality(X) = 1)
<1>1. CASE X = {}
  BY <1>1, FS_EmptySet
<1>2. ASSUME NEW x \in X PROVE Cardinality(X) = 1 /\ X # {}
  <2>1. X = {x}
    BY <1>2
  <2> QED
    BY <2>1, FS_Singleton
<1> QED
  BY <1>1, <1>2

\* The invariant says that credits, budget, ledger and channel agree.
LEMMA JobsSafe == JobsIInv => JobsInv
<1> SUFFICES ASSUME JobsIInv PROVE JobsInv
  OBVIOUS
<1>1. TypeOK
  <2>1. attempts \in [Jobs -> 0 .. MaxAttempts] /\ ledger \in [Jobs -> Nat]
    <3>1. {0, 1} \subseteq 0 .. MaxAttempts /\ {0, 1} \subseteq Nat
      BY BoundsAssumption
    <3> QED
      BY <3>1 DEF JobsIInv, JobShape
  <2> QED
    BY <2>1 DEF JobsIInv, JobShape, EntInv, LeaseInv, TypeOK
<1>2. OutputCharged
  BY DEF JobsIInv, JobShape, ChargedInv, OutputCharged
<1>3. RunsOnce
  <2> SUFFICES ASSUME NEW j \in Jobs
               PROVE  attempts[j] + Cardinality({i \in DOMAIN queue : queue[i] = j})
                      + Cardinality({h \in Handlers : pc[h] = "enqueue" /\ on[h] = j}) <= 1
    BY DEF RunsOnce
  <2> DEFINE places == {i \in DOMAIN queue : queue[i] = j}
             senders == {h \in Handlers : pc[h] = "enqueue" /\ on[h] = j}
  <2>1. DOMAIN queue = 1 .. Len(queue) /\ attempts[j] \in {0, 1}
    BY DEF JobsIInv, JobShape
  <2>2. /\ \A x, y \in places : x = y
        /\ \A x, y \in senders : x = y
        /\ attempts[j] = 1 => places = {} /\ senders = {}
        /\ senders # {} => places = {}
    BY <2>1 DEF JobsIInv, SentInv
  <2> HIDE DEF places, senders
  <2>3. /\ (places = {} /\ Cardinality(places) = 0) \/ (places # {} /\ Cardinality(places) = 1)
        /\ (senders = {} /\ Cardinality(senders) = 0) \/ (senders # {} /\ Cardinality(senders) = 1)
    BY <2>2, AtMostOne
  <2>4. attempts[j] + Cardinality(places) + Cardinality(senders) <= 1
    BY <2>1, <2>2, <2>3
  <2> QED
    BY <2>4 DEF places, senders
<1> QED
  BY <1>1, <1>2, <1>3 DEF JobsIInv, EntInv, JobsInv

\* compute/repo.go CreateJob, ClaimJob, SpendDP, Release, ReclaimStaleLeases, RefundQuota: for
\* any handlers, workers, jobs and faults every credit is accounted for and the privacy
\* budget is kept, each output that costs it is charged once before it is let out, and no
\* job runs twice.
THEOREM JobsCorrect == Spec => []JobsInv
<1>1. JobsIInv /\ [Next]_vars => JobsIInv'
  BY EntStep, JobStep, JobShapeStep, SentStep, WorkersStep, ChargedStep, BudgetStep, BalanceStep
     DEF JobsIInv, JobSteps
<1> QED
  BY <1>1, JobsStart, JobsSafe, PTL DEF Spec
=============================================================================
