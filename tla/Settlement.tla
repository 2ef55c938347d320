----------------------------- MODULE Settlement -----------------------------
(***************************************************************************)
(* Settlement, disputes and refunds of paid download orders: the order     *)
(* service (modules/order), the payment service with its settlement outbox *)
(* (modules/payment) and the money movements at the payment provider.      *)
(*                                                                         *)
(* Every database statement and every provider call is a step of its own.  *)
(* Threads are HTTP handlers: each serves one request at a time.  Workers  *)
(* are the outbox workers, one per application instance.  A handler or a   *)
(* worker may stop between any two steps: the process dies, the request is *)
(* cancelled or a call returns an error.                                   *)
(*                                                                         *)
(* The provider's calls carry the idempotency keys settle:<order>,         *)
(* reverse:<split> and refund:<charge>, so a repeated call is the first    *)
(* one: moved[o] is the set of movements that happened.                    *)
(***************************************************************************)
EXTENDS Naturals, FiniteSets

CONSTANTS
  Orders,
  Threads,             \* HTTP handlers
  Workers,             \* settlement-outbox workers
  MaxSettleAttempts,   \* maxSettleAttempts of the payment service
  NoWorker             \* nobody holds the advisory lock

ASSUME ProcsAssumption    == /\ Threads \cap Workers = {}
                             /\ NoWorker \notin Workers
ASSUME AttemptsAssumption == MaxSettleAttempts \in Nat \ {0}
ASSUME WorkersAssumption  == IsFiniteSet(Workers)

Procs == Threads \cup Workers

VARIABLES
  order,        \* orders.status
  payment,      \* payments.status
  settlement,   \* settlements.status, "none" when there is no row
  disputes,     \* disputes[o]: the threads whose dispute row of o is open
  outbox,       \* settlement_outbox: [st, att], st = "none" when there is no row
  lock,         \* lock[o]: the worker holding advisory lock settle:<o>
  moved,        \* moved[o]: the provider's money movements for o
  pc,           \* the statement each process executes next
  on,           \* on[p]: the order p works on
  seen,         \* seen[p]: the status p has read and will use
  raced         \* history: the orders whose promise about the money is void, see Escrow

tables   == <<order, payment, settlement, disputes, outbox>>
provider == <<moved, raced>>
procs    == <<pc, on, seen>>
vars     == <<tables, lock, provider, procs>>

OrderStatuses      == {"paid", "delivered", "confirmed", "settled", "disputed", "refunded"}
SettlementStatuses == {"none", "pending", "success", "reverted"}
OutboxStatuses     == {"none", "pending", "done", "failed"}
Movements          == {"transfer", "reversal", "refund"}

SettlePCs  == {"Enqueue", "SettlementState", "GetSystem", "CreateSettlement", "ExecuteSplit",
               "MarkSettlementSuccess", "GetSettled", "MarkSettled"}
WorkerPCs  == {"Lock", "MarkDone", "MarkRetry"}
DisputePCs == {"CreateDispute", "ToDisputed"}
RefundPCs  == {"RefundContext", "Reverse", "Refund", "MarkRefunded", "ResolveRefund", "ToRefunded"}
ReleasePCs == {"ResolveRelease", "ToConfirmed"}
PCs == {"idle"} \cup SettlePCs \cup WorkerPCs \cup DisputePCs \cup RefundPCs \cup ReleasePCs

Init ==
  /\ order      = [o \in Orders |-> "paid"]
  /\ payment    = [o \in Orders |-> "paid"]
  /\ settlement = [o \in Orders |-> "none"]
  /\ disputes   = [o \in Orders |-> {}]
  /\ outbox     = [o \in Orders |-> [st |-> "none", att |-> 0]]
  /\ lock       = [o \in Orders |-> NoWorker]
  /\ moved      = [o \in Orders |-> {}]
  /\ raced      = {}
  /\ pc         = [p \in Procs |-> "idle"]
  /\ on         \in [Procs -> Orders]
  /\ seen       = [p \in Procs |-> "none"]

-----------------------------------------------------------------------------
(***************************************************************************)
(* How processes move.                                                     *)
(***************************************************************************)
At(p, l)     == pc[p] = l
Goto(p, l)   == pc' = [pc EXCEPT ![p] = l] /\ UNCHANGED <<on, seen>>
Read(p, l, v) == /\ pc' = [pc EXCEPT ![p] = l]
                 /\ seen' = [seen EXCEPT ![p] = v]
                 /\ UNCHANGED on
Begin(p, o, l, v) == /\ At(p, "idle")
                     /\ pc'   = [pc   EXCEPT ![p] = l]
                     /\ on'   = [on   EXCEPT ![p] = o]
                     /\ seen' = [seen EXCEPT ![p] = v]

\* settleOnce returned nil or an error: a worker updates the job, a handler answers.
OnNil(p) == IF p \in Workers THEN "MarkDone"  ELSE "idle"
OnErr(p) == IF p \in Workers THEN "MarkRetry" ELSE "idle"

\* UPDATE orders SET status=to WHERE id=o AND status=from
Transition(o, from, to) == /\ order[o] = from
                           /\ order' = [order EXCEPT ![o] = to]

-----------------------------------------------------------------------------
(***************************************************************************)
(* The order's parties.                                                    *)
(***************************************************************************)
\* The buyer's first download request: MarkDelivered.
Deliver(o) == /\ Transition(o, "paid", "delivered")
              /\ UNCHANGED <<payment, settlement, disputes, outbox, lock, provider, procs>>

\* The buyer confirms; the handler then runs Settle inline.
ConfirmDelivery(t, o) == /\ Begin(t, o, "Enqueue", "none")
                         /\ Transition(o, "delivered", "confirmed")
                         /\ UNCHANGED <<payment, settlement, disputes, outbox, lock, provider>>

\* A party disputes: the status read here decides the transition made later.
Dispute(t, o) == /\ order[o] \in {"paid", "delivered", "confirmed"}
                 /\ Begin(t, o, "CreateDispute", order[o])
                 /\ UNCHANGED <<tables, lock, provider>>

CreateDispute(t) == /\ At(t, "CreateDispute")
                    /\ disputes' = [disputes EXCEPT ![on[t]] = @ \cup {t}]
                    /\ Goto(t, "ToDisputed")
                    /\ UNCHANGED <<order, payment, settlement, outbox, lock, provider>>

\* A settlement attempt that has checked the order and may still pay out, or
\* has paid out without recording it.
PastCheck(p)  == pc[p] \in {"CreateSettlement", "ExecuteSplit", "MarkSettlementSuccess"}
Unfinished(o) == \/ \E p \in Procs : on[p] = o /\ PastCheck(p)
                 \/ "transfer" \in moved[o] /\ settlement[o] = "pending"

ToDisputed(t) ==
  LET o == on[t] IN
  /\ At(t, "ToDisputed")
  /\ Goto(t, "idle")
  /\ \/ /\ Transition(o, seen[t], "disputed")
        /\ raced' = IF Unfinished(o) THEN raced \cup {o} ELSE raced
     \/ order[o] # seen[t] /\ UNCHANGED <<order, raced>>
  /\ UNCHANGED <<payment, settlement, disputes, outbox, lock, moved>>

-----------------------------------------------------------------------------
(***************************************************************************)
(* One settlement attempt (settleOnce), run inline by the handler that     *)
(* confirmed or released the order, or by a worker under the lock.         *)
(***************************************************************************)
Enqueue(t) == /\ At(t, "Enqueue")
              /\ outbox' = IF outbox[on[t]].st = "none"
                           THEN [outbox EXCEPT ![on[t]] = [st |-> "pending", att |-> 0]]
                           ELSE outbox
              /\ Goto(t, "SettlementState")
              /\ UNCHANGED <<order, payment, settlement, disputes, lock, provider>>

SettlementState(p) ==
  /\ At(p, "SettlementState")
  /\ IF settlement[on[p]] \in {"success", "reverted"}
     THEN Goto(p, OnNil(p))
     ELSE Read(p, "GetSystem", settlement[on[p]])
  /\ UNCHANGED <<tables, lock, provider>>

\* Mutants: the order is checked on the first attempt only; a settlement row found
\* is taken for an executed split.
GetSystemFirstOnly(p) ==
  /\ At(p, "GetSystem")
  /\ Goto(p, IF seen[p] # "none" THEN "ExecuteSplit"
             ELSE IF order[on[p]] # "confirmed" THEN OnErr(p) ELSE "CreateSettlement")
  /\ UNCHANGED <<tables, lock, provider>>
GetSystemTrustsRow(p) ==
  /\ At(p, "GetSystem")
  /\ Goto(p, IF order[on[p]] # "confirmed" THEN OnErr(p)
             ELSE IF seen[p] = "none" THEN "CreateSettlement" ELSE "MarkSettlementSuccess")
  /\ UNCHANGED <<tables, lock, provider>>

GetSystem(p) ==
  /\ At(p, "GetSystem")
  /\ Goto(p, IF order[on[p]] # "confirmed" THEN OnErr(p)
             ELSE IF seen[p] = "none" THEN "CreateSettlement" ELSE "ExecuteSplit")
  /\ UNCHANGED <<tables, lock, provider>>

\* A unique violation is not an error: the attempt goes on with the other's row.
CreateSettlement(p) ==
  /\ At(p, "CreateSettlement")
  /\ settlement' = IF settlement[on[p]] = "none"
                   THEN [settlement EXCEPT ![on[p]] = "pending"] ELSE settlement
  /\ Goto(p, "ExecuteSplit")
  /\ UNCHANGED <<order, payment, disputes, outbox, lock, provider>>

ExecuteSplit(p) == /\ At(p, "ExecuteSplit")
                   /\ moved' = [moved EXCEPT ![on[p]] = @ \cup {"transfer"}]
                   /\ Goto(p, "MarkSettlementSuccess")
                   /\ UNCHANGED <<tables, lock, raced>>

MarkSettlementSuccess(p) ==
  /\ At(p, "MarkSettlementSuccess")
  /\ settlement' = [settlement EXCEPT ![on[p]] = "success"]
  /\ Goto(p, "GetSettled")
  /\ UNCHANGED <<order, payment, disputes, outbox, lock, provider>>

\* MarkSettled first reads the order; when that read fails it goes on.
GetSettled(p) == /\ At(p, "GetSettled")
                 /\ \/ order[on[p]] = "settled" /\ Goto(p, OnNil(p))
                    \/ Goto(p, "MarkSettled")
                 /\ UNCHANGED <<tables, lock, provider>>

\* Mutant: the UPDATE lacks its AND status='confirmed'.
MarkSettledAlways(p) == /\ At(p, "MarkSettled")
                        /\ order' = [order EXCEPT ![on[p]] = "settled"]
                        /\ Goto(p, OnNil(p))
                        /\ UNCHANGED <<payment, settlement, disputes, outbox, lock, provider>>

MarkSettled(p) == /\ At(p, "MarkSettled")
                  /\ \/ Transition(on[p], "confirmed", "settled") /\ Goto(p, OnNil(p))
                     \/ order[on[p]] # "confirmed" /\ Goto(p, OnErr(p)) /\ UNCHANGED order
                  /\ UNCHANGED <<payment, settlement, disputes, outbox, lock, provider>>

SettleStep(p) == \/ SettlementState(p) \/ GetSystem(p) \/ CreateSettlement(p) \/ ExecuteSplit(p)
                 \/ MarkSettlementSuccess(p) \/ GetSettled(p) \/ MarkSettled(p)

-----------------------------------------------------------------------------
(***************************************************************************)
(* The outbox worker: it lists the due jobs, then takes each under its     *)
(* advisory lock without looking at the job again: a job listed in a batch *)
(* is taken however late.  Back-off is abstracted: a pending job may be    *)
(* due at any time.                                                        *)
(***************************************************************************)
DueOrders(w, o) == /\ outbox[o].st = "pending"
                   /\ Begin(w, o, "Lock", "none")
                   /\ UNCHANGED <<tables, lock, provider>>

\* Mutant: the result of the try-lock is ignored.
WithLockIgnored(w) == /\ At(w, "Lock")
                      /\ lock' = [lock EXCEPT ![on[w]] = w]
                      /\ Goto(w, "SettlementState")
                      /\ UNCHANGED <<tables, provider>>

WithLock(w) == /\ At(w, "Lock")
               /\ IF lock[on[w]] = NoWorker
                  THEN /\ lock' = [lock EXCEPT ![on[w]] = w]
                       /\ Goto(w, "SettlementState")
                  ELSE Goto(w, "idle") /\ UNCHANGED lock
               /\ UNCHANGED <<tables, provider>>

\* The advisory lock ends with the transaction that took it.
Unlock(w) == lock' = [o \in Orders |-> IF lock[o] = w THEN NoWorker ELSE lock[o]]

MarkDone(w) == /\ At(w, "MarkDone")
               /\ outbox' = [outbox EXCEPT ![on[w]].st = "done"]
               /\ Unlock(w)
               /\ Goto(w, "idle")
               /\ UNCHANGED <<order, payment, settlement, disputes, provider>>

MarkRetry(w) ==
  LET att == outbox[on[w]].att + 1 IN
  /\ At(w, "MarkRetry")
  /\ outbox' = [outbox EXCEPT ![on[w]] =
                  [st |-> IF att >= MaxSettleAttempts THEN "failed" ELSE "pending", att |-> att]]
  /\ Unlock(w)
  /\ Goto(w, "idle")
  /\ UNCHANGED <<order, payment, settlement, disputes, provider>>

\* Ops put a job that was given up back to work.
RetryOutbox(o) == /\ outbox[o].st = "failed"
                  /\ outbox' = [outbox EXCEPT ![o] = [st |-> "pending", att |-> 0]]
                  /\ UNCHANGED <<order, payment, settlement, disputes, lock, provider, procs>>

WorkerStep(w) == SettleStep(w) \/ WithLock(w) \/ MarkDone(w) \/ MarkRetry(w)

-----------------------------------------------------------------------------
(***************************************************************************)
(* Ops resolve a dispute (ResolveDispute): refund the buyer, or release.   *)
(***************************************************************************)
ResolveDispute(t, o) == /\ order[o] = "disputed"
                        /\ \/ Begin(t, o, "RefundContext", "none")
                           \/ Begin(t, o, "ResolveRelease", "none")
                        /\ UNCHANGED <<tables, lock, provider>>

\* The split to claw back is the one recorded as successful, if there is one.
RefundContext(t) ==
  /\ At(t, "RefundContext")
  /\ Read(t, IF settlement[on[t]] = "success" THEN "Reverse" ELSE "Refund", settlement[on[t]])
  /\ UNCHANGED <<tables, lock, provider>>

Reverse(t) == /\ At(t, "Reverse")
              /\ moved' = [moved EXCEPT ![on[t]] = @ \cup {"reversal"}]
              /\ Goto(t, "Refund")
              /\ UNCHANGED <<tables, lock, raced>>

Refund(t) == /\ At(t, "Refund")
             /\ moved' = [moved EXCEPT ![on[t]] = @ \cup {"refund"}]
             /\ Goto(t, "MarkRefunded")
             /\ UNCHANGED <<tables, lock, raced>>

MarkRefunded(t) ==
  /\ At(t, "MarkRefunded")
  /\ payment' = [payment EXCEPT ![on[t]] = "refunded"]
  /\ settlement' = IF settlement[on[t]] = "success"
                   THEN [settlement EXCEPT ![on[t]] = "reverted"] ELSE settlement
  /\ Goto(t, "ResolveRefund")
  /\ UNCHANGED <<order, disputes, outbox, lock, provider>>

CloseDisputes(t, from, to) == /\ At(t, from)
                              /\ disputes' = [disputes EXCEPT ![on[t]] = {}]
                              /\ Goto(t, to)
                              /\ UNCHANGED <<order, payment, settlement, outbox, lock, provider>>
ResolveRefund(t)  == CloseDisputes(t, "ResolveRefund", "ToRefunded")
ResolveRelease(t) == CloseDisputes(t, "ResolveRelease", "ToConfirmed")

\* No compute entitlement hangs on a download order: the revocation that follows
\* the transition changes nothing here.
ToRefunded(t) == /\ At(t, "ToRefunded")
                 /\ \/ Transition(on[t], "disputed", "refunded")
                    \/ order[on[t]] # "disputed" /\ UNCHANGED order
                 /\ Goto(t, "idle")
                 /\ UNCHANGED <<payment, settlement, disputes, outbox, lock, provider>>

\* Some refund of o has begun: money went back, or a handler is about to send it.
Refunding(o) == \/ moved[o] \cap {"reversal", "refund"} # {}
                \/ \E t \in Threads : on[t] = o /\ pc[t] \in RefundPCs

ToConfirmed(t) ==
  LET o == on[t] IN
  /\ At(t, "ToConfirmed")
  /\ \/ /\ Transition(o, "disputed", "confirmed")
        /\ raced' = IF Refunding(o) THEN raced \cup {o} ELSE raced
        /\ Goto(t, "Enqueue")
     \/ order[o] # "disputed" /\ Goto(t, "idle") /\ UNCHANGED <<order, raced>>
  /\ UNCHANGED <<payment, settlement, disputes, outbox, lock, moved>>

ThreadStep(t) == \/ CreateDispute(t) \/ ToDisputed(t)
                 \/ Enqueue(t) \/ SettleStep(t)
                 \/ RefundContext(t) \/ Reverse(t) \/ Refund(t) \/ MarkRefunded(t)
                 \/ ResolveRefund(t) \/ ToRefunded(t)
                 \/ ResolveRelease(t) \/ ToConfirmed(t)

-----------------------------------------------------------------------------
(***************************************************************************)
(* Faults.                                                                 *)
(***************************************************************************)
\* Mutant: the lock outlives its session.
CrashKeepsLock(p) == /\ pc[p] # "idle"
                     /\ Goto(p, "idle")
                     /\ UNCHANGED <<tables, lock, provider>>

\* The process dies or its request is cancelled: it goes no further.
Crash(p) == /\ pc[p] # "idle"
            /\ Goto(p, "idle")
            /\ Unlock(p)
            /\ UNCHANGED <<tables, provider>>

\* A call of a worker's attempt fails: the job is rescheduled.
CallFails(w) == /\ pc[w] \in SettlePCs
                /\ Goto(w, "MarkRetry")
                /\ UNCHANGED <<tables, lock, provider>>

Fault == (\E p \in Procs : Crash(p)) \/ (\E w \in Workers : CallFails(w))

Work == \/ \E o \in Orders : Deliver(o) \/ RetryOutbox(o)
        \/ \E t \in Threads : ThreadStep(t)
        \/ \E t \in Threads, o \in Orders : \/ ConfirmDelivery(t, o)
                                            \/ Dispute(t, o)
                                            \/ ResolveDispute(t, o)
        \/ \E w \in Workers : WorkerStep(w)
        \/ \E w \in Workers, o \in Orders : DueOrders(w, o)

Next == Work \/ Fault

Spec == Init /\ [][Next]_vars

(***************************************************************************)
(* Handlers and workers that run keep running, the ticker lists the oldest *)
(* due jobs first, so that none is passed over for ever, and from some     *)
(* point on no call fails and no process dies.  Nobody has to confirm,     *)
(* dispute, resolve or retry anything.                                     *)
(***************************************************************************)
Fairness == /\ \A t \in Threads : WF_vars(ThreadStep(t))
            /\ \A w \in Workers : WF_vars(WorkerStep(w))
            /\ \A w \in Workers, o \in Orders : SF_vars(DueOrders(w, o))
FaultsCease == <>[][Work]_vars

FairSpec == Spec /\ Fairness /\ FaultsCease

-----------------------------------------------------------------------------
(***************************************************************************)
(* Properties.                                                             *)
(***************************************************************************)
\* Every variable has its type.
TypeOK ==
  /\ order      \in [Orders -> OrderStatuses]
  /\ payment    \in [Orders -> {"paid", "refunded"}]
  /\ settlement \in [Orders -> SettlementStatuses]
  /\ disputes   \in [Orders -> SUBSET Threads]
  /\ outbox     \in [Orders -> [st : OutboxStatuses, att : Nat]]
  /\ lock       \in [Orders -> Workers \cup {NoWorker}]
  /\ moved      \in [Orders -> SUBSET Movements]
  /\ raced      \in SUBSET Orders
  /\ pc         \in [Procs -> PCs]
  /\ on         \in [Procs -> Orders]
  /\ seen       \in [Procs -> OrderStatuses \cup SettlementStatuses]

\* Where the money of o is, from the provider's movements.
SellerHas(o) == "transfer" \in moved[o] /\ "reversal" \notin moved[o]
BuyerHas(o)  == "refund" \in moved[o]
Holder(o) == IF SellerHas(o) THEN IF BuyerHas(o) THEN "both" ELSE "seller"
             ELSE IF BuyerHas(o) THEN "buyer" ELSE "escrow"

E == INSTANCE Escrow WITH status <- order, holder <- [o \in Orders |-> Holder(o)]

\* The settlement code implements the escrow promise: statuses move along the
\* state machine, and while no dispute or release overlaps an unfinished payout
\* or refund, the seller is paid only for a confirmed order, the buyer refunded
\* only for a disputed one, and settled and refunded orders moved their money.
ImplementsEscrow == E!Spec

\* While the promise stands, the money agrees with the order: never with both
\* parties, with the seller once settled, with the buyer once refunded.
MoneyFollowsOrder ==
  \A o \in Orders :
    o \notin raced => /\ ~(SellerHas(o) /\ BuyerHas(o))
                      /\ order[o] = "settled"  => SellerHas(o) /\ payment[o] = "paid"
                      /\ order[o] = "refunded" => BuyerHas(o) /\ payment[o] = "refunded"

\* The books never run ahead of the provider, raced or not: an order is settled,
\* a settlement booked or a job done only after the transfer; an order or a
\* payment is refunded only after the refund.
BooksFollowProvider ==
  \A o \in Orders :
    /\ order[o] = "settled"                       => "transfer" \in moved[o]
    /\ settlement[o] \in {"success", "reverted"} => "transfer" \in moved[o]
    /\ outbox[o].st = "done"                      => settlement[o] \in {"success", "reverted"}
    /\ payment[o] = "refunded"                    => "refund" \in moved[o]
    /\ order[o] = "refunded"                      => payment[o] = "refunded"

\* A booked clawback is real while the promise stands: the settlement is marked
\* reverted only with the transfer reversed and the buyer refunded.
RevertedIsReal ==
  \A o \in Orders : settlement[o] = "reverted" /\ o \notin raced
                      => {"reversal", "refund"} \subseteq moved[o]

\* The advisory lock keeps the workers apart: two never attempt the same order.
Attempting(w) == pc[w] \in SettlePCs \cup {"MarkDone", "MarkRetry"}
WorkersApart ==
  \A v, w \in Workers : Attempting(v) /\ Attempting(w) /\ on[v] = on[w] => v = w

\* Workers that listed a job before it was given up may each add one attempt,
\* never more: the attempts stay below the cap plus the number of workers.
AttemptsBounded ==
  \A o \in Orders : /\ outbox[o].att < MaxSettleAttempts + Cardinality(Workers)
                    /\ outbox[o].st = "failed" => outbox[o].att >= MaxSettleAttempts

\* A recorded job does not get stuck: it is done or given up, whatever happens
\* to its order and whichever worker dies with the lock.
JobFinishes ==
  \A o \in Orders : outbox[o].st = "pending" ~> outbox[o].st \in {"done", "failed"}

\* payment/service.go:159: a refund reverses the seller's transfer if the order
\* had already been paid out, so a refunded order leaves the seller nothing.
RefundClawsBack == \A o \in Orders : order[o] = "refunded" => ~SellerHas(o)

-----------------------------------------------------------------------------
(***************************************************************************)
(* The inductive invariant behind the safety properties above.             *)
(***************************************************************************)
Booked(o) == settlement[o] \in {"success", "reverted"}

\* What a process has established by the time it is at a statement, and what
\* follows for the books whatever races.
BooksInv ==
  /\ \A p \in Procs : LET o == on[p] IN
       /\ pc[p] = "GetSystem" /\ seen[p] # "none" => settlement[o] # "none"
       /\ pc[p] \in {"ExecuteSplit", "MarkSettlementSuccess"} => settlement[o] # "none"
       /\ pc[p] = "MarkSettlementSuccess" => "transfer" \in moved[o]
       /\ pc[p] \in {"GetSettled", "MarkSettled", "MarkDone"} => Booked(o)
       /\ pc[p] \in DisputePCs => seen[p] \in {"paid", "delivered", "confirmed"}
       /\ pc[p] = "MarkRefunded" => "refund" \in moved[o]
       /\ pc[p] \in {"ResolveRefund", "ToRefunded"} => payment[o] = "refunded"
  /\ \A o \in Orders :
       /\ "transfer" \in moved[o] => settlement[o] # "none"
       /\ Booked(o) => "transfer" \in moved[o]
       /\ order[o] = "settled" => Booked(o)
       /\ outbox[o].st = "done" => Booked(o)
       /\ payment[o] = "refunded" => "refund" \in moved[o]
       /\ order[o] = "refunded" => payment[o] = "refunded"

\* While the promise about o stands: payouts are unfinished only for a confirmed
\* or settled order, refunds are under way only for a disputed or refunded one,
\* and the buyer gets the money back only without it or with it clawed back.
StandingInv ==
  \A o \in Orders : o \notin raced =>
    /\ Unfinished(o) => order[o] \in {"confirmed", "settled"}
    /\ Refunding(o)  => order[o] \in {"disputed", "refunded"}
    /\ \A t \in Threads : on[t] = o /\ pc[t] = "Reverse" => Booked(o)
    /\ "refund" \in moved[o] \/ (\E t \in Threads : on[t] = o /\ pc[t] = "Refund")
         => ~SellerHas(o)
    /\ settlement[o] = "reverted" => {"reversal", "refund"} \subseteq moved[o]

\* A worker that is attempting an order holds its lock.
LockInv == \A w \in Workers : Attempting(w) => lock[on[w]] = w

\* The inductive invariant: a settlement attempt, a refund and a dispute meet at
\* an order only as the four parts allow.
IInv == TypeOK /\ BooksInv /\ StandingInv /\ LockInv

\* What the runs check at once: the inductive invariant, which a crash at any
\* statement keeps, and what it says of the books and of reversals.
SettlementInv == IInv /\ BooksFollowProvider /\ RevertedIsReal

\* The lock excludes, and stale listings add one attempt per worker at most.
WorkersInv == WorkersApart /\ AttemptsBounded
=============================================================================
