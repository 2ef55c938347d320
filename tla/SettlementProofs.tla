-------------------------- MODULE SettlementProofs --------------------------
(***************************************************************************)
(* Theorems about Settlement for every set of orders, handlers and workers *)
(* and every attempt limit.  IInv is inductive: one lemma per conjunct,    *)
(* with one step per action.  The safety properties follow from it, and it *)
(* carries the step-by-step proof that Settlement implements Escrow.       *)
(*                                                                         *)
(* Orders: the reports of what was bought and settled agree, for any       *)
(* users, prices and windows.  OrderBooksInv ties an order to what was on  *)
(* offer; the reports are sums over the orders, by their columns and by    *)
(* their days.                                                             *)
(***************************************************************************)
EXTENDS Settlement, Orders, Sums

\* Every step keeps every variable in its type.
LEMMA TypeStep == TypeOK /\ [Next]_vars => TypeOK'
<1> SUFFICES ASSUME TypeOK, [Next]_vars PROVE TypeOK'
  OBVIOUS
<1> USE ProcsAssumption, AttemptsAssumption DEF TypeOK, OrderStatuses, SettlementStatuses,
    OutboxStatuses, Movements, PCs, SettlePCs, WorkerPCs, DisputePCs, RefundPCs, ReleasePCs,
    Procs, vars, tables, provider, procs, At, Goto, Read, Begin, OnNil, OnErr, Transition,
    Unlock
<1>1. ASSUME NEW o \in Orders, Deliver(o) PROVE TypeOK'
  BY <1>1 DEF Deliver
<1>2. ASSUME NEW o \in Orders, RetryOutbox(o) PROVE TypeOK'
  BY <1>2 DEF RetryOutbox
<1>3. ASSUME NEW t \in Threads, NEW o \in Orders, ConfirmDelivery(t, o) PROVE TypeOK'
  BY <1>3 DEF ConfirmDelivery
<1>4. ASSUME NEW t \in Threads, NEW o \in Orders, Dispute(t, o) PROVE TypeOK'
  BY <1>4 DEF Dispute
<1>5. ASSUME NEW t \in Threads, NEW o \in Orders, ResolveDispute(t, o) PROVE TypeOK'
  <2>1. CASE Begin(t, o, "RefundContext", "none")
    BY <1>5, <2>1 DEF ResolveDispute
  <2>2. CASE Begin(t, o, "ResolveRelease", "none")
    BY <1>5, <2>2 DEF ResolveDispute
  <2> QED
    BY <1>5, <2>1, <2>2 DEF ResolveDispute
<1>6. ASSUME NEW t \in Threads, CreateDispute(t) PROVE TypeOK'
  BY <1>6 DEF CreateDispute
<1>7. ASSUME NEW t \in Threads, ToDisputed(t) PROVE TypeOK'
  BY <1>7 DEF ToDisputed
<1>8. ASSUME NEW t \in Threads, Enqueue(t) PROVE TypeOK'
  BY <1>8 DEF Enqueue
<1>9. ASSUME NEW t \in Threads, RefundContext(t) PROVE TypeOK'
  BY <1>9 DEF RefundContext
<1>10. ASSUME NEW t \in Threads, Reverse(t) PROVE TypeOK'
  BY <1>10 DEF Reverse
<1>11. ASSUME NEW t \in Threads, Refund(t) PROVE TypeOK'
  BY <1>11 DEF Refund
<1>12. ASSUME NEW t \in Threads, MarkRefunded(t) PROVE TypeOK'
  BY <1>12 DEF MarkRefunded
<1>13. ASSUME NEW t \in Threads, ResolveRefund(t) PROVE TypeOK'
  BY <1>13 DEF ResolveRefund, CloseDisputes
<1>14. ASSUME NEW t \in Threads, ToRefunded(t) PROVE TypeOK'
  BY SMTT(20), <1>14 DEF ToRefunded
<1>15. ASSUME NEW t \in Threads, ResolveRelease(t) PROVE TypeOK'
  BY <1>15 DEF ResolveRelease, CloseDisputes
<1>16. ASSUME NEW t \in Threads, ToConfirmed(t) PROVE TypeOK'
  <2>1. CASE order[on[t]] = "disputed"
    <3>1. /\ raced' \in {raced, raced \cup {on[t]}}
          /\ Goto(t, "Enqueue")
          /\ order' = [order EXCEPT ![on[t]] = "confirmed"]
      BY <1>16, <2>1 DEF ToConfirmed
    <3>2. UNCHANGED <<payment, settlement, disputes, outbox, lock, moved>>
      BY <1>16 DEF ToConfirmed
    <3> QED
      BY <3>1, <3>2
  <2>2. CASE order[on[t]] # "disputed"
    BY <1>16, <2>2 DEF ToConfirmed
  <2> QED
    BY <1>16, <2>1, <2>2 DEF ToConfirmed
<1>17. ASSUME NEW p \in Procs, SettlementState(p) PROVE TypeOK'
  BY SMTT(20), <1>17 DEF SettlementState
<1>18. ASSUME NEW p \in Procs, GetSystem(p) PROVE TypeOK'
  BY <1>18 DEF GetSystem
<1>19. ASSUME NEW p \in Procs, CreateSettlement(p) PROVE TypeOK'
  BY <1>19 DEF CreateSettlement
<1>20. ASSUME NEW p \in Procs, ExecuteSplit(p) PROVE TypeOK'
  BY <1>20 DEF ExecuteSplit
<1>21. ASSUME NEW p \in Procs, MarkSettlementSuccess(p) PROVE TypeOK'
  BY <1>21 DEF MarkSettlementSuccess
<1>22. ASSUME NEW p \in Procs, GetSettled(p) PROVE TypeOK'
  BY <1>22 DEF GetSettled
<1>23. ASSUME NEW p \in Procs, MarkSettled(p) PROVE TypeOK'
  BY <1>23 DEF MarkSettled
<1>24. ASSUME NEW w \in Workers, NEW o \in Orders, DueOrders(w, o) PROVE TypeOK'
  BY <1>24 DEF DueOrders
<1>25. ASSUME NEW w \in Workers, WithLock(w) PROVE TypeOK'
  <2>1. CASE lock[on[w]] = NoWorker
    <3>1. /\ lock' = [lock EXCEPT ![on[w]] = w]
          /\ Goto(w, "SettlementState")
          /\ UNCHANGED <<tables, provider>>
      BY <1>25, <2>1 DEF WithLock
    <3> QED
      BY <3>1
  <2>2. CASE lock[on[w]] # NoWorker
    BY <1>25, <2>2 DEF WithLock
  <2> QED
    BY <1>25, <2>1, <2>2 DEF WithLock
<1>26. ASSUME NEW w \in Workers, MarkDone(w) PROVE TypeOK'
  BY <1>26 DEF MarkDone
<1>27. ASSUME NEW w \in Workers, MarkRetry(w) PROVE TypeOK'
  BY <1>27 DEF MarkRetry
<1>28. ASSUME NEW w \in Workers, CallFails(w) PROVE TypeOK'
  BY <1>28 DEF CallFails
<1>29. ASSUME NEW p \in Procs, Crash(p) PROVE TypeOK'
  BY <1>29 DEF Crash
<1>30. CASE UNCHANGED vars
  BY <1>30 DEF TypeOK
<1> QED
  BY <1>1, <1>2, <1>3, <1>4, <1>5, <1>6, <1>7, <1>8, <1>9, <1>10, <1>11, <1>12, <1>13,
      <1>14, <1>15, <1>16, <1>17, <1>18, <1>19, <1>20, <1>21, <1>22, <1>23, <1>24, <1>25,
      <1>26, <1>27, <1>28, <1>29, <1>30 DEF Next, Work, ThreadStep, WorkerStep, SettleStep, Fault

-----------------------------------------------------------------------------
\* Every step keeps the books consistent: what a process has established when it
\* reaches a statement still holds there, whatever the others did.
LEMMA BooksStep == TypeOK /\ BooksInv /\ [Next]_vars => BooksInv'
<1> SUFFICES ASSUME TypeOK, BooksInv, [Next]_vars PROVE BooksInv'
  OBVIOUS
<1> USE ProcsAssumption DEF TypeOK, BooksInv, Booked, Procs, SettlementStatuses, vars,
    tables, provider, procs, At, Goto, Read, Begin, OnNil, OnErr, Transition
<1> USE DEF DisputePCs
<1>1. ASSUME NEW o \in Orders, Deliver(o) PROVE BooksInv'
  BY <1>1 DEF Deliver
<1>2. ASSUME NEW o \in Orders, RetryOutbox(o) PROVE BooksInv'
  BY <1>2 DEF RetryOutbox
<1>3. ASSUME NEW t \in Threads, NEW o \in Orders, ConfirmDelivery(t, o) PROVE BooksInv'
  BY <1>3 DEF ConfirmDelivery
<1>4. ASSUME NEW t \in Threads, NEW o \in Orders, Dispute(t, o) PROVE BooksInv'
  BY <1>4 DEF Dispute, DisputePCs
<1>5. ASSUME NEW t \in Threads, NEW o \in Orders, ResolveDispute(t, o) PROVE BooksInv'
  BY <1>5 DEF ResolveDispute
<1>6. ASSUME NEW t \in Threads, CreateDispute(t) PROVE BooksInv'
  BY <1>6 DEF CreateDispute
<1>7. ASSUME NEW t \in Threads, ToDisputed(t) PROVE BooksInv'
  BY <1>7 DEF ToDisputed
<1>8. ASSUME NEW t \in Threads, Enqueue(t) PROVE BooksInv'
  BY <1>8 DEF Enqueue
<1>9. ASSUME NEW t \in Threads, RefundContext(t) PROVE BooksInv'
  BY <1>9 DEF RefundContext
<1>10. ASSUME NEW t \in Threads, Reverse(t) PROVE BooksInv'
  BY <1>10 DEF Reverse
<1>11. ASSUME NEW t \in Threads, Refund(t) PROVE BooksInv'
  BY <1>11 DEF Refund
<1>12. ASSUME NEW t \in Threads, MarkRefunded(t) PROVE BooksInv'
  BY <1>12 DEF MarkRefunded
<1>13. ASSUME NEW t \in Threads, ResolveRefund(t) PROVE BooksInv'
  BY <1>13 DEF ResolveRefund, CloseDisputes
<1>14. ASSUME NEW t \in Threads, ToRefunded(t) PROVE BooksInv'
  BY <1>14 DEF ToRefunded
<1>15. ASSUME NEW t \in Threads, ResolveRelease(t) PROVE BooksInv'
  BY <1>15 DEF ResolveRelease, CloseDisputes
<1>16. ASSUME NEW t \in Threads, ToConfirmed(t) PROVE BooksInv'
  BY <1>16 DEF ToConfirmed
<1>17. ASSUME NEW p \in Procs, SettlementState(p) PROVE BooksInv'
  BY <1>17 DEF SettlementState
<1>18. ASSUME NEW p \in Procs, GetSystem(p) PROVE BooksInv'
  BY <1>18 DEF GetSystem
<1>19. ASSUME NEW p \in Procs, CreateSettlement(p) PROVE BooksInv'
  BY <1>19 DEF CreateSettlement
<1>20. ASSUME NEW p \in Procs, ExecuteSplit(p) PROVE BooksInv'
  BY <1>20 DEF ExecuteSplit
<1>21. ASSUME NEW p \in Procs, MarkSettlementSuccess(p) PROVE BooksInv'
  BY <1>21 DEF MarkSettlementSuccess
<1>22. ASSUME NEW p \in Procs, GetSettled(p) PROVE BooksInv'
  BY <1>22 DEF GetSettled
<1>23. ASSUME NEW p \in Procs, MarkSettled(p) PROVE BooksInv'
  BY <1>23 DEF MarkSettled
<1>24. ASSUME NEW w \in Workers, NEW o \in Orders, DueOrders(w, o) PROVE BooksInv'
  BY <1>24 DEF DueOrders
<1>25. ASSUME NEW w \in Workers, WithLock(w) PROVE BooksInv'
  BY <1>25 DEF WithLock
<1>26. ASSUME NEW w \in Workers, MarkDone(w) PROVE BooksInv'
  BY <1>26 DEF MarkDone
<1>27. ASSUME NEW w \in Workers, MarkRetry(w) PROVE BooksInv'
  BY <1>27 DEF MarkRetry
<1>28. ASSUME NEW w \in Workers, CallFails(w) PROVE BooksInv'
  BY <1>28 DEF CallFails, SettlePCs
<1>29. ASSUME NEW p \in Procs, Crash(p) PROVE BooksInv'
  BY <1>29 DEF Crash
<1>30. CASE UNCHANGED vars
  BY <1>30 DEF TypeOK
<1> QED
  BY <1>1, <1>2, <1>3, <1>4, <1>5, <1>6, <1>7, <1>8, <1>9, <1>10, <1>11, <1>12, <1>13,
      <1>14, <1>15, <1>16, <1>17, <1>18, <1>19, <1>20, <1>21, <1>22, <1>23, <1>24, <1>25,
      <1>26, <1>27, <1>28, <1>29, <1>30 DEF Next, Work, ThreadStep, WorkerStep, SettleStep, Fault

-----------------------------------------------------------------------------
\* Every step keeps the lock with the worker that is attempting the order.
LEMMA LockStep == TypeOK /\ LockInv /\ [Next]_vars => LockInv'
<1> SUFFICES ASSUME TypeOK, LockInv, [Next]_vars PROVE LockInv'
  OBVIOUS
<1> USE ProcsAssumption DEF TypeOK, LockInv, Attempting, Procs, vars, tables, provider,
    procs, At, Goto, Read, Begin, OnNil, OnErr, Transition, Unlock, SettlePCs
<1>1. ASSUME NEW o \in Orders, Deliver(o) PROVE LockInv'
  BY <1>1 DEF Deliver
<1>2. ASSUME NEW o \in Orders, RetryOutbox(o) PROVE LockInv'
  BY <1>2 DEF RetryOutbox
<1>3. ASSUME NEW t \in Threads, NEW o \in Orders, ConfirmDelivery(t, o) PROVE LockInv'
  BY <1>3 DEF ConfirmDelivery
<1>4. ASSUME NEW t \in Threads, NEW o \in Orders, Dispute(t, o) PROVE LockInv'
  BY <1>4 DEF Dispute
<1>5. ASSUME NEW t \in Threads, NEW o \in Orders, ResolveDispute(t, o) PROVE LockInv'
  BY <1>5 DEF ResolveDispute
<1>6. ASSUME NEW t \in Threads, CreateDispute(t) PROVE LockInv'
  BY <1>6 DEF CreateDispute
<1>7. ASSUME NEW t \in Threads, ToDisputed(t) PROVE LockInv'
  BY <1>7 DEF ToDisputed
<1>8. ASSUME NEW t \in Threads, Enqueue(t) PROVE LockInv'
  BY <1>8 DEF Enqueue
<1>9. ASSUME NEW t \in Threads, RefundContext(t) PROVE LockInv'
  BY <1>9 DEF RefundContext
<1>10. ASSUME NEW t \in Threads, Reverse(t) PROVE LockInv'
  BY <1>10 DEF Reverse
<1>11. ASSUME NEW t \in Threads, Refund(t) PROVE LockInv'
  BY <1>11 DEF Refund
<1>12. ASSUME NEW t \in Threads, MarkRefunded(t) PROVE LockInv'
  BY <1>12 DEF MarkRefunded
<1>13. ASSUME NEW t \in Threads, ResolveRefund(t) PROVE LockInv'
  BY <1>13 DEF ResolveRefund, CloseDisputes
<1>14. ASSUME NEW t \in Threads, ToRefunded(t) PROVE LockInv'
  BY <1>14 DEF ToRefunded
<1>15. ASSUME NEW t \in Threads, ResolveRelease(t) PROVE LockInv'
  BY <1>15 DEF ResolveRelease, CloseDisputes
<1>16. ASSUME NEW t \in Threads, ToConfirmed(t) PROVE LockInv'
  BY <1>16 DEF ToConfirmed
<1>17. ASSUME NEW p \in Procs, SettlementState(p) PROVE LockInv'
  BY <1>17 DEF SettlementState
<1>18. ASSUME NEW p \in Procs, GetSystem(p) PROVE LockInv'
  BY <1>18 DEF GetSystem
<1>19. ASSUME NEW p \in Procs, CreateSettlement(p) PROVE LockInv'
  BY <1>19 DEF CreateSettlement
<1>20. ASSUME NEW p \in Procs, ExecuteSplit(p) PROVE LockInv'
  BY <1>20 DEF ExecuteSplit
<1>21. ASSUME NEW p \in Procs, MarkSettlementSuccess(p) PROVE LockInv'
  BY <1>21 DEF MarkSettlementSuccess
<1>22. ASSUME NEW p \in Procs, GetSettled(p) PROVE LockInv'
  BY <1>22 DEF GetSettled
<1>23. ASSUME NEW p \in Procs, MarkSettled(p) PROVE LockInv'
  BY <1>23 DEF MarkSettled
<1>24. ASSUME NEW w \in Workers, NEW o \in Orders, DueOrders(w, o) PROVE LockInv'
  BY <1>24 DEF DueOrders
<1>25. ASSUME NEW w \in Workers, WithLock(w) PROVE LockInv'
  BY <1>25 DEF WithLock
<1>26. ASSUME NEW w \in Workers, MarkDone(w) PROVE LockInv'
  BY <1>26 DEF MarkDone
<1>27. ASSUME NEW w \in Workers, MarkRetry(w) PROVE LockInv'
  BY <1>27 DEF MarkRetry
<1>28. ASSUME NEW w \in Workers, CallFails(w) PROVE LockInv'
  BY <1>28 DEF CallFails
<1>29. ASSUME NEW p \in Procs, Crash(p) PROVE LockInv'
  BY <1>29 DEF Crash
<1>30. CASE UNCHANGED vars
  BY <1>30 DEF TypeOK
<1> QED
  BY <1>1, <1>2, <1>3, <1>4, <1>5, <1>6, <1>7, <1>8, <1>9, <1>10, <1>11, <1>12, <1>13,
      <1>14, <1>15, <1>16, <1>17, <1>18, <1>19, <1>20, <1>21, <1>22, <1>23, <1>24, <1>25,
      <1>26, <1>27, <1>28, <1>29, <1>30 DEF Next, Work, ThreadStep, WorkerStep, SettleStep, Fault

-----------------------------------------------------------------------------
\* Every step keeps unfinished payouts and refunds to the orders they belong to.
LEMMA StandingStep == TypeOK /\ BooksInv /\ StandingInv /\ [Next]_vars => StandingInv'
<1> SUFFICES ASSUME TypeOK, BooksInv, StandingInv, [Next]_vars PROVE StandingInv'
  OBVIOUS
<1> USE ProcsAssumption DEF TypeOK, BooksInv, StandingInv, Booked, Unfinished, Refunding,
    PastCheck, SellerHas, Procs, vars, tables, provider, procs, At, Goto, Read, Begin,
    OnNil, OnErr, Transition, SettlementStatuses, RefundPCs
<1>1. ASSUME NEW o \in Orders, Deliver(o) PROVE StandingInv'
  BY <1>1 DEF Deliver
<1>2. ASSUME NEW o \in Orders, RetryOutbox(o) PROVE StandingInv'
  BY <1>2 DEF RetryOutbox
<1>3. ASSUME NEW t \in Threads, NEW o \in Orders, ConfirmDelivery(t, o) PROVE StandingInv'
  BY <1>3 DEF ConfirmDelivery
<1>4. ASSUME NEW t \in Threads, NEW o \in Orders, Dispute(t, o) PROVE StandingInv'
  BY <1>4 DEF Dispute
<1>5. ASSUME NEW t \in Threads, NEW o \in Orders, ResolveDispute(t, o) PROVE StandingInv'
  <2>1. CASE Begin(t, o, "RefundContext", "none")
    BY <1>5, <2>1 DEF ResolveDispute
  <2>2. CASE Begin(t, o, "ResolveRelease", "none")
    BY <1>5, <2>2 DEF ResolveDispute
  <2> QED
    BY <1>5, <2>1, <2>2 DEF ResolveDispute
<1>6. ASSUME NEW t \in Threads, CreateDispute(t) PROVE StandingInv'
  BY <1>6 DEF CreateDispute
<1>7. ASSUME NEW t \in Threads, ToDisputed(t) PROVE StandingInv'
  BY <1>7 DEF ToDisputed
<1>8. ASSUME NEW t \in Threads, Enqueue(t) PROVE StandingInv'
  BY <1>8 DEF Enqueue
<1>9. ASSUME NEW t \in Threads, RefundContext(t) PROVE StandingInv'
  BY <1>9 DEF RefundContext
<1>10. ASSUME NEW t \in Threads, Reverse(t) PROVE StandingInv'
  BY <1>10 DEF Reverse
<1>11. ASSUME NEW t \in Threads, Refund(t) PROVE StandingInv'
  BY <1>11 DEF Refund
<1>12. ASSUME NEW t \in Threads, MarkRefunded(t) PROVE StandingInv'
  BY <1>12 DEF MarkRefunded
<1>13. ASSUME NEW t \in Threads, ResolveRefund(t) PROVE StandingInv'
  BY <1>13 DEF ResolveRefund, CloseDisputes
<1>14. ASSUME NEW t \in Threads, ToRefunded(t) PROVE StandingInv'
  BY <1>14 DEF ToRefunded
<1>15. ASSUME NEW t \in Threads, ResolveRelease(t) PROVE StandingInv'
  BY <1>15 DEF ResolveRelease, CloseDisputes
<1>16. ASSUME NEW t \in Threads, ToConfirmed(t) PROVE StandingInv'
  BY <1>16 DEF ToConfirmed
<1>17. ASSUME NEW p \in Procs, SettlementState(p) PROVE StandingInv'
  BY <1>17 DEF SettlementState
<1>18. ASSUME NEW p \in Procs, GetSystem(p) PROVE StandingInv'
  BY <1>18 DEF GetSystem
<1>19. ASSUME NEW p \in Procs, CreateSettlement(p) PROVE StandingInv'
  BY <1>19 DEF CreateSettlement
<1>20. ASSUME NEW p \in Procs, ExecuteSplit(p) PROVE StandingInv'
  BY <1>20 DEF ExecuteSplit
<1>21. ASSUME NEW p \in Procs, MarkSettlementSuccess(p) PROVE StandingInv'
  BY <1>21 DEF MarkSettlementSuccess
<1>22. ASSUME NEW p \in Procs, GetSettled(p) PROVE StandingInv'
  BY <1>22 DEF GetSettled
<1>23. ASSUME NEW p \in Procs, MarkSettled(p) PROVE StandingInv'
  BY <1>23 DEF MarkSettled
<1>24. ASSUME NEW w \in Workers, NEW o \in Orders, DueOrders(w, o) PROVE StandingInv'
  BY <1>24 DEF DueOrders
<1>25. ASSUME NEW w \in Workers, WithLock(w) PROVE StandingInv'
  BY <1>25 DEF WithLock
<1>26. ASSUME NEW w \in Workers, MarkDone(w) PROVE StandingInv'
  BY <1>26 DEF MarkDone
<1>27. ASSUME NEW w \in Workers, MarkRetry(w) PROVE StandingInv'
  BY <1>27 DEF MarkRetry
<1>28. ASSUME NEW w \in Workers, CallFails(w) PROVE StandingInv'
  BY <1>28 DEF CallFails
<1>29. ASSUME NEW p \in Procs, Crash(p) PROVE StandingInv'
  BY <1>29 DEF Crash
<1>30. CASE UNCHANGED vars
  BY <1>30 DEF TypeOK
<1> QED
  BY <1>1, <1>2, <1>3, <1>4, <1>5, <1>6, <1>7, <1>8, <1>9, <1>10, <1>11, <1>12, <1>13,
      <1>14, <1>15, <1>16, <1>17, <1>18, <1>19, <1>20, <1>21, <1>22, <1>23, <1>24, <1>25,
      <1>26, <1>27, <1>28, <1>29, <1>30 DEF Next, Work, ThreadStep, WorkerStep, SettleStep, Fault

-----------------------------------------------------------------------------
(***************************************************************************)
(* The invariants.                                                         *)
(***************************************************************************)
\* Nothing is under way at the start.
LEMMA InitIInv == Init => IInv
  BY ProcsAssumption DEF Init, IInv, TypeOK, BooksInv, StandingInv, LockInv, OrderStatuses,
     SettlementStatuses, OutboxStatuses, PCs, Booked, Unfinished, Refunding, PastCheck, SellerHas,
     Attempting, SettlePCs, DisputePCs, RefundPCs, Procs

\* The four lemmas together.
LEMMA NextIInv == IInv /\ [Next]_vars => IInv'
  BY TypeStep, BooksStep, LockStep, StandingStep DEF IInv

\* IInv holds in every reachable state: an order meets settlement attempts,
\* refunds and disputes only in the combinations it names.
THEOREM Invariance == Spec => []IInv
<1>1. Init => IInv
  BY InitIInv
<1>2. IInv /\ [Next]_vars => IInv'
  BY NextIInv
<1> QED
  BY <1>1, <1>2, PTL DEF Spec

\* Every variable keeps its type.
THEOREM TypeCorrect == Spec => []TypeOK
<1>1. IInv => TypeOK
  BY DEF IInv
<1> QED
  BY <1>1, Invariance, PTL

\* The books never run ahead of the provider (settleOnce, MarkRefunded).
THEOREM BooksCorrect == Spec => []BooksFollowProvider
<1>1. IInv => BooksFollowProvider
  BY DEF IInv, BooksInv, Booked, BooksFollowProvider
<1> QED
  BY <1>1, Invariance, PTL

\* An order whose disputes and releases overlap no unfinished payout or refund is
\* paid to one party only, the one its status names.
THEOREM MoneyCorrect == Spec => []MoneyFollowsOrder
<1>1. IInv => MoneyFollowsOrder
  <2> SUFFICES ASSUME IInv, NEW o \in Orders, o \notin raced
               PROVE  /\ ~(SellerHas(o) /\ BuyerHas(o))
                      /\ order[o] = "settled"  => SellerHas(o) /\ payment[o] = "paid"
                      /\ order[o] = "refunded" => BuyerHas(o) /\ payment[o] = "refunded"
    BY DEF MoneyFollowsOrder
  <2>1. ~(SellerHas(o) /\ BuyerHas(o))
    BY DEF IInv, StandingInv, BuyerHas
  <2>2. order[o] = "settled" => SellerHas(o) /\ payment[o] = "paid"
    BY DEF IInv, TypeOK, BooksInv, StandingInv, Refunding, SellerHas
  <2>3. order[o] = "refunded" => BuyerHas(o) /\ payment[o] = "refunded"
    BY DEF IInv, BooksInv, BuyerHas
  <2> QED
    BY <2>1, <2>2, <2>3
<1> QED
  BY <1>1, Invariance, PTL

\* A settlement booked as reverted was reversed, while the promise stands.
THEOREM RevertedCorrect == Spec => []RevertedIsReal
<1>1. IInv => RevertedIsReal
  BY DEF IInv, StandingInv, RevertedIsReal
<1> QED
  BY <1>1, Invariance, PTL

\* The advisory lock keeps two workers from attempting one order.
THEOREM MutualExclusion == Spec => []WorkersApart
<1>1. IInv => WorkersApart
  BY DEF IInv, LockInv, WorkersApart
<1> QED
  BY <1>1, Invariance, PTL

\* payment/service.go settleOnce, pg_repo.go: what the books, the settlements and the
\* processes between two statements say holds together, for any orders and workers.
THEOREM SettlementCorrect == Spec => []SettlementInv
<1> QED
  BY Invariance, BooksCorrect, RevertedCorrect, PTL DEF SettlementInv

-----------------------------------------------------------------------------
(***************************************************************************)
(* The attempts of the outbox: a job past its limit can only be tried by   *)
(* the workers that listed it before, and each tries it once.              *)
(***************************************************************************)
\* The workers that listed o and are not through with it.
Listed(o) == {w \in Workers : pc[w] # "idle" /\ on[w] = o}

\* What the rows' states say of their attempts, and how many may still be added.
AttemptsInv ==
  \A o \in Orders :
    /\ outbox[o].st = "failed"  => outbox[o].att >= MaxSettleAttempts
    /\ outbox[o].st = "pending" => outbox[o].att < MaxSettleAttempts
    /\ \/ outbox[o].att < MaxSettleAttempts
       \/ outbox[o].att + Cardinality(Listed(o)) < MaxSettleAttempts + Cardinality(Workers)

\* The workers, and those that listed an order, are finitely many.
LEMMA ListedFinite ==
  /\ Cardinality(Workers) \in Nat
  /\ \A o : IsFiniteSet(Listed(o)) /\ Cardinality(Listed(o)) \in Nat
  BY WorkersAssumption, FS_Subset, FS_CardinalityType DEF Listed

\* A step that lists nothing and adds no attempt keeps it.
LEMMA AttemptsKept ==
  ASSUME TypeOK, AttemptsInv,
         \A o \in Orders : /\ Listed(o)' \subseteq Listed(o)
                           /\ \/ outbox'[o] = outbox[o]
                              \/ outbox'[o].st = "done" /\ outbox'[o].att = outbox[o].att
                              \/ outbox'[o].st = "pending" /\ outbox'[o].att = 0
  PROVE  AttemptsInv'
<1>1. \A o \in Orders : Cardinality(Listed(o)') <= Cardinality(Listed(o)) /\ Cardinality(Listed(o)') \in Nat
  BY ListedFinite, FS_Subset, FS_CardinalityType
<1> QED
  BY <1>1, ListedFinite, AttemptsAssumption DEF AttemptsInv, TypeOK

\* Every step keeps it.
LEMMA AttemptsStep == TypeOK /\ AttemptsInv /\ [Next]_vars => AttemptsInv'
<1> SUFFICES ASSUME TypeOK, AttemptsInv, [Next]_vars PROVE AttemptsInv'
  OBVIOUS
<1> USE ProcsAssumption, AttemptsAssumption DEF At, Goto, Read, Begin, tables, provider, procs
<1>1. ASSUME NEW w \in Workers, MarkRetry(w) PROVE AttemptsInv'
  <2> SUFFICES ASSUME NEW o \in Orders
               PROVE  /\ outbox'[o].st = "failed"  => outbox'[o].att >= MaxSettleAttempts
                      /\ outbox'[o].st = "pending" => outbox'[o].att < MaxSettleAttempts
                      /\ \/ outbox'[o].att < MaxSettleAttempts
                         \/ outbox'[o].att + Cardinality(Listed(o)')
                              < MaxSettleAttempts + Cardinality(Workers)
    BY DEF AttemptsInv
  <2>1. outbox[o].att \in Nat
    BY DEF TypeOK
  <2>2. CASE o = on[w]
    <3>1. /\ outbox'[o].att = outbox[o].att + 1
          /\ outbox'[o].st = IF outbox[o].att + 1 >= MaxSettleAttempts THEN "failed" ELSE "pending"
      BY <1>1, <2>2 DEF MarkRetry, TypeOK
    <3>2. w \in Listed(o) /\ Listed(o)' \subseteq Listed(o) \ {w} /\ Listed(o)' \subseteq Workers \ {w}
      BY <1>1, <2>2 DEF MarkRetry, Listed, TypeOK, Procs
    <3>3. /\ IsFiniteSet(Listed(o) \ {w}) /\ Cardinality(Listed(o) \ {w}) = Cardinality(Listed(o)) - 1
          /\ IsFiniteSet(Workers \ {w})   /\ Cardinality(Workers \ {w}) = Cardinality(Workers) - 1
      BY <3>2, ListedFinite, WorkersAssumption, FS_RemoveElement
    <3>4. /\ Cardinality(Listed(o)') <= Cardinality(Listed(o) \ {w})
          /\ Cardinality(Listed(o)') <= Cardinality(Workers \ {w})
          /\ Cardinality(Listed(o)') \in Nat
      BY <3>2, <3>3, FS_Subset, FS_CardinalityType
    <3> QED
      BY <2>1, <3>1, <3>3, <3>4, ListedFinite DEF AttemptsInv
  <2>3. CASE o # on[w]
    <3>1. outbox'[o] = outbox[o] /\ Listed(o)' = Listed(o)
      BY <1>1, <2>3 DEF MarkRetry, Listed, TypeOK, Procs
    <3> QED
      BY <3>1 DEF AttemptsInv
  <2> QED
    BY <2>2, <2>3
<1>2. ASSUME NEW w \in Workers, NEW o \in Orders, DueOrders(w, o) PROVE AttemptsInv'
  <2>1. UNCHANGED outbox /\ outbox[o].st = "pending"
    BY <1>2 DEF DueOrders
  <2>2. \A x \in Orders : x # o => Listed(x)' = Listed(x)
    BY <1>2 DEF DueOrders, Listed, TypeOK, Procs
  <2> QED
    BY <2>1, <2>2 DEF AttemptsInv
<1>3. ASSUME NEW w \in Workers, MarkDone(w) PROVE AttemptsInv'
  <2>1. \A o \in Orders : /\ Listed(o)' \subseteq Listed(o)
                          /\ \/ outbox'[o] = outbox[o]
                             \/ outbox'[o].st = "done" /\ outbox'[o].att = outbox[o].att
    BY <1>3 DEF MarkDone, Listed, TypeOK, Procs
  <2> QED
    BY <2>1, AttemptsKept
<1>4. ASSUME NEW o \in Orders, RetryOutbox(o) PROVE AttemptsInv'
  <2>1. \A x \in Orders : /\ Listed(x)' \subseteq Listed(x)
                          /\ \/ outbox'[x] = outbox[x]
                             \/ outbox'[x].st = "pending" /\ outbox'[x].att = 0
    BY <1>4 DEF RetryOutbox, Listed, TypeOK
  <2> QED
    BY <2>1, AttemptsKept
<1>5. ASSUME NEW t \in Threads, Enqueue(t) PROVE AttemptsInv'
  <2>1. \A x \in Orders : \/ outbox'[x] = outbox[x]
                          \/ outbox'[x].st = "pending" /\ outbox'[x].att = 0
    BY <1>5 DEF Enqueue, TypeOK
  <2>2. \A x \in Orders : Listed(x)' \subseteq Listed(x)
    BY <1>5 DEF Enqueue, Listed, TypeOK, Procs
  <2> QED
    BY <2>1, <2>2, AttemptsKept
<1>6. ASSUME NEW t \in Threads,
             \/ CreateDispute(t) \/ ToDisputed(t) \/ RefundContext(t) \/ Reverse(t) \/ Refund(t)
             \/ MarkRefunded(t) \/ ResolveRefund(t) \/ ToRefunded(t) \/ ResolveRelease(t) \/ ToConfirmed(t)
             \/ \E o \in Orders : ConfirmDelivery(t, o) \/ Dispute(t, o) \/ ResolveDispute(t, o)
      PROVE  AttemptsInv'
  <2>1. UNCHANGED outbox
    BY <1>6 DEF CreateDispute, ToDisputed, RefundContext, Reverse, Refund, MarkRefunded, ResolveRefund,
                CloseDisputes, ToRefunded, ResolveRelease, ToConfirmed, ConfirmDelivery, Dispute,
                ResolveDispute
  <2>2. \A w \in Workers : pc'[w] = pc[w] /\ on'[w] = on[w]
    BY <1>6 DEF CreateDispute, ToDisputed, RefundContext, Reverse, Refund, MarkRefunded, ResolveRefund,
                CloseDisputes, ToRefunded, ResolveRelease, ToConfirmed, ConfirmDelivery, Dispute,
                ResolveDispute, TypeOK, Procs
  <2> QED
    BY <2>1, <2>2, AttemptsKept DEF Listed
<1>7. ASSUME NEW p \in Procs, SettleStep(p) \/ Crash(p) PROVE AttemptsInv'
  <2>1. UNCHANGED <<outbox, on>> /\ pc[p] # "idle" /\ \A w \in Procs : w # p => pc'[w] = pc[w]
    BY <1>7 DEF SettleStep, SettlementState, GetSystem, CreateSettlement, ExecuteSplit,
                MarkSettlementSuccess, GetSettled, MarkSettled, Crash, TypeOK
  <2>2. \A x \in Orders : Listed(x)' \subseteq Listed(x)
    BY <2>1 DEF Listed, Procs
  <2> QED
    BY <2>1, <2>2, AttemptsKept
<1>8. ASSUME NEW w \in Workers, WithLock(w) \/ CallFails(w) PROVE AttemptsInv'
  <2>1. UNCHANGED <<outbox, on>> /\ pc[w] # "idle" /\ \A v \in Procs : v # w => pc'[v] = pc[v]
    BY <1>8 DEF WithLock, CallFails, SettlePCs, TypeOK, Procs
  <2>2. \A x \in Orders : Listed(x)' \subseteq Listed(x)
    BY <2>1 DEF Listed, Procs
  <2> QED
    BY <2>1, <2>2, AttemptsKept
<1>9. ASSUME UNCHANGED vars \/ \E o \in Orders : Deliver(o) PROVE AttemptsInv'
  <2>1. UNCHANGED <<outbox, pc, on>>
    BY <1>9 DEF Deliver, vars
  <2> QED
    BY <2>1, AttemptsKept DEF Listed
<1> QED
  BY <1>1, <1>2, <1>3, <1>4, <1>5, <1>6, <1>7, <1>8, <1>9
  DEF Next, Work, ThreadStep, WorkerStep, Fault, Procs

\* payment/outbox.go WithLock, MarkRetry: for any number of workers, no two attempt one
\* order, and a job past its limit is attempted at most once by each that had listed it.
THEOREM WorkersCorrect == Spec => []WorkersInv
<1>1. Init => AttemptsInv
  BY AttemptsAssumption DEF Init, AttemptsInv
<1>2. TypeOK /\ AttemptsInv /\ [Next]_vars => AttemptsInv'
  BY AttemptsStep
<1>3. TypeOK /\ AttemptsInv => AttemptsBounded
  <2> SUFFICES ASSUME TypeOK, AttemptsInv, NEW o \in Orders
               PROVE  /\ outbox[o].att < MaxSettleAttempts + Cardinality(Workers)
                      /\ outbox[o].st = "failed" => outbox[o].att >= MaxSettleAttempts
    BY DEF AttemptsBounded
  <2>1. outbox[o].att \in Nat
    BY DEF TypeOK
  <2> QED
    BY <2>1, ListedFinite, AttemptsAssumption DEF AttemptsInv
<1> QED
  BY <1>1, <1>2, <1>3, TypeCorrect, MutualExclusion, PTL DEF Spec, WorkersInv

-----------------------------------------------------------------------------
(***************************************************************************)
(* Settlement implements Escrow: every step that moves an order or money is *)
(* the step of Escrow of that name, every other step is a stutter.         *)
(***************************************************************************)
\* Escrow sees only statuses, movements and raced orders.
LEMMA Quiet == UNCHANGED <<order, moved, raced>> => UNCHANGED E!vars
  BY DEF E!vars, Holder, SellerHas, BuyerHas

\* Without a movement the money stays where it is.
LEMMA HolderKept == UNCHANGED moved => UNCHANGED [o \in Orders |-> Holder(o)]
  BY DEF Holder, SellerHas, BuyerHas

\* The money starts in escrow.
LEMMA EscrowInit == Init => E!Init
  BY DEF Init, E!Init, Holder, SellerHas, BuyerHas

\* Every step is a step of Escrow or a stutter.
LEMMA EscrowStep == IInv /\ [Next]_vars => [E!Next]_(E!vars)
<1> SUFFICES ASSUME IInv, [Next]_vars PROVE E!Next \/ UNCHANGED E!vars
  OBVIOUS
<1> USE DEF vars, tables, provider, procs, IInv
<1>1. ASSUME NEW o \in Orders, Deliver(o) PROVE E!Next
  <2>1. E!Deliver(o)
    BY <1>1, HolderKept DEF Deliver, Transition, E!Deliver, E!Transition
  <2> QED
    BY <2>1 DEF E!Next
<1>2. ASSUME NEW t \in Threads, NEW o \in Orders, ConfirmDelivery(t, o) PROVE E!Next
  <2>1. E!Confirm(o)
    BY <1>2, HolderKept DEF ConfirmDelivery, Transition, E!Confirm, E!Transition
  <2> QED
    BY <2>1 DEF E!Next
<1>3. ASSUME NEW t \in Threads, ToDisputed(t) PROVE E!Next \/ UNCHANGED E!vars
  <2> DEFINE o == on[t]
  <2>1. CASE order[o] = seen[t] /\ order' = [order EXCEPT ![o] = "disputed"]
    <3>1. raced' \in {raced, raced \cup {o}} /\ UNCHANGED moved
      BY <1>3, <2>1 DEF ToDisputed
    <3>2. o \in Orders /\ seen[t] \in {"paid", "delivered", "confirmed"}
      BY <1>3 DEF ToDisputed, At, TypeOK, BooksInv, DisputePCs, Procs
    <3>3. E!Dispute(o)
      BY <2>1, <3>1, <3>2, HolderKept DEF E!Dispute, E!Transition, E!MayRace
    <3> QED
      BY <3>2, <3>3 DEF E!Next
  <2>2. CASE UNCHANGED <<order, raced>>
    BY <1>3, <2>2, Quiet DEF ToDisputed
  <2> QED
    BY <1>3, <2>1, <2>2 DEF ToDisputed, Transition
<1>4. ASSUME NEW t \in Threads, ToConfirmed(t) PROVE E!Next \/ UNCHANGED E!vars
  <2> DEFINE o == on[t]
  <2>1. CASE order[o] = "disputed"
    <3>1. /\ raced' \in {raced, raced \cup {o}} /\ UNCHANGED moved
          /\ o \in raced' \/ ~Refunding(o)
          /\ order' = [order EXCEPT ![o] = "confirmed"]
      BY <1>4, <2>1 DEF ToConfirmed, Transition
    <3>2. o \in Orders
      BY DEF TypeOK, Procs
    <3>3. o \in raced' \/ Holder(o) \in {"escrow", "seller"}
      BY <3>1 DEF Refunding, Holder, SellerHas, BuyerHas
    <3>4. E!Release(o)
      BY <2>1, <3>1, <3>2, <3>3, HolderKept DEF E!Release, E!Transition, E!MayRace
    <3> QED
      BY <3>2, <3>4 DEF E!Next
  <2>2. CASE order[o] # "disputed"
    BY <1>4, <2>2, Quiet DEF ToConfirmed, Transition
  <2> QED
    BY <2>1, <2>2
<1>5. ASSUME NEW t \in Threads, ToRefunded(t) PROVE E!Next \/ UNCHANGED E!vars
  <2> DEFINE o == on[t]
  <2>1. CASE order[o] = "disputed"
    <3>1. o \in Orders /\ "refund" \in moved[o]
      BY <1>5 DEF ToRefunded, At, TypeOK, BooksInv, Procs
    <3>2. o \in raced \/ Holder(o) = "buyer"
      BY <3>1 DEF StandingInv, Holder, BuyerHas
    <3>3. E!Refund(o)
      BY <1>5, <2>1, <3>1, <3>2, HolderKept DEF ToRefunded, Transition, E!Refund, E!Transition
    <3> QED
      BY <3>1, <3>3 DEF E!Next
  <2>2. CASE order[o] # "disputed"
    BY <1>5, <2>2, Quiet DEF ToRefunded, Transition
  <2> QED
    BY <2>1, <2>2
<1>6. ASSUME NEW p \in Procs, MarkSettled(p) PROVE E!Next \/ UNCHANGED E!vars
  <2> DEFINE o == on[p]
  <2>1. CASE order[o] = "confirmed"
    <3>1. o \in Orders /\ "transfer" \in moved[o]
      BY <1>6 DEF MarkSettled, At, TypeOK, BooksInv
    <3>2. o \in raced \/ Holder(o) = "seller"
      BY <2>1, <3>1 DEF StandingInv, Refunding, Holder, SellerHas, BuyerHas
    <3>3. E!Settle(o)
      BY <1>6, <2>1, <3>1, <3>2, HolderKept DEF MarkSettled, Transition, E!Settle, E!Transition
    <3> QED
      BY <3>1, <3>3 DEF E!Next
  <2>2. CASE order[o] # "confirmed"
    BY <1>6, <2>2, Quiet DEF MarkSettled, Transition
  <2> QED
    BY <2>1, <2>2
<1>7. ASSUME NEW p \in Procs, ExecuteSplit(p) PROVE E!Next \/ UNCHANGED E!vars
  <2> DEFINE o == on[p]
  <2>1. /\ o \in Orders /\ PastCheck(p)
        /\ moved' = [moved EXCEPT ![o] = @ \cup {"transfer"}] /\ UNCHANGED <<order, raced>>
    BY <1>7 DEF ExecuteSplit, At, TypeOK, PastCheck
  <2>2. CASE "transfer" \in moved[o] \/ "reversal" \in moved[o]
    <3>1. UNCHANGED [x \in Orders |-> Holder(x)]
      BY <2>1, <2>2 DEF Holder, SellerHas, BuyerHas, TypeOK
    <3> QED
      BY <2>1, <3>1 DEF E!vars
  <2>3. CASE moved[o] \cap {"transfer", "reversal"} = {}
    <3>1. o \in raced \/ (order[o] = "confirmed" /\ "refund" \notin moved[o])
      <4>1. Unfinished(o)
        BY <2>1 DEF Unfinished
      <4>2. order[o] = "settled" => "transfer" \in moved[o]
        BY <2>1 DEF BooksInv
      <4> QED
        BY <2>1, <2>3, <4>1, <4>2 DEF StandingInv, Refunding
    <3>2. E!PayOut(o)
      BY <2>1, <2>3, <3>1 DEF E!PayOut, E!Move, Holder, SellerHas, BuyerHas, TypeOK
    <3> QED
      BY <2>1, <3>2 DEF E!Next
  <2> QED
    BY <2>2, <2>3
<1>8. ASSUME NEW t \in Threads, Reverse(t) PROVE E!Next \/ UNCHANGED E!vars
  <2> DEFINE o == on[t]
  <2>1. /\ o \in Orders /\ Refunding(o)
        /\ moved' = [moved EXCEPT ![o] = @ \cup {"reversal"}] /\ UNCHANGED <<order, raced>>
    BY <1>8 DEF Reverse, At, TypeOK, Refunding, RefundPCs, Procs
  <2>2. CASE ~SellerHas(o)
    <3>1. UNCHANGED [x \in Orders |-> Holder(x)]
      BY <2>1, <2>2 DEF Holder, SellerHas, BuyerHas, TypeOK
    <3> QED
      BY <2>1, <3>1 DEF E!vars
  <2>3. CASE SellerHas(o)
    <3>1. o \in raced \/ order[o] = "disputed" \/ "refund" \in moved[o]
      BY <2>1 DEF StandingInv, BooksInv
    <3>2. E!ClawBack(o)
      BY <2>1, <2>3, <3>1 DEF E!ClawBack, E!Move, Holder, SellerHas, BuyerHas, TypeOK
    <3> QED
      BY <2>1, <3>2 DEF E!Next
  <2> QED
    BY <2>2, <2>3
<1>9. ASSUME NEW t \in Threads, Refund(t) PROVE E!Next \/ UNCHANGED E!vars
  <2> DEFINE o == on[t]
  <2>1. /\ o \in Orders /\ Refunding(o)
        /\ o \in raced \/ ~SellerHas(o)
        /\ moved' = [moved EXCEPT ![o] = @ \cup {"refund"}] /\ UNCHANGED <<order, raced>>
    BY <1>9 DEF Refund, At, TypeOK, Refunding, RefundPCs, Procs, StandingInv
  <2>2. CASE BuyerHas(o)
    <3>1. UNCHANGED [x \in Orders |-> Holder(x)]
      BY <2>1, <2>2 DEF Holder, SellerHas, BuyerHas, TypeOK
    <3> QED
      BY <2>1, <3>1 DEF E!vars
  <2>3. CASE ~BuyerHas(o)
    <3>1. o \in raced \/ order[o] = "disputed"
      BY <2>1, <2>3 DEF StandingInv, BooksInv, BuyerHas
    <3>2. E!Return(o)
      BY <2>1, <2>3, <3>1 DEF E!Return, E!Move, Holder, SellerHas, BuyerHas, TypeOK
    <3> QED
      BY <2>1, <3>2 DEF E!Next
  <2> QED
    BY <2>2, <2>3
<1>10. ASSUME NEW t \in Threads,
              \/ CreateDispute(t) \/ Enqueue(t) \/ RefundContext(t)
              \/ MarkRefunded(t) \/ ResolveRefund(t) \/ ResolveRelease(t)
       PROVE  UNCHANGED E!vars
  BY <1>10, Quiet DEF CreateDispute, Enqueue, RefundContext, MarkRefunded, ResolveRefund,
                      ResolveRelease, CloseDisputes
<1>11. ASSUME NEW p \in Procs,
              \/ SettlementState(p) \/ GetSystem(p) \/ CreateSettlement(p)
              \/ MarkSettlementSuccess(p) \/ GetSettled(p) \/ Crash(p)
       PROVE  UNCHANGED E!vars
  BY <1>11, Quiet DEF SettlementState, GetSystem, CreateSettlement, MarkSettlementSuccess,
                      GetSettled, Crash
<1>12. ASSUME NEW w \in Workers, WithLock(w) \/ MarkDone(w) \/ MarkRetry(w) \/ CallFails(w)
       PROVE  UNCHANGED E!vars
  BY <1>12, Quiet DEF WithLock, MarkDone, MarkRetry, CallFails
<1>13. ASSUME NEW o \in Orders,
              \/ RetryOutbox(o)
              \/ \E t \in Threads : Dispute(t, o) \/ ResolveDispute(t, o)
              \/ \E w \in Workers : DueOrders(w, o)
       PROVE  UNCHANGED E!vars
  BY <1>13, Quiet DEF RetryOutbox, Dispute, ResolveDispute, DueOrders
<1>14. CASE UNCHANGED vars
  BY <1>14, Quiet
<1> QED
  BY <1>1, <1>2, <1>3, <1>4, <1>5, <1>6, <1>7, <1>8, <1>9, <1>10, <1>11, <1>12, <1>13, <1>14
  DEF Next, Work, ThreadStep, WorkerStep, SettleStep, Fault, Procs

\* The order, payment and outbox code implements the escrow promise.
THEOREM Refinement == Spec => ImplementsEscrow
<1>1. Init => E!Init
  BY EscrowInit
<1>2. IInv /\ [Next]_vars => [E!Next]_(E!vars)
  BY EscrowStep
<1> QED
  BY <1>1, <1>2, Invariance, PTL DEF Spec, ImplementsEscrow, E!Spec

-----------------------------------------------------------------------------
\* The orders.  What is on sale is advertised, who is verified is trusted.
ShopInv ==
    /\ listing.published => <<listing.version, listing.price>> \in advertised
    /\ computeOffer.enabled => computeOffer.price \in offered
    /\ \A u \in Users : standing[u] = "verified" => u \in trusted

\* What a purchase carries from one statement to the next was on offer, its buyer verified.
Carried(r) ==
    /\ r.at = "listing"  => r.by \in trusted
    /\ r.at = "standing" => r.by # Lister /\ r.amount \in offered
    /\ r.at = "insert"   => /\ r.by \in trusted \ {Lister}
                            /\ r.product = "download" => <<r.version, r.amount>> \in advertised
                            /\ r.product = "compute"  => r.amount \in offered

OrderBooksInv ==
    /\ OrdersTypeOK /\ orders \in Seq(OrderRow) /\ ShopInv
    /\ \A k \in Purchases : Carried(purchase[k])
    /\ \A i \in DOMAIN orders : orders[i].day <= today
    /\ BoughtAsOffered /\ SharesExact /\ OneActive /\ RatedSettled

\* model.go:135: divided before it is multiplied, a tenth of the amount comes out.
LEMMA FeeTenth ==
    ASSUME NEW amount \in Nat
    PROVE  /\ platformFee(amount) = amount \div 10
           /\ platformFee(amount) \in Nat /\ amount - platformFee(amount) \in Nat
<1>1. /\ platformFee(amount) = amount \div 10
      /\ amount \div 10 \in Nat /\ amount - (amount \div 10) \in Nat
    BY DEF platformFee, Bps
<1> QED
    BY <1>1

\* The stages of a purchase.
LEMMA RequestStages ==
    ASSUME NEW r \in Requests
    PROVE  /\ r.at \in {"idle", "listing", "standing", "insert"}
           /\ r.at = "idle" => r = Idle
           /\ r.at = "listing" => r \in [at : {"listing"}, by : Users]
           /\ r.at = "standing" => r \in [at : {"standing"}, by : Users, amount : Prices]
           /\ r.at = "insert" => r \in [at : {"insert"}, by : Users, product : Products,
                                        version : 0 .. LastVersion, amount : Prices]
  BY DEF Requests, Idle

LEMMA BooksStart == OrdersInit => OrderBooksInv
<1> SUFFICES ASSUME OrdersInit PROVE OrderBooksInv
    OBVIOUS
<1>1. Max(Prices) \in Prices
    <2>1. \E top \in Prices : \A price \in Prices : top >= price
        BY OrderConstants
    <2> QED
        BY <2>1 DEF Max
<1>2. /\ standing = [u \in Users |-> "verified"] /\ trusted = Users
      /\ listing = [published |-> TRUE, version |-> 1, price |-> Max(Prices)]
      /\ computeOffer = [enabled |-> TRUE, price |-> Max(Prices)]
      /\ advertised = {<<1, Max(Prices)>>} /\ offered = {Max(Prices)}
      /\ orders = <<>> /\ rated = {} /\ today = 0 /\ edits = 0
      /\ purchase = [k \in Purchases |-> Idle]
    BY DEF OrdersInit
<1>3. 1 \in 1 .. LastVersion /\ 0 \in 0 .. LastDay /\ 0 \in 0 .. MaxEdits /\ 0 <= MaxOrders
    BY OrderConstants
<1>4. Len(orders) = 0 /\ DOMAIN orders = {} /\ orders \in Seq(OrderRow)
    BY <1>2
<1>5. OrdersTypeOK
    <2>1. listing \in Listings /\ computeOffer \in ComputeOffers
        BY <1>1, <1>2, <1>3 DEF Listings, ComputeOffers
    <2>2. standing \in [Users -> Standings] /\ \A k \in Purchases : purchase[k] \in Requests
        BY <1>2 DEF Standings, Requests
    <2> QED
        BY <1>2, <1>3, <1>4, <2>1, <2>2 DEF OrdersTypeOK
<1>6. ShopInv /\ \A k \in Purchases : Carried(purchase[k])
    BY <1>2 DEF ShopInv, Carried, Idle
<1> QED
    BY <1>2, <1>4, <1>5, <1>6 DEF OrderBooksInv, BoughtAsOffered, SharesExact, OneActive, RatedSettled

\* An edit of the shop, a stage of a purchase, and the orders, each apart.
LEMMA EditStep ==
    ASSUME OrderBooksInv, orders' = orders, rated' = rated, purchase' = purchase, today' = today,
           edits' \in 0 .. MaxEdits, advertised \subseteq advertised', offered \subseteq offered',
           trusted \subseteq trusted', standing' \in [Users -> Standings],
           listing' \in Listings, computeOffer' \in ComputeOffers, ShopInv'
    PROVE  OrderBooksInv'
<1>1. \A k \in Purchases : Carried(purchase[k])'
    BY DEF OrderBooksInv, Carried
<1>2. BoughtAsOffered'
    BY DEF OrderBooksInv, BoughtAsOffered
<1>3. OrdersTypeOK'
    BY DEF OrderBooksInv, OrdersTypeOK
<1>4. SharesExact' /\ OneActive' /\ RatedSettled'
    BY DEF OrderBooksInv, SharesExact, OneActive, RatedSettled
<1> QED
    BY <1>1, <1>2, <1>3, <1>4 DEF OrderBooksInv

LEMMA ShopStep ==
    ASSUME OrderBooksInv,
           \/ \E new \in Listings : EditListing(new)
           \/ \E new \in ComputeOffers : UpsertOffer(new)
           \/ \E u \in Users \ {Lister} : Resubmit(u) \/ \E approve \in BOOLEAN : DecideStanding(u, approve)
    PROVE  OrderBooksInv'
<1>0. /\ edits \in 0 .. MaxEdits /\ standing \in [Users -> Standings]
      /\ listing \in Listings /\ computeOffer \in ComputeOffers /\ ShopInv
    BY DEF OrderBooksInv, OrdersTypeOK
<1>a. ASSUME Edit PROVE /\ edits' \in 0 .. MaxEdits /\ orders' = orders /\ rated' = rated
                        /\ purchase' = purchase /\ today' = today
    BY <1>0, <1>a, OrderConstants DEF Edit
<1>1. ASSUME NEW new \in Listings, EditListing(new) PROVE OrderBooksInv'
    <2>1. /\ listing' = new /\ advertised \subseteq advertised' /\ Edit
          /\ new.published => <<new.version, new.price>> \in advertised'
          /\ UNCHANGED <<standing, computeOffer, offered, trusted>>
        BY <1>1 DEF EditListing
    <2>2. ShopInv'
        BY <1>0, <2>1 DEF ShopInv
    <2> QED
        BY <1>0, <1>a, <2>1, <2>2, EditStep
<1>2. ASSUME NEW new \in ComputeOffers, UpsertOffer(new) PROVE OrderBooksInv'
    <2>1. /\ computeOffer' = new /\ offered \subseteq offered' /\ Edit
          /\ new.enabled => new.price \in offered'
          /\ UNCHANGED <<standing, listing, advertised, trusted>>
        BY <1>2 DEF UpsertOffer
    <2>2. ShopInv'
        BY <1>0, <2>1 DEF ShopInv
    <2> QED
        BY <1>0, <1>a, <2>1, <2>2, EditStep
<1>3. ASSUME NEW u \in Users, Resubmit(u) PROVE OrderBooksInv'
    <2>1. /\ standing' = [standing EXCEPT ![u] = "pending"] /\ Edit
          /\ UNCHANGED <<listing, computeOffer, advertised, offered, trusted>>
        BY <1>3 DEF Resubmit
    <2>2. ShopInv' /\ standing' \in [Users -> Standings]
        BY <1>0, <2>1 DEF ShopInv, Standings
    <2> QED
        BY <1>0, <1>a, <2>1, <2>2, EditStep
<1>4. ASSUME NEW u \in Users, NEW approve \in BOOLEAN, DecideStanding(u, approve) PROVE OrderBooksInv'
    <2>1. /\ standing' = [standing EXCEPT ![u] = IF approve THEN "verified" ELSE "rejected"] /\ Edit
          /\ UNCHANGED <<listing, computeOffer, advertised, offered>>
          /\ trusted \subseteq trusted' /\ (approve => u \in trusted')
        BY <1>4 DEF DecideStanding
    <2>2. ShopInv' /\ standing' \in [Users -> Standings]
        BY <1>0, <2>1 DEF ShopInv, Standings
    <2> QED
        BY <1>0, <1>a, <2>1, <2>2, EditStep
<1> QED
    BY <1>1, <1>2, <1>3, <1>4

LEMMA StageStep ==
    ASSUME OrderBooksInv, NEW k \in Purchases, NEW to \in Requests, Carried(to), Proceed(k, to)
    PROVE  OrderBooksInv'
<1>1. purchase' = [purchase EXCEPT ![k] = to] /\ UNCHANGED <<shop, orders, rated, today>>
    BY DEF Proceed, Stage
<1>2. UNCHANGED <<standing, listing, computeOffer, edits, advertised, offered, trusted>>
    BY <1>1 DEF shop
<1>3. \A j \in Purchases : purchase'[j] \in {purchase[j], to}
    BY <1>1 DEF OrderBooksInv, OrdersTypeOK
<1>4. \A j \in Purchases : purchase'[j] \in Requests /\ Carried(purchase[j])'
    <2> SUFFICES ASSUME NEW j \in Purchases PROVE purchase'[j] \in Requests /\ Carried(purchase[j])'
        OBVIOUS
    <2>2. CASE purchase'[j] = to
        BY <1>2, <2>2 DEF Carried
    <2>3. CASE purchase'[j] = purchase[j]
        BY <1>2, <2>3 DEF Carried, OrderBooksInv, OrdersTypeOK
    <2> QED
        BY <1>3, <2>2, <2>3
<1>5. OrdersTypeOK'
    BY <1>1, <1>2, <1>4 DEF OrderBooksInv, OrdersTypeOK
<1>6. BoughtAsOffered' /\ SharesExact' /\ OneActive' /\ RatedSettled' /\ ShopInv'
    BY <1>1, <1>2 DEF OrderBooksInv, BoughtAsOffered, SharesExact, OneActive, RatedSettled, ShopInv
<1> QED
    BY <1>1, <1>4, <1>5, <1>6 DEF OrderBooksInv

LEMMA PurchaseStep ==
    ASSUME OrderBooksInv, NEW k \in Purchases,
           \/ \E u \in Users : CreateStart(k, u) \/ PurchaseViaOrder(k, u)
           \/ ForPurchase(k) \/ CreateCompute(k)
    PROVE  OrderBooksInv'
<1>0. /\ purchase[k] \in Requests /\ Carried(purchase[k]) /\ ShopInv
      /\ listing \in Listings /\ computeOffer \in ComputeOffers
    BY DEF OrderBooksInv, OrdersTypeOK
<1>i. Idle \in Requests /\ Carried(Idle)
    BY DEF Requests, Idle, Carried
<1>1. ASSUME NEW u \in Users, CreateStart(k, u) PROVE OrderBooksInv'
    <2> DEFINE to == [at |-> "listing", by |-> u]
    <2>1. Proceed(k, to) /\ u \in trusted
        BY <1>0, <1>1 DEF CreateStart, ShopInv
    <2>2. to \in Requests /\ Carried(to)
        BY <2>1 DEF Requests, Carried
    <2> QED
        BY <2>1, <2>2, StageStep
<1>2. ASSUME NEW u \in Users, PurchaseViaOrder(k, u) PROVE OrderBooksInv'
    <2> DEFINE to == [at |-> "standing", by |-> u, amount |-> computeOffer.price]
    <2>1. Proceed(k, to) /\ u # Lister /\ computeOffer.price \in offered
        BY <1>0, <1>2 DEF PurchaseViaOrder, ShopInv
    <2>2. computeOffer.price \in Prices
        BY <1>0 DEF ComputeOffers
    <2>3. to \in Requests /\ Carried(to)
        BY <2>1, <2>2 DEF Requests, Carried
    <2> QED
        BY <2>1, <2>3, StageStep
<1>3. CASE ForPurchase(k)
    <2> DEFINE r == purchase[k]
               to == [at |-> "insert", by |-> r.by, product |-> "download",
                      version |-> listing.version, amount |-> listing.price]
    <2>1. r.by \in Users /\ r.by \in trusted /\ r.at = "listing"
        BY <1>0, <1>3, RequestStages DEF ForPurchase, Carried
    <2>2. CASE listing.published /\ r.by # Lister
        <3>1. Proceed(k, to)
            BY <1>3, <2>2 DEF ForPurchase
        <3>2. <<listing.version, listing.price>> \in advertised
            BY <1>0, <2>2 DEF ShopInv
        <3>3. listing.version \in 0 .. LastVersion /\ listing.price \in Prices
            BY <1>0, OrderConstants DEF Listings
        <3>4. to \in [at : {"insert"}, by : Users, product : Products, version : 0 .. LastVersion, amount : Prices]
            BY <2>1, <3>3 DEF Products
        <3>5. to \in Requests
            BY <3>4 DEF Requests
        <3>6. Carried(to)
            BY <2>1, <2>2, <3>2 DEF Carried
        <3> QED
            BY <3>1, <3>5, <3>6, StageStep
    <2>3. CASE ~ (listing.published /\ r.by # Lister)
        <3>1. Proceed(k, Idle)
            BY <1>3, <2>3 DEF ForPurchase
        <3> QED
            BY <3>1, <1>i, StageStep
    <2> QED
        BY <2>2, <2>3
<1>4. CASE CreateCompute(k)
    <2> DEFINE r == purchase[k]
               to == [at |-> "insert", by |-> r.by, product |-> "compute",
                      version |-> NoVersion, amount |-> r.amount]
    <2>1. r.by \in Users /\ r.by # Lister /\ r.amount \in Prices /\ r.amount \in offered
        BY <1>0, <1>4, RequestStages DEF CreateCompute, Carried
    <2>2. CASE standing[r.by] = "verified"
        <3>1. Proceed(k, to) /\ r.by \in trusted
            BY <1>0, <1>4, <2>1, <2>2 DEF CreateCompute, ShopInv
        <3>2. to \in [at : {"insert"}, by : Users, product : Products, version : 0 .. LastVersion, amount : Prices]
            BY <2>1, OrderConstants DEF Products, NoVersion
        <3>3. to \in Requests
            BY <3>2 DEF Requests
        <3>4. Carried(to)
            BY <2>1, <3>1 DEF Carried
        <3> QED
            BY <3>1, <3>3, <3>4, StageStep
    <2>3. CASE standing[r.by] # "verified"
        <3>1. Proceed(k, Idle)
            BY <1>4, <2>3 DEF CreateCompute
        <3> QED
            BY <3>1, <1>i, StageStep
    <2> QED
        BY <2>2, <2>3
<1> QED
    BY <1>1, <1>2, <1>3, <1>4

LEMMA InsertStep ==
    ASSUME OrderBooksInv, NEW k \in Purchases, InsertOrder(k)
    PROVE  OrderBooksInv'
<1> DEFINE r == purchase[k]
           fee == platformFee(r.amount)
           new == [buyer |-> r.by, product |-> r.product, version |-> r.version,
                   amount |-> r.amount, fee |-> fee, seller |-> r.amount - fee,
                   status |-> "created", day |-> today]
<1>0. /\ r \in Requests /\ Carried(r) /\ r.at = "insert" /\ orders \in Seq(OrderRow)
      /\ today \in 0 .. LastDay
    BY DEF OrderBooksInv, OrdersTypeOK, InsertOrder
<1>1. /\ purchase' = [purchase EXCEPT ![k] = Idle] /\ UNCHANGED <<rated, today>>
      /\ UNCHANGED <<standing, listing, computeOffer, edits, advertised, offered, trusted>>
    BY DEF InsertOrder, Stage, shop
<1>2. /\ \A j \in Purchases : purchase'[j] \in Requests /\ Carried(purchase[j])'
      /\ ShopInv'
    <2>1. \A j \in Purchases : purchase'[j] \in {purchase[j], Idle}
        BY <1>1 DEF OrderBooksInv, OrdersTypeOK
    <2>2. ASSUME NEW j \in Purchases, purchase'[j] = Idle PROVE purchase'[j] \in Requests /\ Carried(purchase[j])'
        BY <2>2 DEF Carried, Idle, Requests
    <2>3. ASSUME NEW j \in Purchases, purchase'[j] = purchase[j] PROVE purchase'[j] \in Requests /\ Carried(purchase[j])'
        BY <1>1, <2>3 DEF Carried, OrderBooksInv, OrdersTypeOK
    <2> QED
        BY <1>1, <2>1, <2>2, <2>3 DEF ShopInv, OrderBooksInv
<1>3. CASE orders' = orders
    <2>1. OrdersTypeOK'
        BY <1>1, <1>2, <1>3 DEF OrderBooksInv, OrdersTypeOK
    <2>2. BoughtAsOffered' /\ SharesExact' /\ OneActive' /\ RatedSettled'
        BY <1>1, <1>3 DEF OrderBooksInv, BoughtAsOffered, SharesExact, OneActive, RatedSettled
    <2> QED
        BY <1>1, <1>2, <1>3, <2>1, <2>2 DEF OrderBooksInv
<1>4. CASE ~Duplicate(r) /\ Len(orders) < MaxOrders /\ orders' = Append(orders, new)
    <2>1. /\ r.by \in Users /\ r.product \in Products /\ r.version \in 0 .. LastVersion
          /\ r.amount \in Prices /\ r.amount \in Nat
        BY <1>0, RequestStages, OrderConstants
    <2>2. fee \in Nat /\ r.amount - fee \in Nat /\ fee = r.amount \div 10
        BY <2>1, FeeTenth
    <2> HIDE DEF fee
    <2>3. new \in OrderRow
        BY <1>0, <2>1, <2>2 DEF OrderRow, Active
    <2>n. /\ new.buyer = r.by /\ new.product = r.product /\ new.version = r.version
          /\ new.amount = r.amount /\ new.fee = fee /\ new.seller = r.amount - fee
          /\ new.status = "created" /\ new.day = today
        OBVIOUS
    <2> HIDE DEF new
    <2> DEFINE n == Len(orders)
    <2>4. /\ n \in Nat /\ DOMAIN orders = 1 .. n /\ Len(orders') = n + 1 /\ DOMAIN orders' = 1 .. n + 1
          /\ orders' \in Seq(OrderRow) /\ orders'[n + 1] = new
          /\ \A i \in DOMAIN orders : orders'[i] = orders[i]
        BY <1>0, <1>4, <2>3
    <2>5. \A i \in DOMAIN orders' : i \in DOMAIN orders \/ i = n + 1
        BY <2>4
    <2>6. DOMAIN orders \subseteq DOMAIN orders' /\ n + 1 \in DOMAIN orders' /\ n + 1 \notin DOMAIN orders
        BY <2>4
    <2>7. \A i \in DOMAIN orders' : \/ i \in DOMAIN orders /\ orders'[i] = orders[i]
                                    \/ i = n + 1 /\ orders'[i] = new
        BY <2>4, <2>5
    <2>8. OrdersTypeOK'
        <3>1. Len(orders') <= MaxOrders
            BY <1>4, <2>4, OrderConstants
        <3>2. \A i \in DOMAIN orders' : orders'[i] \in OrderRow
            BY <2>3, <2>7 DEF OrderBooksInv, OrdersTypeOK
        <3> QED
            BY <1>1, <1>2, <2>6, <3>1, <3>2 DEF OrderBooksInv, OrdersTypeOK
    <2>9. BoughtAsOffered'
        <3>1. new.buyer \in trusted \ {Lister}
            BY <1>0, <2>n DEF Carried
        <3>2. new.product = "download" => <<new.version, new.amount>> \in advertised
            BY <1>0, <2>n DEF Carried
        <3>3. new.product = "compute" => new.amount \in offered
            BY <1>0, <2>n DEF Carried
        <3> QED
            BY <1>1, <2>7, <3>1, <3>2, <3>3 DEF OrderBooksInv, BoughtAsOffered
    <2>10. SharesExact'
        <3>1. new.fee = new.amount \div 10 /\ new.fee + new.seller = new.amount
            BY <2>1, <2>2, <2>n
        <3> QED
            BY <2>7, <3>1 DEF OrderBooksInv, SharesExact
    <2>11. OneActive'
        <3>1. \A i \in DOMAIN orders : orders[i].status \in Active =>
                 orders[i].buyer # new.buyer \/ orders[i].product # new.product
            BY <1>4, <2>n DEF Duplicate
        <3> SUFFICES ASSUME NEW i \in DOMAIN orders', NEW j \in DOMAIN orders', i # j,
                            orders'[i].status \in Active, orders'[j].status \in Active
                     PROVE  orders'[i].buyer # orders'[j].buyer \/ orders'[i].product # orders'[j].product
            BY DEF OneActive
        <3>2. CASE i \in DOMAIN orders /\ j \in DOMAIN orders
            BY <2>4, <3>2 DEF OrderBooksInv, OneActive
        <3>3. CASE i \in DOMAIN orders /\ j = n + 1
            BY <2>4, <3>1, <3>3
        <3>4. CASE i = n + 1 /\ j \in DOMAIN orders
            BY <2>4, <3>1, <3>4
        <3> QED
            BY <2>5, <3>2, <3>3, <3>4
    <2>12. RatedSettled'
        BY <1>1, <2>4 DEF OrderBooksInv, OrdersTypeOK, RatedSettled
    <2>13. \A i \in DOMAIN orders' : orders'[i].day <= today'
        <3>1. new.day <= today
            BY <1>0, <2>n
        <3> QED
            BY <1>1, <2>7, <3>1 DEF OrderBooksInv
    <2> QED
        BY <1>2, <2>4, <2>8, <2>9, <2>10, <2>11, <2>12, <2>13 DEF OrderBooksInv
<1> QED
    BY <1>3, <1>4 DEF InsertOrder

LEMMA MoveStep ==
    ASSUME OrderBooksInv, NEW i \in DOMAIN orders, NEW to \in Active \cup Closed, Advances(i, to)
    PROVE  OrderBooksInv'
<1>0. orders \in Seq(OrderRow) /\ \A j \in DOMAIN orders : orders[j] \in OrderRow
    BY DEF OrderBooksInv, OrdersTypeOK
<1>1. /\ orders' = [orders EXCEPT ![i].status = to] /\ <<orders[i].status, to>> \in Moves
      /\ UNCHANGED <<shop, rated, purchase, today>>
    BY DEF Advances
<1>2. orders[i].status \in Active /\ orders[i].status # "settled"
    BY <1>1 DEF Moves, Active
<1>3. UNCHANGED <<standing, listing, computeOffer, edits, advertised, offered, trusted>>
    BY <1>1 DEF shop
<1>4. orders' \in Seq(OrderRow) /\ Len(orders') = Len(orders) /\ DOMAIN orders' = DOMAIN orders
    <2>1. [orders[i] EXCEPT !.status = to] \in OrderRow
        BY <1>0 DEF OrderRow
    <2>2. orders' = [orders EXCEPT ![i] = [orders[i] EXCEPT !.status = to]]
        BY <1>1
    <2> QED
        BY <1>0, <2>1, <2>2
<1>5. ASSUME NEW j \in DOMAIN orders
      PROVE  /\ orders'[j].buyer = orders[j].buyer /\ orders'[j].product = orders[j].product
             /\ orders'[j].version = orders[j].version /\ orders'[j].amount = orders[j].amount
             /\ orders'[j].fee = orders[j].fee /\ orders'[j].seller = orders[j].seller
             /\ orders'[j].day = orders[j].day
             /\ orders'[j].status = IF j = i THEN to ELSE orders[j].status
             /\ orders'[j] \in OrderRow
    <2>1. CASE j = i
        <3>1. orders'[j] = [orders[j] EXCEPT !.status = to] /\ orders[j] \in OrderRow
            BY <1>0, <1>1, <2>1
        <3> QED
            BY <2>1, <3>1 DEF OrderRow
    <2>2. CASE j # i
        BY <1>0, <1>1, <2>2
    <2> QED
        BY <2>1, <2>2
<1>6. OrdersTypeOK'
    BY <1>1, <1>3, <1>4, <1>5 DEF OrderBooksInv, OrdersTypeOK
<1>7. BoughtAsOffered' /\ SharesExact' /\ \A j \in DOMAIN orders' : orders'[j].day <= today'
    BY <1>1, <1>3, <1>4, <1>5 DEF OrderBooksInv, BoughtAsOffered, SharesExact
<1>8. \A j \in DOMAIN orders : orders'[j].status \in Active => orders[j].status \in Active
    BY <1>2, <1>5
<1>9. OneActive'
    <2> SUFFICES ASSUME NEW j \in DOMAIN orders, NEW l \in DOMAIN orders, j # l,
                        orders'[j].status \in Active, orders'[l].status \in Active
                 PROVE  orders'[j].buyer # orders'[l].buyer \/ orders'[j].product # orders'[l].product
        BY <1>4 DEF OneActive
    <2>1. orders[j].status \in Active /\ orders[l].status \in Active
        BY <1>8
    <2>2. orders[j].buyer # orders[l].buyer \/ orders[j].product # orders[l].product
        BY <2>1 DEF OrderBooksInv, OneActive
    <2> QED
        BY <1>5, <2>2
<1>10. RatedSettled'
    BY <1>1, <1>2, <1>5 DEF OrderBooksInv, OrdersTypeOK, RatedSettled
<1>11. ShopInv' /\ \A k \in Purchases : Carried(purchase[k])'
    BY <1>1, <1>3 DEF OrderBooksInv, ShopInv, Carried
<1> QED
    BY <1>4, <1>6, <1>7, <1>9, <1>10, <1>11 DEF OrderBooksInv

LEMMA OrdersStep == OrderBooksInv /\ [OrdersNext]_orderVars => OrderBooksInv'
<1> SUFFICES ASSUME OrderBooksInv, [OrdersNext]_orderVars PROVE OrderBooksInv'
    OBVIOUS
<1>1. ASSUME NEW i \in DOMAIN orders, CreateReview(i) PROVE OrderBooksInv'
    <2>1. /\ rated' = rated \cup {i} /\ orders[i].status = "settled"
          /\ UNCHANGED <<standing, listing, computeOffer, edits, advertised, offered, trusted>>
          /\ UNCHANGED <<orders, purchase, today>>
        BY <1>1 DEF CreateReview, shop
    <2>2. OrdersTypeOK' /\ RatedSettled'
        BY <2>1 DEF OrderBooksInv, OrdersTypeOK, RatedSettled
    <2>3. ShopInv' /\ \A k \in Purchases : Carried(purchase[k])'
        BY <2>1 DEF OrderBooksInv, ShopInv, Carried
    <2> QED
        BY <2>1, <2>2, <2>3 DEF OrderBooksInv, BoughtAsOffered, SharesExact, OneActive
<1>2. CASE DayPasses
    <2>1. /\ today' = today + 1 /\ today < LastDay
          /\ UNCHANGED <<standing, listing, computeOffer, edits, advertised, offered, trusted>>
          /\ UNCHANGED <<orders, purchase, rated>>
        BY <1>2 DEF DayPasses, shop
    <2>2. OrdersTypeOK' /\ \A i \in DOMAIN orders : orders[i].day <= today'
        <3>1. today \in 0 .. LastDay /\ \A i \in DOMAIN orders : orders[i].day <= today /\ orders[i].day \in Int
            BY DEF OrderBooksInv, OrdersTypeOK, OrderRow
        <3>2. today' \in 0 .. LastDay /\ \A i \in DOMAIN orders : orders[i].day <= today'
            BY <2>1, <3>1, OrderConstants
        <3> QED
            BY <2>1, <3>2 DEF OrderBooksInv, OrdersTypeOK
    <2>3. ShopInv' /\ \A k \in Purchases : Carried(purchase[k])'
        BY <2>1 DEF OrderBooksInv, ShopInv, Carried
    <2> QED
        BY <2>1, <2>2, <2>3 DEF OrderBooksInv, BoughtAsOffered, SharesExact, OneActive, RatedSettled
<1>3. CASE UNCHANGED orderVars
    <2>1. /\ UNCHANGED <<standing, listing, computeOffer, edits, advertised, offered, trusted>>
          /\ UNCHANGED <<orders, purchase, rated, today>>
        BY <1>3 DEF orderVars
    <2>2. OrdersTypeOK' /\ ShopInv' /\ \A k \in Purchases : Carried(purchase[k])'
        BY <2>1 DEF OrderBooksInv, OrdersTypeOK, ShopInv, Carried
    <2> QED
        BY <2>1, <2>2 DEF OrderBooksInv, BoughtAsOffered, SharesExact, OneActive, RatedSettled
<1> QED
    BY <1>1, <1>2, <1>3, ShopStep, PurchaseStep, InsertStep, MoveStep DEF OrdersNext

-----------------------------------------------------------------------------
\* The reports.  A column of the orders table adds up over any of the rows.
LEMMA Columns ==
    ASSUME OrderBooksInv, NEW T, T \subseteq DOMAIN orders
    PROVE  /\ IsFiniteSet(DOMAIN orders) /\ IsFiniteSet(T)
           /\ Cardinality(DOMAIN orders) = Len(orders)
           /\ Amounts(T) = SumFunctionOnSet([i \in DOMAIN orders |-> orders[i].amount], T)
           /\ Sellers(T) = SumFunctionOnSet([i \in DOMAIN orders |-> orders[i].seller], T)
           /\ Amounts(T) \in Int /\ Fees(T) \in Int /\ Sellers(T) \in Int
           /\ Amounts(T) = Fees(T) + Sellers(T)
           /\ \A i \in T : orders[i].amount \in Int /\ orders[i].seller \in Int
<1> DEFINE a == [i \in T |-> orders[i].amount]
           f == [i \in T |-> orders[i].fee]
           s == [i \in T |-> orders[i].seller]
           A == [i \in DOMAIN orders |-> orders[i].amount]
           S == [i \in DOMAIN orders |-> orders[i].seller]
<1>1. IsFiniteSet(DOMAIN orders) /\ Cardinality(DOMAIN orders) = Len(orders)
    <2>1. Len(orders) \in Nat /\ DOMAIN orders = 1 .. Len(orders)
        BY DEF OrderBooksInv
    <2>2. PICK n \in Nat : n = Len(orders)
        BY <2>1
    <2>3. IsFiniteSet(1 .. n) /\ Cardinality(1 .. n) = n
        BY FS_Interval
    <2> QED
        BY <2>1, <2>2, <2>3
<1>2. IsFiniteSet(T)
    BY <1>1, FS_Subset
<1>3. \A i \in DOMAIN orders : /\ orders[i].amount \in Int /\ orders[i].fee \in Int /\ orders[i].seller \in Int
                               /\ orders[i].amount = orders[i].fee + orders[i].seller
    <2> SUFFICES ASSUME NEW i \in DOMAIN orders
                 PROVE  /\ orders[i].amount \in Int /\ orders[i].fee \in Int /\ orders[i].seller \in Int
                        /\ orders[i].amount = orders[i].fee + orders[i].seller
        OBVIOUS
    <2>1. orders[i] \in OrderRow /\ orders[i].fee + orders[i].seller = orders[i].amount
        BY DEF OrderBooksInv, OrdersTypeOK, SharesExact
    <2>2. orders[i].amount \in Prices /\ orders[i].fee \in Nat /\ orders[i].seller \in Nat
        BY <2>1 DEF OrderRow
    <2> QED
        BY <2>1, <2>2, OrderConstants
<1>4. /\ \A i \in T : a[i] \in Int /\ f[i] \in Int /\ s[i] \in Int /\ a[i] = f[i] + s[i]
      /\ \A i \in T : a[i] = A[i] /\ s[i] = S[i]
    BY <1>3
<1>5. /\ Amounts(T) = SumFunctionOnSet(a, T) /\ Fees(T) = SumFunctionOnSet(f, T)
      /\ Sellers(T) = SumFunctionOnSet(s, T)
    BY DEF Amounts, Fees, Sellers, SumFunction, SumFunctionOnSet, FoldFunction
<1> HIDE DEF a, f, s, A, S
<1>6. /\ SumFunctionOnSet(a, T) \in Int /\ SumFunctionOnSet(f, T) \in Int /\ SumFunctionOnSet(s, T) \in Int
    BY <1>2, <1>4, SumInt
<1>7. SumFunctionOnSet(a, T) = SumFunctionOnSet(f, T) + SumFunctionOnSet(s, T)
    BY <1>2, <1>4, SumPlus
<1>8. SumFunctionOnSet(a, T) = SumFunctionOnSet(A, T)
    BY <1>2, <1>4, SumAgree
<1>9. SumFunctionOnSet(s, T) = SumFunctionOnSet(S, T)
    BY <1>2, <1>4, SumAgree
<1> QED
    BY <1>1, <1>2, <1>3, <1>5, <1>6, <1>7, <1>8, <1>9 DEF A, S

\* Rows in sets of which no two share one.
LEMMA Counted ==
    ASSUME NEW S, NEW T, IsFiniteSet(S), IsFiniteSet(T), S \cap T = {}
    PROVE  /\ IsFiniteSet(S \cup T) /\ Cardinality(S) \in Nat /\ Cardinality(T) \in Nat
           /\ Cardinality(S \cup T) = Cardinality(S) + Cardinality(T)
<1>1. /\ IsFiniteSet(S \cup T) /\ Cardinality(S) \in Nat /\ Cardinality(T) \in Nat
      /\ Cardinality(S \cup T) = Cardinality(S) + Cardinality(T) - Cardinality(S \cap T)
    BY FS_Union, FS_CardinalityType
<1>2. Cardinality(S \cap T) = 0
    BY FS_EmptySet
<1> QED
    BY <1>1, <1>2

\* Every order is in one of the places the operators' report counts.
LEMMA EveryOrderCounted ==
    ASSUME OrderBooksInv
    PROVE  Len(orders) = Cardinality(Having({"settled"})) + Cardinality(Having(Pending))
                         + Cardinality(Having({"disputed"})) + Cardinality(Having({"refunded"}))
                         + Cardinality(Having({"created", "cancelled"}))
<1> DEFINE s == Having({"settled"})
           p == Having(Pending)
           d == Having({"disputed"})
           r == Having({"refunded"})
           c == Having({"created", "cancelled"})
<1>1. IsFiniteSet(DOMAIN orders) /\ Cardinality(DOMAIN orders) = Len(orders)
    BY Columns
<1>2. /\ s \subseteq DOMAIN orders /\ p \subseteq DOMAIN orders /\ d \subseteq DOMAIN orders
      /\ r \subseteq DOMAIN orders /\ c \subseteq DOMAIN orders
    BY DEF Having
<1>3. /\ s \cap p = {} /\ (s \cup p) \cap d = {} /\ ((s \cup p) \cup d) \cap r = {}
      /\ (((s \cup p) \cup d) \cup r) \cap c = {}
    BY DEF Having, Pending
<1>4. (((s \cup p) \cup d) \cup r) \cup c = DOMAIN orders
    <2>1. \A i \in DOMAIN orders : orders[i].status \in Active \cup Closed
        BY DEF OrderBooksInv, OrdersTypeOK, OrderRow
    <2> QED
        BY <2>1 DEF Having, Pending, Active, Closed
<1> HIDE DEF s, p, d, r, c
<1>5. IsFiniteSet(s) /\ IsFiniteSet(p) /\ IsFiniteSet(d) /\ IsFiniteSet(r) /\ IsFiniteSet(c)
    BY <1>1, <1>2, FS_Subset
<1>6. IsFiniteSet(s \cup p) /\ Cardinality(s \cup p) = Cardinality(s) + Cardinality(p)
    BY <1>3, <1>5, Counted
<1>7. IsFiniteSet((s \cup p) \cup d)
      /\ Cardinality((s \cup p) \cup d) = Cardinality(s \cup p) + Cardinality(d)
    BY <1>3, <1>5, <1>6, Counted
<1>8. IsFiniteSet(((s \cup p) \cup d) \cup r)
      /\ Cardinality(((s \cup p) \cup d) \cup r) = Cardinality((s \cup p) \cup d) + Cardinality(r)
    BY <1>3, <1>5, <1>7, Counted
<1>9. Cardinality((((s \cup p) \cup d) \cup r) \cup c)
        = Cardinality(((s \cup p) \cup d) \cup r) + Cardinality(c)
    BY <1>3, <1>5, <1>8, Counted
<1>10. Cardinality((((s \cup p) \cup d) \cup r) \cup c) = Len(orders)
    BY <1>1, <1>4
<1> QED
    BY <1>6, <1>7, <1>8, <1>9, <1>10 DEF s, p, d, r, c

\* A window that reaches back to the first day has every order in one of its days.
LEMMA WholeWindow ==
    ASSUME OrderBooksInv, NEW n \in Nat, n > today, NEW T, T \subseteq DOMAIN orders,
           NEW f, \A i \in DOMAIN orders : f[i] \in Int
    PROVE  SumFunctionOnSet([d \in DaysOf(n) |-> SumFunctionOnSet(f, OfDay(d) \cap T)], DaysOf(n))
             = SumFunctionOnSet(f, T)
<1> DEFINE key == [i \in DOMAIN orders |-> orders[i].day]
           D == DaysOf(n)
<1>1. IsFiniteSet(T)
    BY Columns
<1>2. today \in Nat
    BY OrderConstants DEF OrderBooksInv, OrdersTypeOK
<1>3. D = 0 .. today
    <2>1. \A d \in 0 .. today : d + n > today
        BY <1>2
    <2> QED
        BY <2>1 DEF DaysOf
<1>4. IsFiniteSet(D)
    BY <1>2, <1>3, FS_Interval
<1>5. \A i \in T : f[i] \in Int /\ key[i] \in D
    <2> SUFFICES ASSUME NEW i \in T PROVE key[i] \in D
        OBVIOUS
    <2>1. orders[i].day \in 0 .. LastDay /\ orders[i].day <= today
        BY DEF OrderBooksInv, OrdersTypeOK, OrderRow
    <2> QED
        BY <1>2, <1>3, <2>1
<1>6. \A d : {i \in T : key[i] = d} = OfDay(d) \cap T
    BY DEF OfDay
<1>7. [d \in D |-> SumFunctionOnSet(f, {i \in T : key[i] = d})]
        = [d \in D |-> SumFunctionOnSet(f, OfDay(d) \cap T)]
    BY <1>6
<1> HIDE DEF key, D
<1>8. SumFunctionOnSet([d \in D |-> SumFunctionOnSet(f, {i \in T : key[i] = d})], D)
        = SumFunctionOnSet(f, T)
    BY <1>1, <1>4, <1>5, SumByKey
<1> QED
    BY <1>7, <1>8 DEF D

\* A sum over days, of what each day's part of the report says.
LEMMA DaySum ==
    ASSUME NEW D, NEW F, DOMAIN F = D
    PROVE  SumFunction(F) = SumFunctionOnSet(F, D)
BY DEF SumFunction, SumFunctionOnSet, FoldFunction

LEMMA WindowDays == \A days \in 0 .. MaxDays + 1 : WindowOf(days) \in Nat
BY OrderConstants DEF WindowOf

LEMMA ReportsAgree == ASSUME OrderBooksInv PROVE BooksAgree
<1> DEFINE all == AdminReconciliation
           mine == SellerEarnings
           settled == Having({"settled"})
           refunded == Having({"refunded"})
           D == DOMAIN orders
           amount == [i \in D |-> orders[i].amount]
           seller == [i \in D |-> orders[i].seller]
           one == [i \in D |-> 1]
<1>0. settled \subseteq D /\ refunded \subseteq D /\ IsFiniteSet(D)
    BY Columns DEF Having
<1>1. all.settledGMV = all.fees + mine.settled
    <2>1. Amounts(settled) = Fees(settled) + Sellers(settled)
        BY <1>0, Columns
    <2> QED
        BY <2>1 DEF AdminReconciliation, SellerEarnings
<1>2. all.orders = all.settled + all.pending + all.disputed + all.refunds
                   + Cardinality(Having({"created", "cancelled"}))
    BY EveryOrderCounted DEF AdminReconciliation
<1>3. ASSUME NEW n \in Nat
      PROVE  LET ops == AdminReconciliationTimeseries(n)
                 own == SellerEarningsTimeseries(n) IN
             /\ OverDays(ops, LAMBDA r : r.settledGMV - r.fees) = OverDays(own, LAMBDA r : r.settled)
             /\ OverDays(ops, LAMBDA r : r.gmv) = OverDays(own, LAMBDA r : r.gross)
             /\ n > today => /\ OverDays(own, LAMBDA r : r.settled) = mine.settled
                             /\ OverDays(own, LAMBDA r : r.refunded) = all.refunded
                             /\ OverDays(ops, LAMBDA r : r.orders) = all.orders
    <2> DEFINE ops == AdminReconciliationTimeseries(n)
               own == SellerEarningsTimeseries(n)
               W == DaysOf(n)
    <2>1. /\ DOMAIN ops = W /\ DOMAIN own = W
          /\ \A d \in W : /\ ops[d].settledGMV = Amounts(OfDay(d) \cap settled)
                          /\ ops[d].fees = Fees(OfDay(d) \cap settled)
                          /\ ops[d].gmv = Amounts(OfDay(d))
                          /\ ops[d].orders = Cardinality(OfDay(d))
                          /\ own[d].settled = Sellers(OfDay(d) \cap settled)
                          /\ own[d].gross = Amounts(OfDay(d))
                          /\ own[d].refunded = Amounts(OfDay(d) \cap refunded)
        BY DEF AdminReconciliationTimeseries, SellerEarningsTimeseries
    <2> HIDE DEF ops, own, settled, refunded, W
    <2>2. [d \in W |-> ops[d].settledGMV - ops[d].fees] = [d \in W |-> own[d].settled]
        <3> SUFFICES ASSUME NEW d \in W PROVE ops[d].settledGMV - ops[d].fees = own[d].settled
            OBVIOUS
        <3>1. OfDay(d) \cap settled \subseteq DOMAIN orders
            BY <1>0
        <3>2. /\ Amounts(OfDay(d) \cap settled) = Fees(OfDay(d) \cap settled) + Sellers(OfDay(d) \cap settled)
              /\ Fees(OfDay(d) \cap settled) \in Int /\ Sellers(OfDay(d) \cap settled) \in Int
            BY <3>1, Columns
        <3>3. PICK f \in Int, g \in Int : /\ f = Fees(OfDay(d) \cap settled) /\ g = Sellers(OfDay(d) \cap settled)
                                         /\ Amounts(OfDay(d) \cap settled) = f + g
            BY <3>2
        <3>4. ops[d].settledGMV = f + g /\ ops[d].fees = f /\ own[d].settled = g
            BY <2>1, <3>3
        <3> QED
            BY <3>4
    <2>3. [d \in W |-> ops[d].gmv] = [d \in W |-> own[d].gross]
        BY <2>1
    <2>4. ASSUME n > today
          PROVE  /\ SumFunction([d \in W |-> own[d].settled]) = mine.settled
                 /\ SumFunction([d \in W |-> own[d].refunded]) = all.refunded
                 /\ SumFunction([d \in W |-> ops[d].orders]) = all.orders
        <3>0. /\ \A i \in D : orders[i].amount \in Int /\ orders[i].seller \in Int
              /\ \A d \in W : /\ OfDay(d) \cap settled \subseteq D /\ OfDay(d) \cap refunded \subseteq D
                              /\ OfDay(d) \cap D \subseteq D /\ OfDay(d) = OfDay(d) \cap D
            <4>1. \A i \in D : orders[i].amount \in Int /\ orders[i].seller \in Int
                BY Columns
            <4> QED
                BY <1>0, <4>1 DEF OfDay
        <3>1. /\ \A i \in D : amount[i] \in Int /\ seller[i] \in Int /\ one[i] \in Int /\ one[i] = 1
            BY <3>0
        <3>2. /\ \A d \in W : own[d].settled = SumFunctionOnSet(seller, OfDay(d) \cap settled)
              /\ mine.settled = SumFunctionOnSet(seller, settled)
            BY <1>0, <2>1, <3>0, Columns DEF SellerEarnings, settled
        <3>3. /\ \A d \in W : own[d].refunded = SumFunctionOnSet(amount, OfDay(d) \cap refunded)
              /\ all.refunded = SumFunctionOnSet(amount, refunded)
            BY <1>0, <2>1, <3>0, Columns DEF AdminReconciliation, refunded
        <3>4. /\ \A d \in W : ops[d].orders = SumFunctionOnSet(one, OfDay(d) \cap D)
              /\ all.orders = SumFunctionOnSet(one, D)
            <4>1. ASSUME NEW T, T \subseteq D PROVE SumFunctionOnSet(one, T) = Cardinality(T)
                <5>1. IsFiniteSet(T) /\ \A i \in T : one[i] = 1
                    BY <1>0, <3>1, <4>1, FS_Subset
                <5> HIDE DEF one
                <5> QED
                    BY <5>1, SumOnes
            <4>2. all.orders = Cardinality(D)
                BY Columns DEF AdminReconciliation
            <4> HIDE DEF one, D
            <4> QED
                BY <2>1, <3>0, <4>1, <4>2
        <3> HIDE DEF amount, seller, one, mine, all
        <3> DEFINE earned == [d \in W |-> own[d].settled]
                   R == [d \in W |-> own[d].refunded]
                   C == [d \in W |-> ops[d].orders]
        <3>5. SumFunction(earned) = mine.settled
            <4>1. earned = [d \in W |-> SumFunctionOnSet(seller, OfDay(d) \cap settled)]
                BY <3>2
            <4>2. SumFunctionOnSet([d \in W |-> SumFunctionOnSet(seller, OfDay(d) \cap settled)], W)
                    = SumFunctionOnSet(seller, settled)
                BY <1>0, <2>4, <3>1, WholeWindow DEF W
            <4>3. SumFunction(earned) = SumFunctionOnSet(earned, W)
                BY DaySum
            <4> HIDE DEF earned
            <4> QED
                BY <3>2, <4>1, <4>2, <4>3
        <3>6. SumFunction(R) = all.refunded
            <4>1. R = [d \in W |-> SumFunctionOnSet(amount, OfDay(d) \cap refunded)]
                BY <3>3
            <4>2. SumFunctionOnSet([d \in W |-> SumFunctionOnSet(amount, OfDay(d) \cap refunded)], W)
                    = SumFunctionOnSet(amount, refunded)
                BY <1>0, <2>4, <3>1, WholeWindow DEF W
            <4>3. SumFunction(R) = SumFunctionOnSet(R, W)
                BY DaySum
            <4> HIDE DEF R
            <4> QED
                BY <3>3, <4>1, <4>2, <4>3
        <3>7. SumFunction(C) = all.orders
            <4>1. C = [d \in W |-> SumFunctionOnSet(one, OfDay(d) \cap D)]
                BY <3>4
            <4>2. SumFunctionOnSet([d \in W |-> SumFunctionOnSet(one, OfDay(d) \cap D)], W)
                    = SumFunctionOnSet(one, D)
                BY <1>0, <2>4, <3>1, WholeWindow DEF W
            <4>3. SumFunction(C) = SumFunctionOnSet(C, W)
                BY DaySum
            <4> HIDE DEF C
            <4> QED
                BY <3>4, <4>1, <4>2, <4>3
        <3> QED
            BY <3>5, <3>6, <3>7
    <2> HIDE DEF mine, all
    <2> QED
        BY <2>1, <2>2, <2>3, <2>4 DEF OverDays, ops, own
<1> HIDE DEF all, mine
<1> QED
    BY <1>1, <1>2, <1>3, WindowDays DEF BooksAgree, all, mine

\* order/service.go, order/repo.go: for any buyers, prices, edits and purchases, what was
\* bought was on offer, its shares are exact, and the reports add up.
THEOREM OrdersCorrect == OrdersSpec => []OrdersInv
<1>1. OrderBooksInv => OrdersInv
    BY ReportsAgree DEF OrderBooksInv, OrdersInv
<1> QED
    BY <1>1, BooksStart, OrdersStep, PTL DEF OrdersSpec
=============================================================================
