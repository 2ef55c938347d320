----------------------------- MODULE Withdrawal -----------------------------
(***************************************************************************)
(* One seller's withdrawals: concurrent Request handlers, each reading the *)
(* settled earnings and then, under the seller's advisory lock, adding up  *)
(* what is outstanding and inserting its own row, while orders settle and  *)
(* the operators approve, reject and complete.  Sellers share nothing.     *)
(***************************************************************************)
EXTENDS Integers, FiniteSets

CONSTANTS
  Handlers,     \* HTTP handlers of Request
  Requests,     \* withdrawal_requests ids (a bound on the rows inserted)
  Amounts,      \* the cents an order earns or a seller asks for
  MaxSettled,   \* bound: earnings in cents
  NoHandler

ASSUME BoundsAssumption == /\ Amounts \subseteq Nat \ {0} /\ MaxSettled \in Nat
                           /\ IsFiniteSet(Requests)
ASSUME NoHandlerAssumption == NoHandler \notin Handlers

VARIABLES
  settled,      \* the seller's settled orders, added up
  status,       \* withdrawal_requests.status, "none" for a row not inserted
  cents,        \* withdrawal_requests.amount_cents
  lock,         \* the handler that holds pg_advisory_xact_lock
  pc, ask, earned, spent   \* per handler: statement, amount, settled and outstanding as read

requestRows == <<status, cents>>
reads == <<earned, spent>>
vars  == <<settled, requestRows, lock, pc, ask, reads>>

Statuses   == {"none", "pending", "approved", "completed", "rejected"}
Outstanding == {"pending", "approved", "completed"}
Statements == {"idle", "SettledCentsOf", "Lock", "Sum", "Insert", "Commit"}

\* SUM(amount_cents): the rows' cents, one pair each, counted.
CentsOf(amount, ids) == UNION {{r} \X (1 .. amount[r]) : r \in ids}
WithStatus(sts) == {r \in Requests : status[r] \in sts}
Total(sts) == Cardinality(CentsOf(cents, WithStatus(sts)))

Acc == INSTANCE Account WITH taken <- Total(Outstanding)

Init == /\ settled = 0
        /\ status = [r \in Requests |-> "none"] /\ cents = [r \in Requests |-> 0]
        /\ lock = NoHandler
        /\ pc = [h \in Handlers |-> "idle"]
        /\ ask = [h \in Handlers |-> 0]
        /\ earned = [h \in Handlers |-> 0] /\ spent = [h \in Handlers |-> 0]

At(h, l)   == pc[h] = l
Goto(h, l) == pc' = [pc EXCEPT ![h] = l]

\* An order of the seller settles, and stays settled.
OrderSettles(a) == /\ settled + a <= MaxSettled
                   /\ settled' = settled + a
                   /\ UNCHANGED <<requestRows, lock, pc, ask, reads>>

-----------------------------------------------------------------------------
(***************************************************************************)
(* Request and CreateWithinBudget.                                         *)
(***************************************************************************)
Request(h, a) == /\ At(h, "idle")
                 /\ ask' = [ask EXCEPT ![h] = a]
                 /\ Goto(h, "SettledCentsOf")
                 /\ UNCHANGED <<settled, requestRows, lock, reads>>

SettledCentsOf(h) == /\ At(h, "SettledCentsOf")
                     /\ earned' = [earned EXCEPT ![h] = settled]
                     /\ Goto(h, "Lock")
                     /\ UNCHANGED <<settled, requestRows, lock, ask, spent>>

\* Mutant: no lock.
NoLock(h) == /\ At(h, "Lock")
             /\ Goto(h, "Sum")
             /\ UNCHANGED <<settled, requestRows, lock, ask, reads>>

Lock(h) == /\ At(h, "Lock") /\ lock = NoHandler
           /\ lock' = h
           /\ Goto(h, "Sum")
           /\ UNCHANGED <<settled, requestRows, ask, reads>>

SumOf(h, sts) == /\ At(h, "Sum")
                 /\ spent' = [spent EXCEPT ![h] = Total(sts)]
                 /\ Goto(h, "Insert")
                 /\ UNCHANGED <<settled, requestRows, lock, ask, earned>>

Sum(h) == SumOf(h, Outstanding)

\* The transaction ends: its lock is released.
End(h) == lock' = IF lock = h THEN NoHandler ELSE lock

\* The insert, invisible to others until the commit.
Insert(h) == /\ At(h, "Insert")
             /\ IF ask[h] <= earned[h] - spent[h]
                THEN Goto(h, "Commit") /\ UNCHANGED lock
                ELSE Goto(h, "idle") /\ End(h)
             /\ UNCHANGED <<settled, requestRows, ask, reads>>

\* The row appears and the lock goes, at once.
Commit(h, r) == /\ At(h, "Commit") /\ status[r] = "none"
                /\ status' = [status EXCEPT ![r] = "pending"]
                /\ cents'  = [cents  EXCEPT ![r] = ask[h]]
                /\ Goto(h, "idle") /\ End(h)
                /\ UNCHANGED <<settled, ask, reads>>

\* A statement fails or the process dies: the transaction rolls back.
Rollback(h) == /\ pc[h] # "idle"
               /\ Goto(h, "idle") /\ End(h)
               /\ UNCHANGED <<settled, requestRows, ask, reads>>

-----------------------------------------------------------------------------
(***************************************************************************)
(* The operators' decisions.                                               *)
(***************************************************************************)
\* UPDATE .. SET status=to WHERE id=r AND status=from
Transition(r, from, to) == /\ status[r] = from
                           /\ status' = [status EXCEPT ![r] = to]
                           /\ UNCHANGED <<settled, cents, lock, pc, ask, reads>>

\* Mutant: whatever was not decided negatively can be rejected.
RejectAnyTime(r) == \E from \in Outstanding : Transition(r, from, "rejected")

Approve(r)  == Transition(r, "pending", "approved")
Reject(r)   == Transition(r, "pending", "rejected")
Complete(r) == Transition(r, "approved", "completed")

Next == \/ \E a \in Amounts : OrderSettles(a)
        \/ \E h \in Handlers, a \in Amounts : Request(h, a)
        \/ \E h \in Handlers : SettledCentsOf(h) \/ Lock(h) \/ Sum(h) \/ Insert(h) \/ Rollback(h)
        \/ \E h \in Handlers, r \in Requests : Commit(h, r)
        \/ \E r \in Requests : Approve(r) \/ Reject(r) \/ Complete(r)

Spec == Init /\ [][Next]_vars

-----------------------------------------------------------------------------
(***************************************************************************)
(* Properties.                                                             *)
(***************************************************************************)
\* Every variable has its type.
TypeOK ==
  /\ settled \in 0 .. MaxSettled
  /\ status \in [Requests -> Statuses] /\ cents \in [Requests -> Amounts \cup {0}]
  /\ lock \in Handlers \cup {NoHandler}
  /\ pc \in [Handlers -> Statements] /\ ask \in [Handlers -> Amounts \cup {0}]
  /\ earned \in [Handlers -> 0 .. MaxSettled] /\ spent \in [Handlers -> 0 .. MaxSettled]

\* However requests race with each other, with settlements and with decisions,
\* what was paid out and what may still be paid out never exceeds what the seller
\* has earned, and each request takes its amount at once: Account.
ImplementsAccount == Acc!Spec

\* An approved request is paid out or stays approved: its money is
\* never handed back to the balance, nor is a decision revised.
DecisionsFinal ==
  [][\A r \in Requests :
       /\ status[r] = "approved" => status'[r] \in {"approved", "completed"}
       /\ status[r] \in {"completed", "rejected"} => status'[r] = status[r]
       /\ status[r] # "none" => cents'[r] = cents[r]]_vars

\* Of two requests, whatever their timing, failures and rollbacks, never both
\* are between the sum and the commit: what one inserts the other has summed.
OneSummer == \A h \in Handlers : pc[h] \in {"Sum", "Insert", "Commit"} => lock = h

\* What a handler has summed is still what is outstanding, or more: only a
\* rejection moves it, so the budget it checks is never too high.
SumNotStale == \A h \in Handlers : pc[h] \in {"Insert", "Commit"} => Total(Outstanding) <= spent[h]

\* Types, exclusion and the age of the sums together.
WithdrawalInv == TypeOK /\ OneSummer /\ SumNotStale

\* The seller's balance and the decisions on it together.
PayoutsKept == ImplementsAccount /\ DecisionsFinal
=============================================================================
