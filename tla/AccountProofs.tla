---------------------------- MODULE AccountProofs ----------------------------
(***************************************************************************)
(* Theorems about the accounts, for every value of the constants.          *)
(*                                                                         *)
(* Withdrawal: the seller's lock keeps requests apart, the sums stay good, *)
(* and the requests implement Account.                                     *)
(*                                                                         *)
(* Sessions: ended sessions, single-use tokens and the lockout.            *)
(*                                                                         *)
(* TwoFactor: a code once, and an account with the factor on has codes.    *)
(*                                                                         *)
(* Erasure: what a deleted account leaves, and what it does not.           *)
(*                                                                         *)
(* Anomalies: one open row an actor and kind, alerted by who inserted it.  *)
(*                                                                         *)
(* Metering: the quotas of the keys, and the rate of the limiter.          *)
(***************************************************************************)
EXTENDS Withdrawal, Sessions, TwoFactor, Erasure, Anomalies, Metering, FiniteSetTheorems, TLAPS

-----------------------------------------------------------------------------
\* What the lock's exclusion needs to know of the handlers.
LockInv == pc \in [Handlers -> Statements] /\ OneSummer

\* A step keeps the lock's exclusion.
LEMMA LockStep == ASSUME LockInv, [Next]_vars PROVE LockInv'
<1> USE NoHandlerAssumption DEF LockInv, OneSummer, Statements, At, Goto, End
<1>1. ASSUME NEW a \in Amounts, OrderSettles(a) PROVE LockInv'
  BY <1>1 DEF OrderSettles
<1>2. ASSUME NEW h \in Handlers, NEW a \in Amounts, Request(h, a) PROVE LockInv'
  BY <1>2 DEF Request
<1>3. ASSUME NEW h \in Handlers, SettledCentsOf(h) PROVE LockInv'
  BY <1>3 DEF SettledCentsOf
<1>4. ASSUME NEW h \in Handlers, Lock(h) PROVE LockInv'
  BY <1>4 DEF Lock
<1>5. ASSUME NEW h \in Handlers, Sum(h) PROVE LockInv'
  BY <1>5 DEF Sum, SumOf
<1>6. ASSUME NEW h \in Handlers, Insert(h) PROVE LockInv'
  BY <1>6 DEF Insert
<1>7. ASSUME NEW h \in Handlers, NEW r \in Requests, Commit(h, r) PROVE LockInv'
  BY <1>7 DEF Commit
<1>8. ASSUME NEW h \in Handlers, Rollback(h) PROVE LockInv'
  BY <1>8 DEF Rollback
<1>9. ASSUME NEW r \in Requests, Approve(r) \/ Reject(r) \/ Complete(r) PROVE LockInv'
  BY <1>9 DEF Approve, Reject, Complete, Transition
<1>10. CASE UNCHANGED vars
  BY <1>10 DEF vars
<1> QED BY <1>1, <1>2, <1>3, <1>4, <1>5, <1>6, <1>7, <1>8, <1>9, <1>10 DEF Next


\* Two requests of a seller are never between the sum of the outstanding
\* withdrawals and the commit at once (pg_advisory_xact_lock).
THEOREM OneSummerCorrect == Spec => []OneSummer
<1>1. Init => LockInv
  BY DEF Init, LockInv, OneSummer, Statements
<1>2. LockInv /\ [Next]_vars => LockInv'
  BY LockStep
<1>3. LockInv => OneSummer
  BY DEF LockInv
<1> QED BY <1>1, <1>2, <1>3, PTL DEF Spec

\* The rows are functions on the requests.
RowsInv == status \in [Requests -> Statuses] /\ DOMAIN cents = Requests

\* No decision is ever revised and no amount changed (Transition's WHERE status=from).
THEOREM DecisionsFinalCorrect == Spec => DecisionsFinal
<1>1. Init => RowsInv
  BY DEF Init, RowsInv, Statuses
<1>2. ASSUME RowsInv, [Next]_vars
      PROVE  /\ RowsInv'
             /\ \A r \in Requests :
                  /\ status[r] = "approved" => status'[r] \in {"approved", "completed"}
                  /\ status[r] \in {"completed", "rejected"} => status'[r] = status[r]
                  /\ status[r] # "none" => cents'[r] = cents[r]
  <2> USE <1>2 DEF RowsInv, Statuses
  <2>1. ASSUME NEW h \in Handlers, NEW q \in Requests, Commit(h, q)
        PROVE  /\ RowsInv'
               /\ \A r \in Requests : status[r] # "none" => UNCHANGED <<status[r], cents[r]>>
    BY <2>1 DEF Commit
  <2>2. ASSUME NEW q \in Requests, Approve(q) \/ Reject(q) \/ Complete(q)
        PROVE  /\ RowsInv' /\ UNCHANGED cents
               /\ \A r \in Requests : \/ UNCHANGED status[r]
                                      \/ status[r] = "pending"
                                      \/ status[r] = "approved" /\ status'[r] = "completed"
    BY <2>2 DEF Approve, Reject, Complete, Transition
  <2>3. ASSUME \/ \E a \in Amounts : OrderSettles(a)
               \/ \E h \in Handlers, a \in Amounts : Request(h, a)
               \/ \E h \in Handlers : SettledCentsOf(h) \/ Lock(h) \/ Sum(h) \/ Insert(h) \/ Rollback(h)
               \/ UNCHANGED vars
        PROVE  UNCHANGED requestRows
    BY <2>3 DEF OrderSettles, Request, SettledCentsOf, Lock, Sum, SumOf, Insert, Rollback, vars
  <2> QED BY <2>1, <2>2, <2>3 DEF Next, requestRows
<1>3. RowsInv /\ [Next]_vars =>
        RowsInv' /\ [\A r \in Requests :
                      /\ status[r] = "approved" => status'[r] \in {"approved", "completed"}
                      /\ status[r] \in {"completed", "rejected"} => status'[r] = status[r]
                      /\ status[r] # "none" => cents'[r] = cents[r]]_vars
  BY <1>2
<1> QED BY <1>1, <1>3, PTL DEF Spec, DecisionsFinal

\* The cents of some rows are finitely many.
LEMMA PileOf ==
  ASSUME NEW D, IsFiniteSet(D), NEW amount \in [D -> Nat], NEW ids \in SUBSET D
  PROVE  /\ IsFiniteSet(CentsOf(amount, ids)) /\ Cardinality(CentsOf(amount, ids)) \in Nat
         /\ \A p \in CentsOf(amount, ids) : p[1] \in ids
<1> DEFINE pile(r) == {r} \X (1 .. amount[r])
<1>1. ASSUME NEW r \in ids PROVE IsFiniteSet(pile(r))
  <2>0. amount[r] \in Int
    OBVIOUS
  <2>1. IsFiniteSet({r}) /\ IsFiniteSet(1 .. amount[r])
    <3>1. IsFiniteSet(1 .. amount[r])
      BY <2>0, FS_Interval
    <3> QED
      BY <3>1, FS_Singleton
  <2> HIDE DEF pile
  <2>2. IsFiniteSet({r} \X (1 .. amount[r]))
    BY <2>1, FS_Product, Zenon
  <2> QED
    BY <2>2 DEF pile
<1>2. IsFiniteSet(ids)
  BY FS_Subset
<1> DEFINE f == [r \in ids |-> pile(r)]
           piles == {pile(r) : r \in ids}
<1>3. IsFiniteSet(piles)
  <2>1. f \in Surjection(ids, piles)
    BY DEF Surjection
  <2> HIDE DEF f, piles
  <2> QED
    BY <1>2, <2>1, FS_Surjection
<1>4. \A T \in {pile(r) : r \in ids} : IsFiniteSet(T)
  BY <1>1
<1>5. IsFiniteSet(UNION {pile(r) : r \in ids})
  BY <1>3, <1>4, FS_UNION
<1>6. IsFiniteSet(CentsOf(amount, ids))
  BY <1>5 DEF CentsOf
<1> QED
  BY <1>6, FS_CardinalityType DEF CentsOf

\* One more row adds its cents.
LEMMA PileGrows ==
  ASSUME NEW D, IsFiniteSet(D), NEW amount \in [D -> Nat], NEW ids \in SUBSET D,
         NEW r \in D, r \notin ids
  PROVE  Cardinality(CentsOf(amount, ids \cup {r})) = Cardinality(CentsOf(amount, ids)) + amount[r]
<1> DEFINE pile == {r} \X (1 .. amount[r])
<1>1. IsFiniteSet(pile) /\ Cardinality(pile) = amount[r]
  <2>1. IsFiniteSet({r}) /\ Cardinality({r}) = 1
    BY FS_Singleton
  <2>2. IsFiniteSet(1 .. amount[r]) /\ Cardinality(1 .. amount[r]) = amount[r]
    BY FS_Interval
  <2> DEFINE A == {r}
             B == 1 .. amount[r]
  <2>3. amount[r] \in Nat
    OBVIOUS
  <2> HIDE DEF A, B
  <2>4. IsFiniteSet(A \X B) /\ Cardinality(A \X B) = Cardinality(A) * Cardinality(B)
    BY <2>1, <2>2, FS_Product, Zenon DEF A, B
  <2>5. Cardinality(A \X B) = amount[r]
    BY <2>1, <2>2, <2>3, <2>4 DEF A, B
  <2> QED
    BY <2>4, <2>5 DEF A, B
<1>2. CentsOf(amount, ids \cup {r}) = CentsOf(amount, ids) \cup pile
  BY DEF CentsOf
<1>3. CentsOf(amount, ids) \cap pile = {}
  BY DEF CentsOf
<1> HIDE DEF pile
<1>4. IsFiniteSet(CentsOf(amount, ids)) /\ Cardinality(CentsOf(amount, ids)) \in Nat
  BY PileOf
<1>5. Cardinality(CentsOf(amount, ids) \cap pile) = 0
  BY <1>3, FS_EmptySet
<1>6. amount[r] \in Nat
  OBVIOUS
<1> DEFINE k == Cardinality(CentsOf(amount, ids))
           m == Cardinality(CentsOf(amount, ids \cup {r}))
<1>7. m = k + Cardinality(pile) - Cardinality(CentsOf(amount, ids) \cap pile)
  BY <1>1, <1>2, <1>4, FS_Union, Zenon
<1>8. k \in Nat
  BY <1>4
<1> HIDE DEF k, m
<1>9. m = k + amount[r]
  BY <1>1, <1>5, <1>6, <1>7, <1>8
<1> QED
  BY <1>9 DEF k, m

\* What a step does to the money spoken for: a commit adds what was asked for, a rejection
\* returns the row's cents, and no other step moves it.
LEMMA TotalMoves ==
  ASSUME TypeOK
  PROVE  /\ Total(Outstanding) \in Nat
         /\ UNCHANGED requestRows => UNCHANGED Total(Outstanding)
         /\ \A h \in Handlers, r \in Requests :
              Commit(h, r) => Total(Outstanding)' = Total(Outstanding) + ask[h]
         /\ \A r \in Requests : Approve(r) \/ Complete(r) => UNCHANGED Total(Outstanding)
         /\ \A r \in Requests : Reject(r) => Total(Outstanding)' + cents[r] = Total(Outstanding)
<1> USE BoundsAssumption DEF TypeOK, Outstanding, Statuses
<1> DEFINE out == WithStatus(Outstanding)
<1>0. cents \in [Requests -> Nat] /\ ask \in [Handlers -> Nat]
  <2>1. Amounts \cup {0} \subseteq Nat
    OBVIOUS
  <2> QED
    BY <2>1
<1>1. Total(Outstanding) \in Nat
  BY <1>0, BoundsAssumption, PileOf DEF Total, WithStatus
<1>2. ASSUME UNCHANGED requestRows PROVE UNCHANGED Total(Outstanding)
  BY <1>2 DEF requestRows, Total, WithStatus
<1>3. ASSUME NEW h \in Handlers, NEW r \in Requests, Commit(h, r)
      PROVE  Total(Outstanding)' = Total(Outstanding) + ask[h]
  <2>1. out' = out \cup {r} /\ r \notin out /\ out \in SUBSET Requests
    BY <1>3 DEF Commit, WithStatus
  <2>2. cents' \in [Requests -> Nat] /\ cents'[r] = ask[h]
    BY <1>0, <1>3 DEF Commit
  <2>3. Cardinality(CentsOf(cents', out \cup {r})) = Cardinality(CentsOf(cents', out)) + ask[h]
    BY <2>1, <2>2, BoundsAssumption, PileGrows
  <2>4. CentsOf(cents', out) = CentsOf(cents, out)
    <3>1. \A q \in out : cents'[q] = cents[q]
      BY <1>0, <1>3, <2>1 DEF Commit, WithStatus
    <3> QED
      BY <3>1 DEF CentsOf
  <2> QED
    BY <2>1, <2>3, <2>4 DEF Total
<1>4. ASSUME NEW r \in Requests, Approve(r) \/ Complete(r) PROVE UNCHANGED Total(Outstanding)
  <2>1. out' = out /\ UNCHANGED cents
    BY <1>4 DEF Approve, Complete, Transition, WithStatus
  <2> QED
    BY <2>1 DEF Total
<1>5. ASSUME NEW r \in Requests, Reject(r)
      PROVE Total(Outstanding)' + cents[r] = Total(Outstanding)
  <2>1. out = out' \cup {r} /\ r \notin out' /\ out' \in SUBSET Requests /\ UNCHANGED cents
    BY <1>5 DEF Reject, Transition, WithStatus
  <2>2. PICK less : less = out'
    OBVIOUS
  <2>3. Cardinality(CentsOf(cents, less \cup {r})) = Cardinality(CentsOf(cents, less)) + cents[r]
    BY <1>0, <2>1, <2>2, BoundsAssumption, PileGrows
  <2> QED
    BY <2>1, <2>2, <2>3 DEF Total
<1> QED
  BY <1>1, <1>2, <1>3, <1>4, <1>5

\* What is spoken for was earned; a handler's earnings are no newer than the orders, and what
\* it is about to insert is covered by what it has read.
BalanceInv ==
  /\ Total(Outstanding) <= settled
  /\ \A r \in Requests : status[r] # "none" => cents[r] \in Amounts
  /\ \A h \in Handlers : /\ pc[h] # "idle" => ask[h] \in Amounts
                         /\ earned[h] <= settled
                         /\ pc[h] = "Commit" => ask[h] <= earned[h] - spent[h]

WithdrawalIInv == WithdrawalInv /\ BalanceInv

LEMMA WithdrawalStep == WithdrawalIInv /\ [Next]_vars => WithdrawalIInv'
<1> SUFFICES ASSUME WithdrawalIInv, [Next]_vars PROVE WithdrawalIInv'
  OBVIOUS
<1> DEFINE total == Total(Outstanding)
<1>0. TypeOK /\ OneSummer /\ SumNotStale /\ BalanceInv /\ total \in Nat
  BY TotalMoves DEF WithdrawalIInv, WithdrawalInv
<1>a. OneSummer'
  BY <1>0, LockStep DEF LockInv, TypeOK
<1>b. Amounts \cup {0} \subseteq Nat /\ cents \in [Requests -> Nat] /\ ask \in [Handlers -> Nat]
  <2>1. Amounts \cup {0} \subseteq Nat
    BY BoundsAssumption
  <2> QED
    BY <1>0, <2>1 DEF TypeOK
<1> HIDE DEF total
<1> DEFINE Kept == TypeOK /\ SumNotStale /\ BalanceInv
<1> USE <1>0, BoundsAssumption
        DEF TypeOK, SumNotStale, BalanceInv, Statements, Statuses, At, Goto, End, reads
<1>1. ASSUME NEW a \in Amounts, OrderSettles(a) PROVE Kept'
  <2>1. UNCHANGED total
    BY <1>1, TotalMoves DEF OrderSettles, requestRows, total
  <2> QED
    BY <1>1, <2>1 DEF OrderSettles, requestRows, total
<1>2. ASSUME NEW h \in Handlers, NEW a \in Amounts, Request(h, a) PROVE Kept'
  <2>1. UNCHANGED total
    BY <1>2, TotalMoves DEF Request, requestRows, total
  <2> QED
    BY <1>2, <2>1 DEF Request, requestRows, total
<1>3. ASSUME NEW h \in Handlers, SettledCentsOf(h) PROVE Kept'
  <2>1. UNCHANGED total
    BY <1>3, TotalMoves DEF SettledCentsOf, requestRows, total
  <2> QED
    BY <1>3, <2>1 DEF SettledCentsOf, requestRows, total
<1>4. ASSUME NEW h \in Handlers, Lock(h) PROVE Kept'
  <2>1. UNCHANGED total
    BY <1>4, TotalMoves DEF Lock, requestRows, total
  <2> QED
    BY <1>4, <2>1 DEF Lock, requestRows, total
<1>5. ASSUME NEW h \in Handlers, Sum(h) PROVE Kept'
  <2>1. UNCHANGED total
    BY <1>5, TotalMoves DEF Sum, SumOf, requestRows, total
  <2> QED
    BY <1>5, <2>1 DEF Sum, SumOf, requestRows, total
<1>6. ASSUME NEW h \in Handlers, Insert(h) PROVE Kept'
  <2>1. UNCHANGED total
    BY <1>6, TotalMoves DEF Insert, requestRows, total
  <2> QED
    BY <1>6, <2>1 DEF Insert, requestRows, total
<1>7. ASSUME NEW h \in Handlers, NEW r \in Requests, Commit(h, r) PROVE Kept'
  <2>1. total' = total + ask[h]
    BY <1>7, TotalMoves DEF Commit, requestRows, total
  <2>2. ask[h] \in Nat /\ ask[h] \in Amounts /\ earned[h] \in Nat /\ spent[h] \in Nat /\ settled \in Nat
    <3>1. ask[h] \in Nat
      BY <1>b
    <3>2. ask[h] \in Amounts
      BY <1>7 DEF Commit
    <3> QED
      BY <3>1, <3>2
  <2>3. /\ total <= spent[h] /\ ask[h] <= earned[h] - spent[h] /\ earned[h] <= settled
    BY <1>7 DEF Commit, total
  <2>4. total' <= settled'
    BY <1>0, <1>7, <2>1, <2>2, <2>3 DEF Commit
  <2>5. \A g \in Handlers : pc'[g] \notin {"Insert", "Commit"}
    BY <1>7 DEF Commit, OneSummer
  <2>6. TypeOK'
    BY <1>7, <2>2 DEF Commit
  <2>7. SumNotStale'
    BY <2>5
  <2>8. BalanceInv'
    BY <1>7, <2>2, <2>4, <2>5 DEF Commit, total
  <2> QED
    BY <2>6, <2>7, <2>8
<1>8. ASSUME NEW h \in Handlers, Rollback(h) PROVE Kept'
  <2>1. UNCHANGED total
    BY <1>8, TotalMoves DEF Rollback, requestRows, total
  <2> QED
    BY <1>8, <2>1 DEF Rollback, requestRows, total
<1>9. ASSUME NEW r \in Requests, Approve(r) \/ Complete(r) PROVE Kept'
  <2>1. UNCHANGED total
    BY <1>9, TotalMoves DEF Approve, Complete, Transition, requestRows, total
  <2> QED
    BY <1>9, <2>1 DEF Approve, Complete, Transition, requestRows, total
<1>10. ASSUME NEW r \in Requests, Reject(r) PROVE Kept'
  <2>1. total' + cents[r] = total
    BY <1>10, TotalMoves DEF Reject, Transition, requestRows, total
  <2>2. cents[r] \in Nat
    BY <1>b
  <2>3. total' \in Nat /\ total' <= total
    <3>1. total' \in Nat
      <4>1. TypeOK'
        BY <1>10 DEF Reject, Transition
      <4>2. cents' \in [Requests -> Nat] /\ WithStatus(Outstanding)' \in SUBSET Requests
        BY <1>b, <1>10 DEF Reject, Transition, WithStatus
      <4> QED
        BY <4>2, BoundsAssumption, PileOf DEF total, Total
    <3> QED
      BY <2>1, <2>2, <3>1
  <2>4. TypeOK' /\ UNCHANGED <<settled, lock, pc, ask, reads, cents>>
    BY <1>10 DEF Reject, Transition
  <2>5. SumNotStale'
    <3>1. ASSUME NEW g \in Handlers, pc'[g] \in {"Insert", "Commit"} PROVE total' <= spent'[g]
      <4>1. total <= spent[g] /\ spent[g] \in Nat
        BY <2>4, <3>1 DEF total
      <4> QED
        BY <2>3, <2>4, <4>1
    <3> QED
      BY <3>1 DEF total
  <2>6. BalanceInv'
    <3>1. total' <= settled'
      BY <2>3, <2>4 DEF total
    <3>2. \A q \in Requests : status'[q] # "none" => cents'[q] \in Amounts
      BY <1>10 DEF Reject, Transition
    <3> QED
      BY <2>4, <3>1, <3>2 DEF total
  <2> QED
    BY <2>4, <2>5, <2>6
<1>11. ASSUME UNCHANGED vars PROVE Kept'
  <2>1. UNCHANGED total
    BY <1>11, TotalMoves DEF vars, total
  <2>2. UNCHANGED <<settled, status, cents, lock, pc, ask, earned, spent>>
    BY <1>11 DEF vars, requestRows
  <2>3. TypeOK'
    BY <2>2
  <2>4. SumNotStale' /\ BalanceInv'
    BY <2>1, <2>2 DEF total
  <2> QED
    BY <2>3, <2>4
<1> QED
  BY <1>a, <1>1, <1>2, <1>3, <1>4, <1>5, <1>6, <1>7, <1>8, <1>9, <1>10, <1>11
     DEF Next, WithdrawalIInv, WithdrawalInv

\* Nothing is spoken for before the first request ...
LEMMA WithdrawalStart == Init => WithdrawalIInv
<1> SUFFICES ASSUME Init PROVE WithdrawalIInv
  OBVIOUS
<1> USE BoundsAssumption, NoHandlerAssumption DEF Init
<1>1. TypeOK
  BY DEF TypeOK, Statuses, Statements
<1>2. Total(Outstanding) = 0
  <2>1. CentsOf(cents, WithStatus(Outstanding)) = {}
    BY DEF CentsOf, WithStatus, Outstanding
  <2> QED
    BY <2>1, FS_EmptySet DEF Total
<1>3. OneSummer /\ SumNotStale /\ BalanceInv
  BY <1>2 DEF OneSummer, SumNotStale, BalanceInv
<1> QED
  BY <1>1, <1>3 DEF WithdrawalIInv, WithdrawalInv

\* Types, the exclusion of the sums, and that no other step makes a sum too low, for any
\* numbers of handlers, rows and cents (withdrawal/repo.go CreateWithinBudget).
THEOREM WithdrawalCorrect == Spec => []WithdrawalInv
<1>1. WithdrawalIInv => WithdrawalInv
  BY DEF WithdrawalIInv
<1> QED
  BY WithdrawalStart, WithdrawalStep, <1>1, PTL DEF Spec

\* Every step of the handlers is one of the account, or leaves it alone.
LEMMA AccountStep == WithdrawalIInv /\ WithdrawalIInv' /\ [Next]_vars =>
                     [Acc!Next]_<<settled, Total(Outstanding)>>
<1> SUFFICES ASSUME WithdrawalIInv, WithdrawalIInv', [Next]_vars
             PROVE  [Acc!Next]_<<settled, Total(Outstanding)>>
  OBVIOUS
<1> DEFINE total == Total(Outstanding)
<1>0. /\ TypeOK /\ TypeOK' /\ BalanceInv /\ BalanceInv'
      /\ total \in Nat /\ total <= settled /\ total' <= settled'
  BY TotalMoves DEF WithdrawalIInv, WithdrawalInv, BalanceInv
<1> HIDE DEF total
<1> USE BoundsAssumption
<1>1. ASSUME NEW a \in Amounts, OrderSettles(a) PROVE Acc!Earn
  <2>1. UNCHANGED total /\ settled' > settled
    BY <1>0, <1>1, TotalMoves DEF OrderSettles, requestRows, TypeOK, total
  <2> QED
    BY <2>1 DEF Acc!Earn, total
<1>2. ASSUME NEW h \in Handlers, NEW r \in Requests, Commit(h, r) PROVE Acc!Take
  <2>1. total' = total + ask[h] /\ UNCHANGED settled
    BY <1>0, <1>2, TotalMoves DEF Commit, total
  <2>2. ask[h] \in Nat \ {0}
    BY <1>0, <1>2 DEF Commit, At, BalanceInv
  <2>3. total' > total /\ total' <= settled
    BY <1>0, <2>1, <2>2
  <2> QED
    BY <2>1, <2>3 DEF Acc!Take, total
<1>3. ASSUME NEW r \in Requests, Reject(r) PROVE Acc!Return
  <2>1. total' + cents[r] = total /\ UNCHANGED settled
    BY <1>0, <1>3, TotalMoves DEF Reject, Transition, total
  <2>2. cents[r] \in Nat \ {0}
    BY <1>0, <1>3 DEF Reject, Transition, BalanceInv
  <2>3. total' \in Nat
    <3>1. cents' \in [Requests -> Amounts \cup {0}] /\ Amounts \cup {0} \subseteq Nat
      BY <1>0 DEF TypeOK
    <3>2. cents' \in [Requests -> Nat] /\ WithStatus(Outstanding)' \in SUBSET Requests
      BY <3>1 DEF WithStatus
    <3> QED
      BY <3>2, BoundsAssumption, PileOf DEF total, Total
  <2>4. total' \in 0 .. total - 1
    BY <1>0, <2>1, <2>2, <2>3
  <2> QED
    BY <2>1, <2>4 DEF Acc!Return, total
<1>4. ASSUME NEW r \in Requests, Approve(r) \/ Complete(r) PROVE UNCHANGED <<settled, total>>
  BY <1>0, <1>4, TotalMoves DEF Approve, Complete, Transition, total
<1>5. ASSUME \/ \E h \in Handlers, a \in Amounts : Request(h, a)
             \/ \E h \in Handlers : SettledCentsOf(h) \/ Lock(h) \/ Sum(h) \/ Insert(h) \/ Rollback(h)
             \/ UNCHANGED vars
      PROVE  UNCHANGED <<settled, total>>
  <2>1. UNCHANGED <<settled, requestRows>>
    BY <1>5 DEF Request, SettledCentsOf, Lock, Sum, SumOf, Insert, Rollback, vars
  <2> QED
    BY <1>0, <2>1, TotalMoves DEF total
<1> QED
  BY <1>1, <1>2, <1>3, <1>4, <1>5 DEF Next, Acc!Next, total

\* However requests race, the withdrawals take from the seller's earnings what is left of them
\* and no more, each at once, and no decision is revised
\* (withdrawal/service.go, withdrawal/repo.go).
THEOREM PayoutsCorrect == Spec => PayoutsKept
<1>1. Init => Acc!Init
  <2>1. Init => settled = 0 /\ Total(Outstanding) = 0
    <3> SUFFICES ASSUME Init PROVE Total(Outstanding) = 0
      BY DEF Init
    <3>1. CentsOf(cents, WithStatus(Outstanding)) = {}
      BY DEF Init, CentsOf, WithStatus, Outstanding
    <3> QED
      BY <3>1, FS_EmptySet DEF Total
  <2> QED
    BY <2>1 DEF Acc!Init
<1>2. WithdrawalIInv /\ [Next]_vars => WithdrawalIInv'
  BY WithdrawalStep
<1> QED
  BY WithdrawalStart, <1>1, <1>2, AccountStep, DecisionsFinalCorrect, PTL
     DEF Spec, PayoutsKept, ImplementsAccount, Acc!Spec

-----------------------------------------------------------------------------
\* A login or a refresh under way, and a password reset.
Signing   == [stage: {"login", "attempt", "issue", "refresh", "rotate"}, pw: Nat, seen: Nat,
              late: BOOLEAN, from: SUBSET SessionTokens]
Resetting == [stage: {"consumed", "cleared", "changed"}, from: {{}}]
Issued    == [iat: 1 .. LastSecond, pw: Nat, late: BOOLEAN]

\* The types; how far the counters go is counted below.
SessionShape ==
    /\ second \in 1 .. LastSecond /\ validAfter \in 0 .. second
    /\ login \in [failures: Nat, lock: {"none", "live", "over"}]
    /\ passwords \in Nat /\ stamps \in Nat /\ unstamped \in BOOLEAN
    /\ reset \in [Resets -> {"none", "sent", "used"}]
    /\ token \in [SessionTokens -> {NoToken} \cup Issued]
    /\ denied \subseteq SessionTokens /\ excused \subseteq SessionTokens
    /\ request \in [SessionCalls -> {NoRequest} \cup Signing \cup Resetting]
    /\ uses \in [SessionTokens -> Nat]
    /\ sessionFaults \in 0 .. MaxSessionFaults

\* A call exchanges one token at most, and has its password and lateness from it.
CallFine(c) == request[c] # NoRequest =>
    /\ \A t, u \in request[c].from : t = u
    /\ \A t \in request[c].from : /\ token[t] # NoToken /\ request[c].pw = token[t].pw
                                  /\ request[c].late = token[t].late
    /\ request[c] \in Signing => request[c].seen <= stamps
    /\ request[c].stage \in {"login", "attempt"} => request[c].from = {} /\ ~request[c].late
    /\ request[c].stage = "refresh" => request[c].from # {}
CallsInv == \A c \in SessionCalls : CallFine(c)

\* What began with an older password is over since the last stamp, was read before it, or the
\* stamp is still due: the tokens, and the calls past the account's row.
EndInv ==
    /\ \A t \in SessionTokens : token[t] # NoToken =>
          /\ token[t].iat <= second
          /\ token[t].iat > validAfter /\ ~token[t].late /\ token[t].pw < passwords => unstamped
    /\ \A c \in SessionCalls :
          request[c].stage \in {"login", "attempt", "issue", "rotate"} /\ request[c].seen = stamps
            /\ ~request[c].late /\ request[c].pw < passwords => unstamped

\* One call exchanges a token, nobody once it was exchanged, and it is denied by then.
UsesInv == \A t \in SessionTokens \ excused :
    /\ \A c, d \in Exchanging(t) : c = d
    /\ uses[t] # 0 => t \in denied /\ Exchanging(t) = {}
    /\ \A c \in Exchanging(t) : request[c].stage = "issue" => t \in denied
    /\ uses[t] <= 1

\* The attempts past the lock's check, and a locked account's failures with those to come.
Attempting == {c \in SessionCalls : request[c].stage = "attempt"}
LockoutInv ==
    /\ login.lock = "none" <=> login.failures < MaxLoginFailures
    /\ login.failures < MaxLoginFailures + Cardinality(SessionCalls) + sessionFaults
    /\ login.lock = "live" => login.failures + Cardinality(Attempting)
                                < MaxLoginFailures + Cardinality(SessionCalls) + sessionFaults

\* A used reset token changes the password once and ends the sessions once.
Used      == {r \in Resets : reset[r] = "used"}
Unchanged == {c \in SessionCalls : request[c].stage \in {"consumed", "cleared"}}
Unended   == {c \in SessionCalls : request[c].stage \in {"consumed", "cleared", "changed"}}
ResetInv == /\ passwords + Cardinality(Unchanged) <= Cardinality(Used)
            /\ stamps + Cardinality(Unended) <= Cardinality(Used)

SessionIInv == SessionShape /\ CallsInv /\ EndInv /\ UsesInv /\ LockoutInv /\ ResetInv

\* What a call is, from its stage.
LEMMA CallKinds ==
  ASSUME SessionShape, NEW c \in SessionCalls
  PROVE  /\ NoRequest.stage = "idle" /\ (request[c].stage = "idle" <=> request[c] = NoRequest)
         /\ request[c].stage \in {"login", "attempt", "issue", "refresh", "rotate"}
              <=> request[c] \in Signing
         /\ request[c].stage \in {"consumed", "cleared", "changed"} <=> request[c] \in Resetting
         /\ request[c] \in Resetting => request[c].from = {} /\ request[c] \notin Signing
         /\ request[c].stage \in {"idle", "login", "attempt", "issue", "refresh", "rotate",
                                  "consumed", "cleared", "changed"}
<1>1. request[c] \in {NoRequest} \cup Signing \cup Resetting /\ NoRequest.stage = "idle"
  BY DEF SessionShape, NoRequest
<1>2. /\ \A r \in Signing : r.stage \in {"login", "attempt", "issue", "refresh", "rotate"}
      /\ \A r \in Resetting : r.stage \in {"consumed", "cleared", "changed"} /\ r.from = {}
  BY DEF Signing, Resetting
<1> QED
  BY <1>1, <1>2

\* A call begins, goes on and ends, while the others stay.
Alone(c) ==
    /\ request' \in [SessionCalls -> {NoRequest} \cup Signing \cup Resetting]
    /\ \A d \in SessionCalls \ {c} : request'[d] = request[d]
Began(c, s, w, l, f) ==
    /\ Alone(c) /\ request[c] = NoRequest /\ request'[c] \in Signing /\ request'[c] # NoRequest
    /\ request'[c].stage = s /\ request'[c].pw = w /\ request'[c].seen = stamps
    /\ request'[c].late = l /\ request'[c].from = f
Went(c, s, n) ==
    /\ Alone(c) /\ request[c] # NoRequest /\ request'[c] # NoRequest
    /\ request'[c].stage = s /\ request'[c].from = request[c].from
    /\ request'[c] \in Signing <=> request[c] \in Signing
    /\ request[c] \in Signing => /\ request'[c].pw = request[c].pw /\ request'[c].seen = n
                                 /\ request'[c].late = request[c].late
Left(c) == Alone(c) /\ request'[c] = NoRequest

LEMMA Calls ==
  ASSUME SessionShape, NEW c \in SessionCalls
  PROVE  /\ Ends(c) => Left(c)
         /\ \A s \in {"attempt", "issue"} : request[c] \in Signing /\ Goes(c, s)
              => Went(c, s, request[c].seen)
         /\ \A s \in {"cleared", "changed"} : request[c] \in Resetting /\ Goes(c, s)
              => Went(c, s, 0)
         /\ request[c] \in Signing /\
            request' = [request EXCEPT ![c].stage = "rotate", ![c].seen = stamps]
              => Went(c, "rotate", stamps)
<1> DEFINE T == {NoRequest} \cup Signing \cup Resetting
<1>1. request \in [SessionCalls -> T]
  BY DEF SessionShape
<1>2. /\ \A r \in Signing : r # NoRequest /\ r \notin Resetting
      /\ \A r \in Resetting : r # NoRequest
  <2>1. /\ \A r \in Signing : r.stage \in {"login", "attempt", "issue", "refresh", "rotate"}
        /\ \A r \in Resetting : r.stage \in {"consumed", "cleared", "changed"}
        /\ NoRequest.stage = "idle"
    BY DEF Signing, Resetting, NoRequest
  <2> QED
    BY <2>1
<1>3. ASSUME NEW r \in T, request' = [request EXCEPT ![c] = r]
      PROVE  Alone(c) /\ request'[c] = r
  BY <1>1, <1>3 DEF Alone
<1>4. ASSUME Ends(c) PROVE Left(c)
  BY <1>3, <1>4 DEF Ends, Left
<1>5. ASSUME NEW s \in {"attempt", "issue"}, request[c] \in Signing, Goes(c, s)
      PROVE  Went(c, s, request[c].seen)
  <2> DEFINE b == request[c]
             r == [b EXCEPT !.stage = s]
  <2>1. r \in Signing /\ r.stage = s /\ r.from = b.from /\ r.pw = b.pw /\ r.seen = b.seen
    BY <1>5 DEF Signing
  <2>2. r.late = b.late
    BY <1>5 DEF Signing
  <2>3. request' = [request EXCEPT ![c] = r]
    BY <1>1, <1>5 DEF Goes
  <2> HIDE DEF r
  <2>4. Alone(c) /\ request'[c] = r
    BY <1>3, <2>1, <2>3
  <2> QED
    BY <1>2, <1>5, <2>1, <2>2, <2>4 DEF Went
<1>6. ASSUME NEW s \in {"cleared", "changed"}, request[c] \in Resetting, Goes(c, s)
      PROVE  Went(c, s, 0)
  <2> DEFINE b == request[c]
             r == [b EXCEPT !.stage = s]
  <2>1. r \in Resetting /\ r.stage = s /\ r.from = b.from
    BY <1>6 DEF Resetting
  <2>3. request' = [request EXCEPT ![c] = r]
    BY <1>1, <1>6 DEF Goes
  <2> HIDE DEF r
  <2>4. Alone(c) /\ request'[c] = r
    BY <1>3, <2>1, <2>3
  <2> QED
    BY <1>2, <1>6, <2>1, <2>4 DEF Went
<1>7. ASSUME request[c] \in Signing,
             request' = [request EXCEPT ![c].stage = "rotate", ![c].seen = stamps]
      PROVE  Went(c, "rotate", stamps)
  <2> DEFINE b == request[c]
             r == [b EXCEPT !.stage = "rotate", !.seen = stamps]
  <2>1. r \in Signing /\ r.stage = "rotate" /\ r.from = b.from /\ r.pw = b.pw /\ r.seen = stamps
    BY <1>7 DEF Signing, SessionShape
  <2>2. r.late = b.late
    BY <1>7 DEF Signing
  <2>3. request' = [request EXCEPT ![c] = r]
    BY <1>1, <1>7
  <2> HIDE DEF r
  <2>4. Alone(c) /\ request'[c] = r
    BY <1>3, <2>1, <2>3
  <2> QED
    BY <1>2, <1>7, <2>1, <2>2, <2>4 DEF Went
<1> QED
  BY <1>4, <1>5, <1>6, <1>7

\* What each step does to the calls.
LEMMA CallMoves ==
  ASSUME SessionShape, NEW c \in SessionCalls
  PROVE  /\ LoginRead(c) => Began(c, "login", passwords, FALSE, {})
         /\ LoginLockedUntil(c) => request[c].stage = "login" /\
                                   (Left(c) \/ Went(c, "attempt", request[c].seen))
         /\ RecordLoginFailure(c) => request[c].stage = "attempt" /\ Left(c)
         /\ ClearLoginFailures(c) =>
              \/ request[c].stage = "attempt" /\ Went(c, "issue", request[c].seen)
              \/ request[c].stage = "consumed" /\ Went(c, "cleared", 0)
         /\ \A t \in SessionTokens : IsRevoked(c, t) => 
              Began(c, "refresh", token[t].pw, token[t].late, {t})
         /\ RefreshRead(c) =>
              request[c].stage = "refresh" /\ (Left(c) \/ Went(c, "rotate", stamps))
         /\ Revoke(c) => request[c].stage = "rotate" /\ Went(c, "issue", request[c].seen)
         /\ Issue(c) => request[c].stage = "issue" /\ Left(c)
         /\ \A r \in Resets : ConsumePasswordResetToken(c, r) =>
              /\ Alone(c) /\ request[c] = NoRequest /\ request'[c] \notin Signing
              /\ request'[c].stage = "consumed" /\ request'[c].from = {}
         /\ UpdatePassword(c) => request[c].stage = "cleared" /\ (Left(c) \/ Went(c, "changed", 0))
         /\ InvalidateSessions(c) => request[c].stage = "changed" /\ Left(c)
         /\ CallStops(c) => request[c] # NoRequest /\ Left(c)
<1>1. ASSUME LoginRead(c) PROVE Began(c, "login", passwords, FALSE, {})
  BY <1>1 DEF LoginRead, Began, Alone, SessionShape, Signing, NoRequest
<1>2. ASSUME NEW t \in SessionTokens, IsRevoked(c, t)
      PROVE  Began(c, "refresh", token[t].pw, token[t].late, {t})
  BY <1>2 DEF IsRevoked, Began, Alone, SessionShape, Signing, NoRequest, Issued
<1>3. ASSUME NEW r \in Resets, ConsumePasswordResetToken(c, r)
      PROVE  /\ Alone(c) /\ request[c] = NoRequest /\ request'[c] \notin Signing
             /\ request'[c].stage = "consumed" /\ request'[c].from = {}
  <2>1. /\ Alone(c) /\ request[c] = NoRequest
        /\ request'[c].stage = "consumed" /\ request'[c].from = {}
    BY <1>3 DEF ConsumePasswordResetToken, Alone, SessionShape, Resetting
  <2> QED
    BY <2>1 DEF Signing
<1>4. /\ LoginLockedUntil(c) => request[c].stage = "login" /\
                                (Left(c) \/ Went(c, "attempt", request[c].seen))
      /\ RecordLoginFailure(c) => request[c].stage = "attempt" /\ Left(c)
  BY Calls, CallKinds DEF LoginLockedUntil, RecordLoginFailure
<1>5. ClearLoginFailures(c) =>
         \/ request[c].stage = "attempt" /\ Went(c, "issue", request[c].seen)
         \/ request[c].stage = "consumed" /\ Went(c, "cleared", 0)
  BY Calls, CallKinds DEF ClearLoginFailures
<1>6. /\ RefreshRead(c) => request[c].stage = "refresh" /\ (Left(c) \/ Went(c, "rotate", stamps))
      /\ Revoke(c) => request[c].stage = "rotate" /\ Went(c, "issue", request[c].seen)
      /\ Issue(c) => request[c].stage = "issue" /\ Left(c)
  BY Calls, CallKinds DEF RefreshRead, Revoke, Issue
<1>7. /\ UpdatePassword(c) => request[c].stage = "cleared" /\ (Left(c) \/ Went(c, "changed", 0))
      /\ InvalidateSessions(c) => request[c].stage = "changed" /\ Left(c)
      /\ CallStops(c) => request[c] # NoRequest /\ Left(c)
  BY Calls, CallKinds DEF UpdatePassword, InvalidateSessions, CallStops
<1> QED
  BY <1>1, <1>2, <1>3, <1>4, <1>5, <1>6, <1>7

\* Every step keeps the types.
LEMMA SessionShapeStep == SessionShape /\ EndInv /\ [SessionsNext]_sessionVars => SessionShape'
<1> SUFFICES ASSUME SessionShape, EndInv, [SessionsNext]_sessionVars PROVE SessionShape'
  OBVIOUS
<1> USE SessionConstants DEF SessionShape, rowVars, history, Fine, Fault
<1>1. ASSUME NEW c \in SessionCalls, LoginRead(c) PROVE SessionShape'
  <2>1. request' \in [SessionCalls -> {NoRequest} \cup Signing \cup Resetting]
    BY <1>1, CallMoves DEF Alone, Began, Went, Left
  <2> QED
    BY <1>1, <2>1 DEF LoginRead
<1>2. ASSUME NEW c \in SessionCalls, LoginLockedUntil(c) PROVE SessionShape'
  <2>1. request' \in [SessionCalls -> {NoRequest} \cup Signing \cup Resetting]
    BY <1>2, CallMoves DEF Alone, Began, Went, Left
  <2> QED
    BY <1>2, <2>1 DEF LoginLockedUntil
<1>3. ASSUME NEW c \in SessionCalls, RecordLoginFailure(c) PROVE SessionShape'
  <2>1. request' \in [SessionCalls -> {NoRequest} \cup Signing \cup Resetting]
    BY <1>3, CallMoves DEF Alone, Began, Went, Left
  <2>2. login' \in [failures: Nat, lock: {"none", "live", "over"}]
    BY <1>3 DEF RecordLoginFailure, AfterFailure
  <2> QED
    BY <1>3, <2>1, <2>2 DEF RecordLoginFailure
<1>4. ASSUME NEW c \in SessionCalls, ClearLoginFailures(c) PROVE SessionShape'
  <2>1. request' \in [SessionCalls -> {NoRequest} \cup Signing \cup Resetting]
    BY <1>4, CallMoves DEF Alone, Began, Went, Left
  <2> QED
    BY <1>4, <2>1 DEF ClearLoginFailures
<1>5. ASSUME NEW c \in SessionCalls, RefreshRead(c) PROVE SessionShape'
  <2>1. request' \in [SessionCalls -> {NoRequest} \cup Signing \cup Resetting]
    BY <1>5, CallMoves DEF Alone, Began, Went, Left
  <2> QED
    BY <1>5, <2>1 DEF RefreshRead
<1>6. ASSUME NEW c \in SessionCalls, Revoke(c) PROVE SessionShape'
  <2>1. request' \in [SessionCalls -> {NoRequest} \cup Signing \cup Resetting]
    BY <1>6, CallMoves DEF Alone, Began, Went, Left
  <2>2. request[c] \in Signing
    BY <1>6, CallKinds DEF Revoke
  <2>3. request[c].from \subseteq SessionTokens
    BY <2>2 DEF Signing
  <2> QED
    BY <1>6, <2>1, <2>3 DEF Revoke
<1>7. ASSUME NEW c \in SessionCalls, Issue(c) PROVE SessionShape'
  <2>1. request' \in [SessionCalls -> {NoRequest} \cup Signing \cup Resetting]
    BY <1>7, CallMoves DEF Alone, Began, Went, Left
  <2>2. request[c] \in Signing /\ \E u \in SessionTokens : token[u] = NoToken
    BY <1>7, CallKinds DEF Issue
  <2> DEFINE t == CHOOSE u \in SessionTokens : token[u] = NoToken
             l == request[c].late \/ request[c].seen < stamps
             new == [iat |-> second, pw |-> request[c].pw, late |-> l]
  <2>3. request[c].pw \in Nat
    BY <2>2 DEF Signing
  <2>4. l \in BOOLEAN
    BY <2>2 DEF Signing
  <2>5. token' = [token EXCEPT ![t] = new]
    BY <1>7 DEF Issue
  <2> HIDE DEF t, l
  <2>6. new \in Issued
    BY <2>3, <2>4 DEF Issued
  <2> HIDE DEF new
  <2>7. token' \in [SessionTokens -> {NoToken} \cup Issued]
    BY <2>5, <2>6
  <2>8. uses' \in [SessionTokens -> Nat]
    BY <1>7 DEF Issue
  <2> QED
    BY <1>7, <2>1, <2>7, <2>8 DEF Issue
<1>8. ASSUME NEW c \in SessionCalls, UpdatePassword(c) PROVE SessionShape'
  <2>1. request' \in [SessionCalls -> {NoRequest} \cup Signing \cup Resetting]
    BY <1>8, CallMoves DEF Alone, Began, Went, Left
  <2>2. passwords' \in Nat /\ unstamped' \in BOOLEAN /\ sessionFaults' \in 0 .. MaxSessionFaults
    <3>1. CASE passwords' = passwords + 1 /\ unstamped' = TRUE /\ Fine
      BY <3>1
    <3>2. CASE UNCHANGED <<passwords, unstamped>> /\ Fault
      BY <3>2
    <3> QED
      BY <1>8, <3>1, <3>2 DEF UpdatePassword
  <2>3. UNCHANGED <<second, login, validAfter, reset, token, denied, stamps, uses, excused>>
    BY <1>8 DEF UpdatePassword
  <2> QED
    BY <2>1, <2>2, <2>3
<1>9. ASSUME NEW c \in SessionCalls, InvalidateSessions(c) PROVE SessionShape'
  <2>1. request' \in [SessionCalls -> {NoRequest} \cup Signing \cup Resetting]
    BY <1>9, CallMoves DEF Alone, Began, Went, Left
  <2>2. /\ stamps' \in Nat /\ unstamped' \in BOOLEAN /\ sessionFaults' \in 0 .. MaxSessionFaults
        /\ validAfter' \in 0 .. second
    <3>1. CASE validAfter' = second /\ stamps' = stamps + 1 /\ unstamped' = FALSE /\ Fine
      <4>1. stamps' \in Nat /\ validAfter' \in 0 .. second
        BY <3>1
      <4>2. unstamped' \in BOOLEAN
        BY <3>1
      <4> QED
        BY <3>1, <4>1, <4>2
    <3>2. CASE UNCHANGED <<validAfter, stamps, unstamped>> /\ Fault
      BY <3>2
    <3> QED
      BY <1>9, <3>1, <3>2 DEF InvalidateSessions
  <2>3. UNCHANGED <<second, login, passwords, reset, token, denied, uses, excused>>
    BY <1>9 DEF InvalidateSessions
  <2> QED
    BY <2>1, <2>2, <2>3
<1>10. ASSUME NEW c \in SessionCalls, CallStops(c) PROVE SessionShape'
  <2>1. request' \in [SessionCalls -> {NoRequest} \cup Signing \cup Resetting]
    BY <1>10, CallMoves DEF Alone, Began, Went, Left
  <2> QED
    BY <1>10, <2>1 DEF CallStops
<1>11. ASSUME NEW c \in SessionCalls, NEW t \in SessionTokens, IsRevoked(c, t) PROVE SessionShape'
  <2>1. request' \in [SessionCalls -> {NoRequest} \cup Signing \cup Resetting]
    BY <1>11, CallMoves DEF Alone, Began, Went, Left
  <2> QED
    BY <1>11, <2>1 DEF IsRevoked
<1>12. ASSUME NEW c \in SessionCalls, NEW r \in Resets, ConsumePasswordResetToken(c, r)
       PROVE SessionShape'
  <2>1. request' \in [SessionCalls -> {NoRequest} \cup Signing \cup Resetting]
    BY <1>12, CallMoves DEF Alone, Began, Went, Left
  <2> QED
    BY <1>12, <2>1 DEF ConsumePasswordResetToken
<1>13. ASSUME NEW t \in SessionTokens, Logout(t) PROVE SessionShape'
  BY <1>13 DEF Logout
<1>14. ASSUME NEW r \in Resets, RequestPasswordReset(r) PROVE SessionShape'
  BY <1>14 DEF RequestPasswordReset
<1>15. CASE LockExpires
  BY <1>15 DEF LockExpires
<1>16. CASE Restart
  BY <1>16 DEF Restart
<1>17. CASE SecondPasses
  BY <1>17 DEF SecondPasses
<1>18. CASE UNCHANGED sessionVars
  BY <1>18 DEF sessionVars
<1> QED
  BY <1>1, <1>2, <1>3, <1>4, <1>5, <1>6, <1>7, <1>8, <1>9, <1>10, <1>11, <1>12, <1>13, <1>14,
     <1>15, <1>16, <1>17, <1>18 DEF SessionsNext

\* Every step keeps the calls so.
LEMMA CallsStep == SessionShape /\ CallsInv /\ [SessionsNext]_sessionVars => CallsInv'
<1> SUFFICES ASSUME SessionShape, CallsInv, [SessionsNext]_sessionVars PROVE CallsInv'
  OBVIOUS
<1> USE DEF CallsInv, CallFine
<1>1. ASSUME NEW c \in SessionCalls, LoginRead(c) PROVE CallsInv'
  <2>1. Began(c, "login", passwords, FALSE, {})
    BY <1>1, CallMoves
  <2>2. UNCHANGED <<token, stamps>>
    BY <1>1 DEF LoginRead, rowVars, history, Fine, Fault
  <2> QED
    BY <2>1, <2>2, CallKinds DEF SessionShape, Alone, Began, Went, Left
<1>2. ASSUME NEW c \in SessionCalls, LoginLockedUntil(c) PROVE CallsInv'
  <2>1. request[c].stage = "login" /\ (Left(c) \/ Went(c, "attempt", request[c].seen))
    BY <1>2, CallMoves
  <2>2. UNCHANGED <<token, stamps>>
    BY <1>2 DEF LoginLockedUntil, rowVars, history, Fine, Fault
  <2> QED
    BY <2>1, <2>2, CallKinds DEF SessionShape, Alone, Began, Went, Left
<1>3. ASSUME NEW c \in SessionCalls, RecordLoginFailure(c) PROVE CallsInv'
  <2>1. request[c].stage = "attempt" /\ Left(c)
    BY <1>3, CallMoves
  <2>2. UNCHANGED <<token, stamps>>
    BY <1>3 DEF RecordLoginFailure, rowVars, history, Fine, Fault
  <2> QED
    BY <2>1, <2>2, CallKinds DEF SessionShape, Alone, Began, Went, Left
<1>4. ASSUME NEW c \in SessionCalls, ClearLoginFailures(c) PROVE CallsInv'
  <2>1. \/ request[c].stage = "attempt" /\ Went(c, "issue", request[c].seen)
        \/ request[c].stage = "consumed" /\ Went(c, "cleared", 0)
    BY <1>4, CallMoves
  <2>2. UNCHANGED <<token, stamps>>
    BY <1>4 DEF ClearLoginFailures, rowVars, history, Fine, Fault
  <2>3. ASSUME NEW d \in SessionCalls, d # c PROVE CallFine(d)'
    BY <2>1, <2>2, <2>3 DEF SessionShape, Alone, Began, Went, Left
  <2>4. CallFine(c)'
    <3>1. CASE request[c].stage = "attempt" /\ Went(c, "issue", request[c].seen)
      BY <2>2, <3>1, CallKinds DEF SessionShape, Alone, Began, Went, Left
    <3>2. CASE request[c].stage = "consumed" /\ Went(c, "cleared", 0)
      BY <2>2, <3>2, CallKinds DEF SessionShape, Alone, Began, Went, Left
    <3> QED
      BY <2>1, <3>1, <3>2
  <2> QED
    BY <2>3, <2>4
<1>5. ASSUME NEW c \in SessionCalls, RefreshRead(c) PROVE CallsInv'
  <2>1. request[c].stage = "refresh" /\ (Left(c) \/ Went(c, "rotate", stamps))
    BY <1>5, CallMoves
  <2>2. UNCHANGED <<token, stamps>>
    BY <1>5 DEF RefreshRead, rowVars, history, Fine, Fault
  <2> QED
    BY <2>1, <2>2, CallKinds DEF SessionShape, Alone, Began, Went, Left
<1>6. ASSUME NEW c \in SessionCalls, Revoke(c) PROVE CallsInv'
  <2>1. request[c].stage = "rotate" /\ Went(c, "issue", request[c].seen)
    BY <1>6, CallMoves
  <2>2. UNCHANGED <<token, stamps>>
    BY <1>6 DEF Revoke, rowVars, history, Fine, Fault
  <2> QED
    BY <2>1, <2>2, CallKinds DEF SessionShape, Alone, Began, Went, Left
<1>7. ASSUME NEW c \in SessionCalls, Issue(c) PROVE CallsInv'
  <2>1. request[c].stage = "issue" /\ Left(c)
    BY <1>7, CallMoves
  <2>2. UNCHANGED stamps /\ \A t \in SessionTokens : token[t] # NoToken => token'[t] = token[t]
    BY <1>7 DEF Issue, rowVars, history, Fine, Fault
  <2>3. ASSUME NEW d \in SessionCalls, d # c PROVE CallFine(d)'
    <3>1. request'[d] = request[d] /\ CallFine(d)
      BY <2>1, <2>3 DEF Alone, Left
    <3>2. request[d] # NoRequest => request[d].from \subseteq SessionTokens
      BY DEF SessionShape, Signing, Resetting
    <3> QED
      BY <2>2, <3>1, <3>2
  <2>4. CallFine(c)'
    BY <2>1, <2>2, CallKinds DEF SessionShape, Alone, Began, Went, Left
  <2> QED
    BY <2>3, <2>4
<1>8. ASSUME NEW c \in SessionCalls, UpdatePassword(c) PROVE CallsInv'
  <2>1. request[c].stage = "cleared" /\ (Left(c) \/ Went(c, "changed", 0))
    BY <1>8, CallMoves
  <2>2. UNCHANGED <<token, stamps>>
    BY <1>8 DEF UpdatePassword, rowVars, history, Fine, Fault
  <2>3. ASSUME NEW d \in SessionCalls, d # c PROVE CallFine(d)'
    BY <2>1, <2>2, <2>3 DEF SessionShape, Alone, Began, Went, Left
  <2>4. CallFine(c)'
    <3>1. CASE request[c].stage = "cleared" /\ Left(c)
      BY <2>2, <3>1, CallKinds DEF SessionShape, Alone, Began, Went, Left
    <3>2. CASE request[c].stage = "cleared" /\ Went(c, "changed", 0)
      BY <2>2, <3>2, CallKinds DEF SessionShape, Alone, Began, Went, Left
    <3> QED
      BY <2>1, <3>1, <3>2
  <2> QED
    BY <2>3, <2>4
<1>9. ASSUME NEW c \in SessionCalls, InvalidateSessions(c) PROVE CallsInv'
  <2>1. request[c].stage = "changed" /\ Left(c)
    BY <1>9, CallMoves
  <2>2. UNCHANGED token /\ stamps' \in {stamps, stamps + 1}
    BY <1>9 DEF InvalidateSessions, rowVars, history, Fine, Fault
  <2>3. ASSUME NEW d \in SessionCalls, d # c PROVE CallFine(d)'
    <3>1. request[d] \in Signing => request[d].seen \in Nat
      BY DEF Signing
    <3>2. stamps \in Nat /\ stamps <= stamps' /\ stamps' \in Nat
      BY <2>2 DEF SessionShape
    <3>3. request'[d] = request[d] /\ CallFine(d)
      BY <2>1, <2>3 DEF Alone, Left
    <3> QED
      BY <2>2, <3>1, <3>2, <3>3
  <2>4. CallFine(c)'
    BY <2>1, <2>2, CallKinds DEF SessionShape, Alone, Began, Went, Left
  <2> QED
    BY <2>3, <2>4
<1>10. ASSUME NEW c \in SessionCalls, CallStops(c) PROVE CallsInv'
  <2>1. request[c] # NoRequest /\ Left(c)
    BY <1>10, CallMoves
  <2>2. UNCHANGED <<token, stamps>>
    BY <1>10 DEF CallStops, rowVars, history, Fine, Fault
  <2> QED
    BY <2>1, <2>2, CallKinds DEF SessionShape, Alone, Began, Went, Left
<1>11. ASSUME NEW c \in SessionCalls, NEW t \in SessionTokens, IsRevoked(c, t) PROVE CallsInv'
  <2>1. Began(c, "refresh", token[t].pw, token[t].late, {t})
    BY <1>11, CallMoves
  <2>2. UNCHANGED <<token, stamps>> /\ token[t] # NoToken
    BY <1>11 DEF IsRevoked, rowVars, history, Fine, Fault
  <2>3. ASSUME NEW d \in SessionCalls, d # c PROVE CallFine(d)'
    BY <2>1, <2>2, <2>3 DEF SessionShape, Alone, Began, Went, Left
  <2>4. CallFine(c)'
    BY <2>1, <2>2, CallKinds DEF SessionShape, Alone, Began, Went, Left
  <2> QED
    BY <2>3, <2>4
<1>12. ASSUME NEW c \in SessionCalls, NEW r \in Resets, ConsumePasswordResetToken(c, r)
       PROVE CallsInv'
  <2>1. /\ Alone(c) /\ request[c] = NoRequest /\ request'[c] \notin Signing
        /\ request'[c].stage = "consumed" /\ request'[c].from = {}
    BY <1>12, CallMoves
  <2>2. UNCHANGED <<token, stamps>>
    BY <1>12 DEF ConsumePasswordResetToken, rowVars, history, Fine, Fault
  <2>3. ASSUME NEW d \in SessionCalls, d # c PROVE CallFine(d)'
    BY <2>1, <2>2, <2>3 DEF SessionShape, Alone, Began, Went, Left
  <2>4. CallFine(c)'
    BY <2>1, <2>2, CallKinds DEF SessionShape, Alone, Began, Went, Left
  <2> QED
    BY <2>3, <2>4
<1>13. ASSUME NEW t \in SessionTokens, Logout(t) PROVE CallsInv'
  BY <1>13 DEF Logout, rowVars, history
<1>14. ASSUME NEW r \in Resets, RequestPasswordReset(r) PROVE CallsInv'
  BY <1>14 DEF RequestPasswordReset, rowVars, history
<1>15. CASE LockExpires
  BY <1>15 DEF LockExpires, rowVars, history
<1>16. CASE Restart
  BY <1>16 DEF Restart, rowVars, history
<1>17. CASE SecondPasses
  BY <1>17 DEF SecondPasses, rowVars, history
<1>18. CASE UNCHANGED sessionVars
  BY <1>18 DEF sessionVars, rowVars, history
<1> QED
  BY <1>1, <1>2, <1>3, <1>4, <1>5, <1>6, <1>7, <1>8, <1>9, <1>10, <1>11, <1>12, <1>13, <1>14,
     <1>15, <1>16, <1>17, <1>18 DEF SessionsNext

\* Every step keeps what a stamp ends.
LEMMA EndStep == SessionShape /\ CallsInv /\ EndInv /\ [SessionsNext]_sessionVars => EndInv'
<1> SUFFICES ASSUME SessionShape, CallsInv, EndInv, [SessionsNext]_sessionVars PROVE EndInv'
  OBVIOUS
<1> USE DEF CallsInv, CallFine, EndInv
<1>1. ASSUME NEW c \in SessionCalls, LoginRead(c) PROVE EndInv'
  <2>1. Began(c, "login", passwords, FALSE, {})
    BY <1>1, CallMoves
  <2>2. UNCHANGED <<second, passwords, validAfter, stamps, unstamped, token>>
    BY <1>1 DEF LoginRead, rowVars, history, Fine, Fault
  <2> QED
    BY <2>1, <2>2, CallKinds DEF SessionShape, Alone, Began, Went, Left
<1>2. ASSUME NEW c \in SessionCalls, LoginLockedUntil(c) PROVE EndInv'
  <2>1. request[c].stage = "login" /\ (Left(c) \/ Went(c, "attempt", request[c].seen))
    BY <1>2, CallMoves
  <2>2. UNCHANGED <<second, passwords, validAfter, stamps, unstamped, token>>
    BY <1>2 DEF LoginLockedUntil, rowVars, history, Fine, Fault
  <2> QED
    BY <2>1, <2>2, CallKinds DEF SessionShape, Alone, Began, Went, Left
<1>3. ASSUME NEW c \in SessionCalls, RecordLoginFailure(c) PROVE EndInv'
  <2>1. request[c].stage = "attempt" /\ Left(c)
    BY <1>3, CallMoves
  <2>2. UNCHANGED <<second, passwords, validAfter, stamps, unstamped, token>>
    BY <1>3 DEF RecordLoginFailure, rowVars, history, Fine, Fault
  <2> QED
    BY <2>1, <2>2, CallKinds DEF SessionShape, Alone, Began, Went, Left
<1>4. ASSUME NEW c \in SessionCalls, ClearLoginFailures(c) PROVE EndInv'
  <2>1. \/ request[c].stage = "attempt" /\ Went(c, "issue", request[c].seen)
        \/ request[c].stage = "consumed" /\ Went(c, "cleared", 0)
    BY <1>4, CallMoves
  <2>2. UNCHANGED <<second, passwords, validAfter, stamps, unstamped, token>>
    BY <1>4 DEF ClearLoginFailures, rowVars, history, Fine, Fault
  <2> QED
    BY <2>1, <2>2, CallKinds DEF SessionShape, Alone, Began, Went, Left
<1>5. ASSUME NEW c \in SessionCalls, RefreshRead(c) PROVE EndInv'
  <2>1. request[c].stage = "refresh" /\ (Left(c) \/ Went(c, "rotate", stamps))
    BY <1>5, CallMoves
  <2>2. UNCHANGED <<second, passwords, validAfter, stamps, unstamped, token>>
    BY <1>5 DEF RefreshRead, rowVars, history, Fine, Fault
  <2>3. CASE Left(c)
    BY <2>1, <2>2, <2>3, CallKinds DEF SessionShape, Alone, Left
  <2>4. CASE Went(c, "rotate", stamps)
    <3>1. PICK t \in request[c].from : token[t].iat > validAfter
      BY <1>5, <2>4, Calls DEF RefreshRead, InTime, Went, Left
    <3>2. request[c] # NoRequest /\ request[c] \in Signing /\ t \in SessionTokens
      BY <2>1, <3>1, CallKinds DEF Signing
    <3>3. /\ token[t] # NoToken /\ request[c].pw = token[t].pw
          /\ request[c].late = token[t].late
      BY <3>1, <3>2
    <3>4. ~token[t].late /\ token[t].pw < passwords => unstamped
      BY <3>1, <3>2, <3>3
    <3> QED
      BY <2>2, <2>4, <3>2, <3>3, <3>4 DEF Alone, Went
  <2> QED
    BY <2>1, <2>3, <2>4
<1>6. ASSUME NEW c \in SessionCalls, Revoke(c) PROVE EndInv'
  <2>1. request[c].stage = "rotate" /\ Went(c, "issue", request[c].seen)
    BY <1>6, CallMoves
  <2>2. UNCHANGED <<second, passwords, validAfter, stamps, unstamped, token>>
    BY <1>6 DEF Revoke, rowVars, history, Fine, Fault
  <2> QED
    BY <2>1, <2>2, CallKinds DEF SessionShape, Alone, Began, Went, Left
<1>7. ASSUME NEW c \in SessionCalls, Issue(c) PROVE EndInv'
  <2>1. request[c].stage = "issue" /\ Left(c)
    BY <1>7, CallMoves
  <2>2. UNCHANGED <<second, passwords, validAfter, stamps, unstamped>>
    BY <1>7 DEF Issue, rowVars, history, Fine, Fault
  <2> DEFINE t == CHOOSE u \in SessionTokens : token[u] = NoToken
             l == request[c].late \/ request[c].seen < stamps
             new == [iat |-> second, pw |-> request[c].pw, late |-> l]
  <2>3. t \in SessionTokens /\ token' = [token EXCEPT ![t] = new]
    BY <1>7 DEF Issue
  <2>4. new.iat = second /\ new.pw = request[c].pw /\ (new.late <=> l)
    OBVIOUS
  <2> HIDE DEF t, new
  <2>5. token'[t] = new /\ \A u \in SessionTokens \ {t} : token'[u] = token[u]
    BY <2>3 DEF SessionShape
  <2>6. request[c] \in Signing /\ request[c] # NoRequest
    BY <2>1, CallKinds
  <2>7. request[c].seen <= stamps /\ request[c].seen \in Nat /\ stamps \in Nat /\ second \in Nat
    BY <2>6 DEF SessionShape, Signing
  <2>8. new.iat <= second' /\ (~new.late /\ new.pw < passwords' => unstamped')
    <3>1. CASE l
      BY <2>2, <2>4, <2>7, <3>1
    <3>2. CASE ~l
      <4>1. ~request[c].late /\ request[c].seen = stamps
        BY <2>7, <3>2
      <4> QED
        BY <2>1, <2>2, <2>4, <2>7, <4>1
    <3> QED
      BY <3>1, <3>2
  <2>9. ASSUME NEW d \in SessionCalls, d # c PROVE request'[d] = request[d]
    BY <2>1, <2>9 DEF Left, Alone
  <2>10. request'[c].stage = "idle"
    BY <2>1 DEF Left, NoRequest
  <2> QED
    BY <2>2, <2>5, <2>8, <2>9, <2>10
<1>8. ASSUME NEW c \in SessionCalls, UpdatePassword(c) PROVE EndInv'
  <2>1. request[c].stage = "cleared" /\ (Left(c) \/ Went(c, "changed", 0))
    BY <1>8, CallMoves
  <2>2. /\ UNCHANGED <<second, validAfter, stamps, token>>
        /\ UNCHANGED <<passwords, unstamped>> \/ unstamped'
    BY <1>8 DEF UpdatePassword, rowVars, history, Fine, Fault
  <2> QED
    BY <2>1, <2>2, CallKinds DEF SessionShape, Alone, Began, Went, Left
<1>9. ASSUME NEW c \in SessionCalls, InvalidateSessions(c) PROVE EndInv'
  <2>1. request[c].stage = "changed" /\ Left(c)
    BY <1>9, CallMoves
  <2>2. /\ UNCHANGED <<second, passwords, token>>
        /\ \/ UNCHANGED <<validAfter, stamps, unstamped>>
           \/ validAfter' = second /\ stamps' = stamps + 1
    BY <1>9 DEF InvalidateSessions, rowVars, history, Fine, Fault
  <2>3. /\ \A d \in SessionCalls \ {c} : request'[d] = request[d]
        /\ request'[c].stage = "idle"
    BY <2>1 DEF Left, Alone, NoRequest
  <2>4. CASE UNCHANGED <<validAfter, stamps, unstamped>>
    BY <2>2, <2>3, <2>4
  <2>5. CASE validAfter' = second /\ stamps' = stamps + 1
    <3>1. ASSUME NEW t \in SessionTokens, token[t] # NoToken
          PROVE  token[t].iat <= second /\ token[t].iat \in Nat /\ second \in Nat
      BY <3>1 DEF SessionShape, Issued
    <3>2. ASSUME NEW d \in SessionCalls,
                 request[d].stage \in {"login", "attempt", "issue", "rotate"}
          PROVE  request[d].seen # stamps'
      <4>1. request[d] \in Signing /\ request[d] # NoRequest
        BY <3>2, CallKinds
      <4> QED
        BY <2>5, <4>1 DEF SessionShape, Signing
    <3> QED
      BY <2>2, <2>3, <2>5, <3>1, <3>2
  <2> QED
    BY <2>2, <2>4, <2>5
<1>10. ASSUME NEW c \in SessionCalls, CallStops(c) PROVE EndInv'
  <2>1. request[c] # NoRequest /\ Left(c)
    BY <1>10, CallMoves
  <2>2. UNCHANGED <<second, passwords, validAfter, stamps, unstamped, token>>
    BY <1>10 DEF CallStops, rowVars, history, Fine, Fault
  <2> QED
    BY <2>1, <2>2, CallKinds DEF SessionShape, Alone, Began, Went, Left
<1>11. ASSUME NEW c \in SessionCalls, NEW t \in SessionTokens, IsRevoked(c, t) PROVE EndInv'
  <2>1. Began(c, "refresh", token[t].pw, token[t].late, {t})
    BY <1>11, CallMoves
  <2>2. UNCHANGED <<second, passwords, validAfter, stamps, unstamped, token>>
    BY <1>11 DEF IsRevoked, rowVars, history, Fine, Fault
  <2> QED
    BY <2>1, <2>2, CallKinds DEF SessionShape, Alone, Began, Went, Left
<1>12. ASSUME NEW c \in SessionCalls, NEW r \in Resets, ConsumePasswordResetToken(c, r)
       PROVE EndInv'
  <2>1. /\ Alone(c) /\ request[c] = NoRequest /\ request'[c] \notin Signing
        /\ request'[c].stage = "consumed" /\ request'[c].from = {}
    BY <1>12, CallMoves
  <2>2. UNCHANGED <<second, passwords, validAfter, stamps, unstamped, token>>
    BY <1>12 DEF ConsumePasswordResetToken, rowVars, history, Fine, Fault
  <2> QED
    BY <2>1, <2>2, CallKinds DEF SessionShape, Alone, Began, Went, Left
<1>13. ASSUME NEW t \in SessionTokens, Logout(t) PROVE EndInv'
  BY <1>13 DEF Logout, rowVars, history
<1>14. ASSUME NEW r \in Resets, RequestPasswordReset(r) PROVE EndInv'
  BY <1>14 DEF RequestPasswordReset, rowVars, history
<1>15. CASE LockExpires
  BY <1>15 DEF LockExpires, rowVars, history
<1>16. CASE Restart
  <2>1. \A c \in SessionCalls : request'[c].stage = "idle"
    BY <1>16 DEF Restart, NoRequest
  <2> QED
    BY <1>16, <2>1 DEF Restart, rowVars, history
<1>17. CASE SecondPasses
  <2>1. ASSUME NEW t \in SessionTokens, token[t] # NoToken
        PROVE  token[t].iat \in Nat /\ second \in Nat
    BY <2>1 DEF SessionShape, Issued
  <2> QED
    BY <1>17, <2>1 DEF SecondPasses, rowVars, history
<1>18. CASE UNCHANGED sessionVars
  BY <1>18 DEF sessionVars, rowVars, history
<1> QED
  BY <1>1, <1>2, <1>3, <1>4, <1>5, <1>6, <1>7, <1>8, <1>9, <1>10, <1>11, <1>12, <1>13, <1>14,
     <1>15, <1>16, <1>17, <1>18 DEF SessionsNext

\* Every step keeps the exchanges single.
LEMMA UsesStep == SessionShape /\ CallsInv /\ UsesInv /\ [SessionsNext]_sessionVars => UsesInv'
<1> SUFFICES ASSUME SessionShape, CallsInv, UsesInv, [SessionsNext]_sessionVars PROVE UsesInv'
  OBVIOUS
<1> USE DEF CallsInv, CallFine, UsesInv
<1>1. ASSUME NEW c \in SessionCalls, LoginRead(c) PROVE UsesInv'
  <2>1. Began(c, "login", passwords, FALSE, {})
    BY <1>1, CallMoves
  <2>2. UNCHANGED <<denied, uses, excused>>
    BY <1>1 DEF LoginRead, rowVars, history, Fine, Fault
  <2>3. ASSUME NEW t \in SessionTokens PROVE Exchanging(t)' = Exchanging(t)
    BY <2>1 DEF Exchanging, Alone, Began
  <2>4. ASSUME NEW t \in SessionTokens, NEW d \in Exchanging(t) PROVE request'[d] = request[d]
    BY <2>1 DEF Exchanging, Alone, Began
  <2> QED
    BY <2>2, <2>3, <2>4
<1>2. ASSUME NEW c \in SessionCalls, LoginLockedUntil(c) PROVE UsesInv'
  <2>1. request[c].stage = "login" /\ (Left(c) \/ Went(c, "attempt", request[c].seen))
    BY <1>2, CallMoves
  <2>2. UNCHANGED <<denied, uses, excused>>
    BY <1>2 DEF LoginLockedUntil, rowVars, history, Fine, Fault
  <2> QED
    BY <2>1, <2>2, CallKinds DEF SessionShape, Exchanging, Alone, Began, Went, Left
<1>3. ASSUME NEW c \in SessionCalls, RecordLoginFailure(c) PROVE UsesInv'
  <2>1. request[c].stage = "attempt" /\ Left(c)
    BY <1>3, CallMoves
  <2>2. UNCHANGED <<denied, uses, excused>>
    BY <1>3 DEF RecordLoginFailure, rowVars, history, Fine, Fault
  <2> QED
    BY <2>1, <2>2, CallKinds DEF SessionShape, Exchanging, Alone, Began, Went, Left
<1>4. ASSUME NEW c \in SessionCalls, ClearLoginFailures(c) PROVE UsesInv'
  <2>1. \/ request[c].stage = "attempt" /\ Went(c, "issue", request[c].seen)
        \/ request[c].stage = "consumed" /\ Went(c, "cleared", 0)
    BY <1>4, CallMoves
  <2>2. UNCHANGED <<denied, uses, excused>>
    BY <1>4 DEF ClearLoginFailures, rowVars, history, Fine, Fault
  <2> QED
    BY <2>1, <2>2, CallKinds DEF SessionShape, Exchanging, Alone, Began, Went, Left
<1>5. ASSUME NEW c \in SessionCalls, RefreshRead(c) PROVE UsesInv'
  <2>1. request[c].stage = "refresh" /\ (Left(c) \/ Went(c, "rotate", stamps))
    BY <1>5, CallMoves
  <2>2. UNCHANGED <<denied, uses, excused>>
    BY <1>5 DEF RefreshRead, rowVars, history, Fine, Fault
  <2> QED
    BY <2>1, <2>2, CallKinds DEF SessionShape, Exchanging, Alone, Began, Went, Left
<1>6. ASSUME NEW c \in SessionCalls, Revoke(c) PROVE UsesInv'
  <2>1. request[c].stage = "rotate" /\ Went(c, "issue", request[c].seen)
    BY <1>6, CallMoves
  <2>2. /\ UNCHANGED uses /\ denied \subseteq denied' /\ excused \subseteq excused'
        /\ \A t \in request[c].from : t \in denied' \cup excused'
    BY <1>6 DEF Revoke, rowVars, history, Fine, Fault
  <2> QED
    BY <2>1, <2>2, CallKinds DEF SessionShape, Exchanging, Alone, Began, Went, Left
<1>7. ASSUME NEW c \in SessionCalls, Issue(c) PROVE UsesInv'
  <2>1. request[c].stage = "issue" /\ Left(c)
    BY <1>7, CallMoves
  <2>2. /\ UNCHANGED <<denied, excused>>
        /\ uses' = [u \in SessionTokens |-> uses[u] + (IF u \in request[c].from THEN 1 ELSE 0)]
    BY <1>7 DEF Issue, rowVars, history, Fine, Fault
  <2> QED
    BY <2>1, <2>2, CallKinds DEF SessionShape, Exchanging, Alone, Began, Went, Left
<1>8. ASSUME NEW c \in SessionCalls, UpdatePassword(c) PROVE UsesInv'
  <2>1. request[c].stage = "cleared" /\ (Left(c) \/ Went(c, "changed", 0))
    BY <1>8, CallMoves
  <2>2. UNCHANGED <<denied, uses, excused>>
    BY <1>8 DEF UpdatePassword, rowVars, history, Fine, Fault
  <2> QED
    BY <2>1, <2>2, CallKinds DEF SessionShape, Exchanging, Alone, Began, Went, Left
<1>9. ASSUME NEW c \in SessionCalls, InvalidateSessions(c) PROVE UsesInv'
  <2>1. request[c].stage = "changed" /\ Left(c)
    BY <1>9, CallMoves
  <2>2. UNCHANGED <<denied, uses, excused>>
    BY <1>9 DEF InvalidateSessions, rowVars, history, Fine, Fault
  <2> QED
    BY <2>1, <2>2, CallKinds DEF SessionShape, Exchanging, Alone, Began, Went, Left
<1>10. ASSUME NEW c \in SessionCalls, CallStops(c) PROVE UsesInv'
  <2>1. request[c] # NoRequest /\ Left(c)
    BY <1>10, CallMoves
  <2>2. UNCHANGED <<denied, uses, excused>>
    BY <1>10 DEF CallStops, rowVars, history, Fine, Fault
  <2> QED
    BY <2>1, <2>2, CallKinds DEF SessionShape, Exchanging, Alone, Began, Went, Left
<1>11. ASSUME NEW c \in SessionCalls, NEW t \in SessionTokens, IsRevoked(c, t) PROVE UsesInv'
  <2>1. Began(c, "refresh", token[t].pw, token[t].late, {t})
    BY <1>11, CallMoves
  <2>2. /\ t \notin denied /\ UNCHANGED <<denied, uses>>
        /\ excused' = IF Exchanging(t) = {} THEN excused ELSE excused \cup {t}
    BY <1>11 DEF IsRevoked, rowVars, history, Fine, Fault
  <2>3. ASSUME NEW u \in SessionTokens \ excused', u # t PROVE Exchanging(u)' = Exchanging(u)
    BY <2>1, <2>3 DEF Exchanging, Alone, Began
  <2>4. ASSUME NEW d \in SessionCalls, request[d] # NoRequest PROVE request'[d] = request[d]
    BY <2>1, <2>4 DEF Alone, Began
  <2>5. CASE Exchanging(t) = {}
    <3>1. Exchanging(t)' = {c} /\ request'[c].stage = "refresh"
      BY <2>1, <2>5 DEF Exchanging, Alone, Began
    <3>2. \A u \in SessionTokens : \A d \in Exchanging(u) : d \in SessionCalls /\ request[d] # NoRequest
      BY DEF Exchanging
    <3> QED
      BY <2>2, <2>3, <2>4, <2>5, <3>1, <3>2 DEF SessionShape
  <2>6. CASE Exchanging(t) # {}
    <3>1. \A u \in SessionTokens : \A d \in Exchanging(u) : d \in SessionCalls /\ request[d] # NoRequest
      BY DEF Exchanging
    <3> QED
      BY <2>2, <2>3, <2>4, <2>6, <3>1
  <2> QED
    BY <2>5, <2>6
<1>12. ASSUME NEW c \in SessionCalls, NEW r \in Resets, ConsumePasswordResetToken(c, r)
       PROVE UsesInv'
  <2>1. /\ Alone(c) /\ request[c] = NoRequest /\ request'[c] \notin Signing
        /\ request'[c].stage = "consumed" /\ request'[c].from = {}
    BY <1>12, CallMoves
  <2>2. UNCHANGED <<denied, uses, excused>>
    BY <1>12 DEF ConsumePasswordResetToken, rowVars, history, Fine, Fault
  <2>3. ASSUME NEW t \in SessionTokens PROVE Exchanging(t)' = Exchanging(t)
    BY <2>1 DEF Exchanging, Alone, Began
  <2>4. ASSUME NEW t \in SessionTokens, NEW d \in Exchanging(t) PROVE request'[d] = request[d]
    BY <2>1 DEF Exchanging, Alone, Began
  <2> QED
    BY <2>2, <2>3, <2>4
<1>13. ASSUME NEW t \in SessionTokens, Logout(t) PROVE UsesInv'
  BY <1>13 DEF Logout, Exchanging, rowVars, history
<1>14. ASSUME NEW r \in Resets, RequestPasswordReset(r) PROVE UsesInv'
  BY <1>14 DEF RequestPasswordReset, Exchanging, rowVars, history
<1>15. CASE LockExpires
  BY <1>15 DEF LockExpires, Exchanging, rowVars, history
<1>16. CASE Restart
  <2>1. \A t \in SessionTokens : Exchanging(t)' = {}
    BY <1>16 DEF Restart, Exchanging
  <2> QED
    BY <1>16, <2>1 DEF Restart, history
<1>17. CASE SecondPasses
  BY <1>17 DEF SecondPasses, Exchanging, rowVars, history
<1>18. CASE UNCHANGED sessionVars
  BY <1>18 DEF sessionVars, Exchanging, rowVars, history
<1> QED
  BY <1>1, <1>2, <1>3, <1>4, <1>5, <1>6, <1>7, <1>8, <1>9, <1>10, <1>11, <1>12, <1>13, <1>14,
     <1>15, <1>16, <1>17, <1>18 DEF SessionsNext

\* Every step keeps the lock and its attempts so.
LEMMA LockoutStep == SessionShape /\ LockoutInv /\ [SessionsNext]_sessionVars => LockoutInv'
<1> SUFFICES ASSUME SessionShape, LockoutInv, [SessionsNext]_sessionVars PROVE LockoutInv'
  OBVIOUS
<1> USE SessionConstants DEF SessionShape
<1>0. ASSUME UNCHANGED login, Attempting' \subseteq Attempting, sessionFaults' >= sessionFaults,
             sessionFaults' \in Nat
      PROVE  LockoutInv'
  <2>1. /\ IsFiniteSet(Attempting) /\ Cardinality(Attempting') <= Cardinality(Attempting)
        /\ Cardinality(Attempting) \in Nat /\ Cardinality(Attempting') \in Nat
        /\ Cardinality(SessionCalls) \in Nat
    BY <1>0, FS_Subset, FS_CardinalityType DEF Attempting
  <2> QED
    BY <1>0, <2>1 DEF LockoutInv

<1>1. ASSUME NEW c \in SessionCalls, LoginRead(c) PROVE LockoutInv'
  <2>1. Began(c, "login", passwords, FALSE, {})
    BY <1>1, CallMoves
  <2>2. UNCHANGED login /\ sessionFaults' >= sessionFaults /\ sessionFaults' \in Nat
    BY <1>1 DEF LoginRead, rowVars, history, Fine, Fault
  <2>3. Attempting' \subseteq Attempting
    BY <2>1, CallKinds DEF Attempting, Alone, Began, Went, Left
  <2> QED
    BY <1>0, <2>2, <2>3
<1>2. ASSUME NEW c \in SessionCalls, LoginLockedUntil(c) PROVE LockoutInv'
  <2>0. /\ IsFiniteSet(Attempting) /\ Cardinality(Attempting) \in Nat
        /\ Cardinality(Attempting) <= Cardinality(SessionCalls) /\ Cardinality(SessionCalls) \in Nat
    BY FS_Subset, FS_CardinalityType DEF Attempting
  <2>1. request[c].stage = "login" /\ (Left(c) \/ Went(c, "attempt", request[c].seen))
    BY <1>2, CallMoves
  <2>2. UNCHANGED login
    BY <1>2 DEF LoginLockedUntil, rowVars
  <2>3. CASE Left(c)
    <3>1. Attempting' \subseteq Attempting
      BY <2>3, CallKinds DEF Attempting, Alone, Began, Went, Left
    <3> QED
      BY <1>0, <1>2, <2>2, <3>1 DEF LoginLockedUntil, rowVars, history, Fine, Fault
  <2>4. CASE Went(c, "attempt", request[c].seen)
    <3>1. Attempting' = Attempting \cup {c} /\ c \notin Attempting
      BY <2>1, <2>4, CallKinds DEF Attempting, Alone, Began, Went, Left
    <3>2. Cardinality(Attempting') = Cardinality(Attempting) + 1
      BY <2>0, <3>1, FS_AddElement
    <3>3. \/ sessionFaults' = sessionFaults /\ login.lock # "live"
          \/ sessionFaults' = sessionFaults + 1
      BY <1>2, <2>4 DEF LoginLockedUntil, Went, Fine, Fault, Ends
    <3> QED
      BY <2>0, <2>2, <3>2, <3>3 DEF LockoutInv
  <2> QED
    BY <2>1, <2>3, <2>4
<1>3. ASSUME NEW c \in SessionCalls, RecordLoginFailure(c) PROVE LockoutInv'
  <2>0. /\ IsFiniteSet(Attempting) /\ Cardinality(Attempting) \in Nat
        /\ Cardinality(Attempting) <= Cardinality(SessionCalls) /\ Cardinality(SessionCalls) \in Nat
    BY FS_Subset, FS_CardinalityType DEF Attempting
  <2>1. request[c].stage = "attempt" /\ Left(c)
    BY <1>3, CallMoves
  <2>2. Attempting' = Attempting \ {c} /\ c \in Attempting
    BY <2>1, CallKinds DEF Attempting, Alone, Began, Went, Left, NoRequest
  <2>3. Cardinality(Attempting') = Cardinality(Attempting) - 1 /\ Cardinality(Attempting') \in Nat
    BY <2>0, <2>2, FS_RemoveElement, FS_CardinalityType
  <2>4. CASE UNCHANGED login /\ Fault
    BY <1>0, <2>2, <2>4 DEF Fault
  <2>5. CASE login' = AfterFailure(login) /\ Fine
    <3> DEFINE n == IF login.lock = "over" THEN 1 ELSE login.failures + 1
    <3>1. login'.failures = n /\ login'.lock = IF n >= MaxLoginFailures THEN "live" ELSE "none"
      BY <2>5 DEF AfterFailure
    <3>2. n \in Nat /\ (n = 1 \/ (login.lock # "over" /\ n = login.failures + 1))
      OBVIOUS
    <3> HIDE DEF n
    <3>3. login.failures \in Nat /\ login.lock \in {"none", "live", "over"}
      OBVIOUS
    <3>4. login'.lock = "none" <=> login'.failures < MaxLoginFailures
      BY <3>1, <3>2
    <3>5. CASE n = 1
      BY <2>0, <2>3, <2>5, <3>1, <3>4, <3>5 DEF LockoutInv, Fine
    <3>6. CASE login.lock = "live" /\ n = login.failures + 1
      BY <2>0, <2>3, <2>5, <3>1, <3>3, <3>4, <3>6 DEF LockoutInv, Fine
    <3>7. CASE login.lock = "none" /\ n = login.failures + 1
      BY <2>0, <2>3, <2>5, <3>1, <3>3, <3>4, <3>7 DEF LockoutInv, Fine
    <3> QED
      BY <3>2, <3>3, <3>5, <3>6, <3>7
  <2> QED
    BY <1>3, <2>4, <2>5 DEF RecordLoginFailure
<1>4. ASSUME NEW c \in SessionCalls, ClearLoginFailures(c) PROVE LockoutInv'
  <2>0. /\ IsFiniteSet(Attempting) /\ Cardinality(Attempting) \in Nat
        /\ Cardinality(Attempting) <= Cardinality(SessionCalls) /\ Cardinality(SessionCalls) \in Nat
    BY FS_Subset, FS_CardinalityType DEF Attempting
  <2>1. \/ request[c].stage = "attempt" /\ Went(c, "issue", request[c].seen)
        \/ request[c].stage = "consumed" /\ Went(c, "cleared", 0)
    BY <1>4, CallMoves
  <2>2. Attempting' \subseteq Attempting
    BY <2>1, CallKinds DEF Attempting, Alone, Began, Went, Left
  <2>3. CASE UNCHANGED login /\ Fault
    BY <1>0, <2>2, <2>3 DEF Fault
  <2>4. CASE login' = [failures |-> 0, lock |-> "none"] /\ Fine
    BY <2>0, <2>4 DEF LockoutInv, Fine
  <2> QED
    BY <1>4, <2>3, <2>4 DEF ClearLoginFailures
<1>5. ASSUME NEW c \in SessionCalls, RefreshRead(c) PROVE LockoutInv'
  <2>1. request[c].stage = "refresh" /\ (Left(c) \/ Went(c, "rotate", stamps))
    BY <1>5, CallMoves
  <2>2. UNCHANGED login /\ sessionFaults' >= sessionFaults /\ sessionFaults' \in Nat
    BY <1>5 DEF RefreshRead, rowVars, history, Fine, Fault
  <2>3. Attempting' \subseteq Attempting
    BY <2>1, CallKinds DEF Attempting, Alone, Began, Went, Left
  <2> QED
    BY <1>0, <2>2, <2>3
<1>6. ASSUME NEW c \in SessionCalls, Revoke(c) PROVE LockoutInv'
  <2>1. request[c].stage = "rotate" /\ Went(c, "issue", request[c].seen)
    BY <1>6, CallMoves
  <2>2. UNCHANGED login /\ sessionFaults' >= sessionFaults /\ sessionFaults' \in Nat
    BY <1>6 DEF Revoke, rowVars, history, Fine, Fault
  <2>3. Attempting' \subseteq Attempting
    BY <2>1, CallKinds DEF Attempting, Alone, Began, Went, Left
  <2> QED
    BY <1>0, <2>2, <2>3
<1>7. ASSUME NEW c \in SessionCalls, Issue(c) PROVE LockoutInv'
  <2>1. request[c].stage = "issue" /\ Left(c)
    BY <1>7, CallMoves
  <2>2. UNCHANGED login /\ sessionFaults' >= sessionFaults /\ sessionFaults' \in Nat
    BY <1>7 DEF Issue, rowVars, history, Fine, Fault
  <2>3. Attempting' \subseteq Attempting
    BY <2>1, CallKinds DEF Attempting, Alone, Began, Went, Left
  <2> QED
    BY <1>0, <2>2, <2>3
<1>8. ASSUME NEW c \in SessionCalls, UpdatePassword(c) PROVE LockoutInv'
  <2>1. request[c].stage = "cleared" /\ (Left(c) \/ Went(c, "changed", 0))
    BY <1>8, CallMoves
  <2>2. UNCHANGED login /\ sessionFaults' >= sessionFaults /\ sessionFaults' \in Nat
    BY <1>8 DEF UpdatePassword, rowVars, history, Fine, Fault
  <2>3. Attempting' \subseteq Attempting
    BY <2>1, CallKinds DEF Attempting, Alone, Began, Went, Left
  <2> QED
    BY <1>0, <2>2, <2>3
<1>9. ASSUME NEW c \in SessionCalls, InvalidateSessions(c) PROVE LockoutInv'
  <2>1. request[c].stage = "changed" /\ Left(c)
    BY <1>9, CallMoves
  <2>2. UNCHANGED login /\ sessionFaults' >= sessionFaults /\ sessionFaults' \in Nat
    BY <1>9 DEF InvalidateSessions, rowVars, history, Fine, Fault
  <2>3. Attempting' \subseteq Attempting
    BY <2>1, CallKinds DEF Attempting, Alone, Began, Went, Left
  <2> QED
    BY <1>0, <2>2, <2>3
<1>10. ASSUME NEW c \in SessionCalls, CallStops(c) PROVE LockoutInv'
  <2>1. request[c] # NoRequest /\ Left(c)
    BY <1>10, CallMoves
  <2>2. UNCHANGED login /\ sessionFaults' >= sessionFaults /\ sessionFaults' \in Nat
    BY <1>10 DEF CallStops, rowVars, history, Fine, Fault
  <2>3. Attempting' \subseteq Attempting
    BY <2>1, CallKinds DEF Attempting, Alone, Began, Went, Left
  <2> QED
    BY <1>0, <2>2, <2>3
<1>11. ASSUME NEW c \in SessionCalls, NEW t \in SessionTokens, IsRevoked(c, t) PROVE LockoutInv'
  <2>1. Began(c, "refresh", token[t].pw, token[t].late, {t})
    BY <1>11, CallMoves
  <2>2. UNCHANGED login /\ sessionFaults' >= sessionFaults /\ sessionFaults' \in Nat
    BY <1>11 DEF IsRevoked, rowVars, history, Fine, Fault
  <2>3. Attempting' \subseteq Attempting
    BY <2>1, CallKinds DEF Attempting, Alone, Began, Went, Left
  <2> QED
    BY <1>0, <2>2, <2>3
<1>12. ASSUME NEW c \in SessionCalls, NEW r \in Resets, ConsumePasswordResetToken(c, r)
       PROVE LockoutInv'
  <2>1. /\ Alone(c) /\ request[c] = NoRequest /\ request'[c] \notin Signing
        /\ request'[c].stage = "consumed" /\ request'[c].from = {}
    BY <1>12, CallMoves
  <2>2. UNCHANGED login /\ sessionFaults' >= sessionFaults /\ sessionFaults' \in Nat
    BY <1>12 DEF ConsumePasswordResetToken, rowVars, history, Fine, Fault
  <2>3. Attempting' \subseteq Attempting
    BY <2>1, CallKinds DEF Attempting, Alone, Began, Went, Left
  <2> QED
    BY <1>0, <2>2, <2>3
<1>13. ASSUME NEW t \in SessionTokens, Logout(t) PROVE LockoutInv'
  BY <1>0, <1>13 DEF Logout, Attempting, rowVars, history, Fine, Fault
<1>14. ASSUME NEW r \in Resets, RequestPasswordReset(r) PROVE LockoutInv'
  BY <1>0, <1>14 DEF RequestPasswordReset, Attempting, rowVars, history, Fine, Fault
<1>15. CASE LockExpires
  <2>1. /\ login'.failures = login.failures /\ login'.lock = "over" /\ login.lock = "live"
        /\ UNCHANGED sessionFaults
    BY <1>15 DEF LockExpires
  <2> QED
    BY <2>1 DEF LockoutInv
<1>16. CASE Restart
  <2>1. Attempting' = {}
    BY <1>16 DEF Restart, Attempting, NoRequest
  <2> QED
    BY <1>0, <1>16, <2>1 DEF Restart, rowVars, history, Fine, Fault
<1>17. CASE SecondPasses
  BY <1>0, <1>17 DEF SecondPasses, Attempting, rowVars, history, Fine, Fault
<1>18. CASE UNCHANGED sessionVars
  BY <1>0, <1>18 DEF sessionVars, Attempting, rowVars
<1> QED
  BY <1>1, <1>2, <1>3, <1>4, <1>5, <1>6, <1>7, <1>8, <1>9, <1>10, <1>11, <1>12, <1>13, <1>14,
     <1>15, <1>16, <1>17, <1>18 DEF SessionsNext

\* Every step keeps the resets counted.
LEMMA ResetStep == SessionShape /\ ResetInv /\ [SessionsNext]_sessionVars => ResetInv'
<1> SUFFICES ASSUME SessionShape, ResetInv, [SessionsNext]_sessionVars PROVE ResetInv'
  OBVIOUS
<1> USE SessionConstants DEF SessionShape
<1>0. /\ IsFiniteSet(Used) /\ IsFiniteSet(Unchanged) /\ IsFiniteSet(Unended)
      /\ Cardinality(Used) \in Nat /\ Cardinality(Unchanged) \in Nat
      /\ Cardinality(Unended) \in Nat
  BY FS_Subset, FS_CardinalityType DEF Used, Unchanged, Unended
<1>a. ASSUME UNCHANGED <<passwords, stamps, reset>>, Unchanged' \subseteq Unchanged,
             Unended' \subseteq Unended
      PROVE  ResetInv'
  <2>1. /\ Cardinality(Unchanged') <= Cardinality(Unchanged) /\ Cardinality(Unchanged') \in Nat
        /\ Cardinality(Unended') <= Cardinality(Unended) /\ Cardinality(Unended') \in Nat
    BY <1>0, <1>a, FS_Subset, FS_CardinalityType
  <2>2. Used' = Used
    BY <1>a DEF Used
  <2> QED
    BY <1>0, <1>a, <2>1, <2>2 DEF ResetInv

<1>1. ASSUME NEW c \in SessionCalls, LoginRead(c) PROVE ResetInv'
  <2>1. Began(c, "login", passwords, FALSE, {})
    BY <1>1, CallMoves
  <2>2. UNCHANGED <<passwords, stamps, reset>>
    BY <1>1 DEF LoginRead, rowVars, history, Fine, Fault
  <2>3. Unchanged' \subseteq Unchanged /\ Unended' \subseteq Unended
    BY <2>1, CallKinds DEF Unchanged, Unended, Alone, Began, Went, Left, NoRequest
  <2> QED
    BY <1>a, <2>2, <2>3
<1>2. ASSUME NEW c \in SessionCalls, LoginLockedUntil(c) PROVE ResetInv'
  <2>1. request[c].stage = "login" /\ (Left(c) \/ Went(c, "attempt", request[c].seen))
    BY <1>2, CallMoves
  <2>2. UNCHANGED <<passwords, stamps, reset>>
    BY <1>2 DEF LoginLockedUntil, rowVars, history, Fine, Fault
  <2>3. Unchanged' \subseteq Unchanged /\ Unended' \subseteq Unended
    BY <2>1, CallKinds DEF Unchanged, Unended, Alone, Began, Went, Left, NoRequest
  <2> QED
    BY <1>a, <2>2, <2>3
<1>3. ASSUME NEW c \in SessionCalls, RecordLoginFailure(c) PROVE ResetInv'
  <2>1. request[c].stage = "attempt" /\ Left(c)
    BY <1>3, CallMoves
  <2>2. UNCHANGED <<passwords, stamps, reset>>
    BY <1>3 DEF RecordLoginFailure, rowVars, history, Fine, Fault
  <2>3. Unchanged' \subseteq Unchanged /\ Unended' \subseteq Unended
    BY <2>1, CallKinds DEF Unchanged, Unended, Alone, Began, Went, Left, NoRequest
  <2> QED
    BY <1>a, <2>2, <2>3
<1>4. ASSUME NEW c \in SessionCalls, ClearLoginFailures(c) PROVE ResetInv'
  <2>1. \/ request[c].stage = "attempt" /\ Went(c, "issue", request[c].seen)
        \/ request[c].stage = "consumed" /\ Went(c, "cleared", 0)
    BY <1>4, CallMoves
  <2>2. UNCHANGED <<passwords, stamps, reset>>
    BY <1>4 DEF ClearLoginFailures, rowVars, history, Fine, Fault
  <2>3. Unchanged' \subseteq Unchanged /\ Unended' \subseteq Unended
    BY <2>1, CallKinds DEF Unchanged, Unended, Alone, Began, Went, Left, NoRequest
  <2> QED
    BY <1>a, <2>2, <2>3
<1>5. ASSUME NEW c \in SessionCalls, RefreshRead(c) PROVE ResetInv'
  <2>1. request[c].stage = "refresh" /\ (Left(c) \/ Went(c, "rotate", stamps))
    BY <1>5, CallMoves
  <2>2. UNCHANGED <<passwords, stamps, reset>>
    BY <1>5 DEF RefreshRead, rowVars, history, Fine, Fault
  <2>3. Unchanged' \subseteq Unchanged /\ Unended' \subseteq Unended
    BY <2>1, CallKinds DEF Unchanged, Unended, Alone, Began, Went, Left, NoRequest
  <2> QED
    BY <1>a, <2>2, <2>3
<1>6. ASSUME NEW c \in SessionCalls, Revoke(c) PROVE ResetInv'
  <2>1. request[c].stage = "rotate" /\ Went(c, "issue", request[c].seen)
    BY <1>6, CallMoves
  <2>2. UNCHANGED <<passwords, stamps, reset>>
    BY <1>6 DEF Revoke, rowVars, history, Fine, Fault
  <2>3. Unchanged' \subseteq Unchanged /\ Unended' \subseteq Unended
    BY <2>1, CallKinds DEF Unchanged, Unended, Alone, Began, Went, Left, NoRequest
  <2> QED
    BY <1>a, <2>2, <2>3
<1>7. ASSUME NEW c \in SessionCalls, Issue(c) PROVE ResetInv'
  <2>1. request[c].stage = "issue" /\ Left(c)
    BY <1>7, CallMoves
  <2>2. UNCHANGED <<passwords, stamps, reset>>
    BY <1>7 DEF Issue, rowVars, history, Fine, Fault
  <2>3. Unchanged' \subseteq Unchanged /\ Unended' \subseteq Unended
    BY <2>1, CallKinds DEF Unchanged, Unended, Alone, Began, Went, Left, NoRequest
  <2> QED
    BY <1>a, <2>2, <2>3
<1>8. ASSUME NEW c \in SessionCalls, UpdatePassword(c) PROVE ResetInv'
  <2>1. request[c].stage = "cleared" /\ (Left(c) \/ Went(c, "changed", 0))
    BY <1>8, CallMoves
  <2>2. UNCHANGED <<stamps, reset>>
    BY <1>8 DEF UpdatePassword
  <2>3. CASE passwords' = passwords + 1 /\ Goes(c, "changed")
    <3>1. Went(c, "changed", 0)
      BY <2>1, <2>3, Calls, CallKinds
    <3>2. Unchanged' = Unchanged \ {c} /\ c \in Unchanged /\ Unended' = Unended
      BY <2>1, <3>1, CallKinds DEF Unchanged, Unended, Alone, Began, Went, Left, NoRequest
    <3>3. Cardinality(Unchanged') = Cardinality(Unchanged) - 1
      BY <1>0, <3>2, FS_RemoveElement
    <3>4. Used' = Used
      BY <2>2 DEF Used
    <3> QED
      BY <1>0, <2>2, <2>3, <3>2, <3>3, <3>4 DEF ResetInv
  <2>4. CASE UNCHANGED passwords
    <3>1. Unchanged' \subseteq Unchanged /\ Unended' \subseteq Unended
      BY <2>1, CallKinds DEF Unchanged, Unended, Alone, Began, Went, Left, NoRequest
    <3> QED
      BY <1>a, <2>2, <2>4, <3>1
  <2> QED
    BY <1>8, <2>3, <2>4 DEF UpdatePassword
<1>9. ASSUME NEW c \in SessionCalls, InvalidateSessions(c) PROVE ResetInv'
  <2>1. request[c].stage = "changed" /\ Left(c)
    BY <1>9, CallMoves
  <2>2. UNCHANGED <<passwords, reset>>
    BY <1>9 DEF InvalidateSessions
  <2>3. Unchanged' = Unchanged /\ Unended' = Unended \ {c} /\ c \in Unended
    BY <2>1, CallKinds DEF Unchanged, Unended, Alone, Began, Went, Left, NoRequest
  <2>4. Cardinality(Unended') = Cardinality(Unended) - 1
    BY <1>0, <2>3, FS_RemoveElement
  <2>5. Used' = Used /\ stamps' \in {stamps, stamps + 1}
    BY <1>9, <2>2 DEF Used, InvalidateSessions
  <2> QED
    BY <1>0, <2>2, <2>3, <2>4, <2>5 DEF ResetInv
<1>10. ASSUME NEW c \in SessionCalls, CallStops(c) PROVE ResetInv'
  <2>1. request[c] # NoRequest /\ Left(c)
    BY <1>10, CallMoves
  <2>2. UNCHANGED <<passwords, stamps, reset>>
    BY <1>10 DEF CallStops, rowVars, history, Fine, Fault
  <2>3. Unchanged' \subseteq Unchanged /\ Unended' \subseteq Unended
    BY <2>1, CallKinds DEF Unchanged, Unended, Alone, Began, Went, Left, NoRequest
  <2> QED
    BY <1>a, <2>2, <2>3
<1>11. ASSUME NEW c \in SessionCalls, NEW t \in SessionTokens, IsRevoked(c, t) PROVE ResetInv'
  <2>1. Began(c, "refresh", token[t].pw, token[t].late, {t})
    BY <1>11, CallMoves
  <2>2. UNCHANGED <<passwords, stamps, reset>>
    BY <1>11 DEF IsRevoked, rowVars, history, Fine, Fault
  <2>3. Unchanged' \subseteq Unchanged /\ Unended' \subseteq Unended
    BY <2>1, CallKinds DEF Unchanged, Unended, Alone, Began, Went, Left, NoRequest
  <2> QED
    BY <1>a, <2>2, <2>3
<1>12. ASSUME NEW c \in SessionCalls, NEW r \in Resets, ConsumePasswordResetToken(c, r)
       PROVE ResetInv'
  <2>1. /\ Alone(c) /\ request[c] = NoRequest /\ request'[c] \notin Signing
        /\ request'[c].stage = "consumed" /\ request'[c].from = {}
    BY <1>12, CallMoves
  <2>2. /\ Used' = Used \cup {r} /\ r \notin Used
        /\ UNCHANGED <<passwords, stamps>>
    BY <1>12 DEF ConsumePasswordResetToken, Used, history
  <2>3. Unchanged' = Unchanged \cup {c} /\ Unended' = Unended \cup {c}
    BY <2>1, CallKinds DEF Unchanged, Unended, Alone, Began, Went, Left, NoRequest
  <2>4. c \notin Unchanged /\ c \notin Unended
    BY <2>1, CallKinds DEF Unchanged, Unended, Alone, Began, Went, Left, NoRequest
  <2>5. /\ Cardinality(Used') = Cardinality(Used) + 1
        /\ Cardinality(Unchanged') = Cardinality(Unchanged) + 1
        /\ Cardinality(Unended') = Cardinality(Unended) + 1
    BY <1>0, <2>2, <2>3, <2>4, FS_AddElement
  <2> QED
    BY <1>0, <2>2, <2>5 DEF ResetInv
<1>13. ASSUME NEW t \in SessionTokens, Logout(t) PROVE ResetInv'
  BY <1>a, <1>13 DEF Logout, Unchanged, Unended, rowVars, history, Fine, Fault
<1>14. ASSUME NEW r \in Resets, RequestPasswordReset(r) PROVE ResetInv'
  <2>1. Used' = Used /\ Unchanged' = Unchanged /\ Unended' = Unended
    BY <1>14 DEF RequestPasswordReset, Used, Unchanged, Unended
  <2> QED
    BY <1>14, <2>1 DEF RequestPasswordReset, ResetInv, history
<1>15. CASE LockExpires
  BY <1>a, <1>15 DEF LockExpires, Unchanged, Unended, rowVars, history, Fine, Fault
<1>16. CASE Restart
  <2>1. Unchanged' = {} /\ Unended' = {}
    BY <1>16 DEF Restart, Unchanged, Unended, NoRequest
  <2> QED
    BY <1>a, <1>16, <2>1 DEF Restart, rowVars, history, Fine, Fault
<1>17. CASE SecondPasses
  BY <1>a, <1>17 DEF SecondPasses, Unchanged, Unended, rowVars, history, Fine, Fault
<1>18. CASE UNCHANGED sessionVars
  BY <1>a, <1>18 DEF sessionVars, Unchanged, Unended, rowVars, history
<1> QED
  BY <1>1, <1>2, <1>3, <1>4, <1>5, <1>6, <1>7, <1>8, <1>9, <1>10, <1>11, <1>12, <1>13, <1>14,
     <1>15, <1>16, <1>17, <1>18 DEF SessionsNext

\* The invariant holds before any call ...
LEMMA SessionStart == SessionsInit => SessionIInv
<1> SUFFICES ASSUME SessionsInit PROVE SessionIInv
  OBVIOUS
<1> USE SessionConstants DEF SessionsInit
<1>1. /\ \A c \in SessionCalls : request[c] = NoRequest /\ request[c].stage = "idle"
      /\ \A t \in SessionTokens : token[t] = NoToken /\ uses[t] = 0
  BY DEF NoRequest
<1>2. SessionShape
  <2>1. login \in [failures: Nat, lock: {"none", "live", "over"}] /\ unstamped \in BOOLEAN
    OBVIOUS
  <2>2. request \in [SessionCalls -> {NoRequest} \cup Signing \cup Resetting]
    OBVIOUS
  <2>3. token \in [SessionTokens -> {NoToken} \cup Issued]
    OBVIOUS
  <2> QED
    BY <2>1, <2>2, <2>3 DEF SessionShape
<1>3. CallsInv /\ EndInv
  BY <1>1 DEF CallsInv, CallFine, EndInv
<1>4. UsesInv
  BY <1>1 DEF UsesInv, Exchanging
<1>5. Attempting = {} /\ Used = {} /\ Unchanged = {} /\ Unended = {}
  BY <1>1 DEF Attempting, Used, Unchanged, Unended
<1>6. Cardinality(SessionCalls) \in Nat /\ Cardinality({}) = 0
  BY FS_CardinalityType, FS_EmptySet
<1>7. LockoutInv /\ ResetInv
  BY <1>5, <1>6 DEF LockoutInv, ResetInv
<1> QED
  BY <1>2, <1>3, <1>4, <1>7 DEF SessionIInv

\* ... and every step keeps it.
LEMMA SessionStep == SessionIInv /\ [SessionsNext]_sessionVars => SessionIInv'
  BY SessionShapeStep, CallsStep, EndStep, UsesStep, LockoutStep, ResetStep DEF SessionIInv

\* A session that began with an older password is not renewed after the sessions were
\* ended, a refresh token is exchanged once, and the lock stands exactly at the limit, but
\* for the overlaps each allows (auth/service.go, auth/lockout_repo.go,
\* auth/twofactor_service.go).
THEOREM SessionsCorrect == SessionsSpec => []SessionsInv
<1>1. SessionIInv => SessionsInv
  <2> SUFFICES ASSUME SessionIInv PROVE SessionsInv
    OBVIOUS
  <2> USE SessionConstants DEF SessionIInv, SessionShape
  <2>1. /\ Cardinality(Used) <= Cardinality(Resets) /\ Cardinality(Used) \in Nat
        /\ Cardinality(Resets) \in Nat
    BY FS_Subset, FS_CardinalityType DEF Used
  <2>2. Cardinality(Unchanged) \in Nat /\ Cardinality(Unended) \in Nat
    BY FS_Subset, FS_CardinalityType DEF Unchanged, Unended
  <2>3. passwords \in 0 .. Cardinality(Resets) /\ stamps \in 0 .. Cardinality(Resets)
    BY <2>1, <2>2 DEF ResetInv
  <2>4. SessionsTypeOK
    BY <2>3 DEF SessionsTypeOK
  <2>5. SessionsEnd
    BY DEF SessionsEnd, Refreshable, EndInv
  <2>6. SingleUse
    BY DEF SingleUse, UsesInv
  <2>7. LockHolds
    BY DEF LockHolds, LockoutInv
  <2> QED
    BY <2>4, <2>5, <2>6, <2>7 DEF SessionsInv
<1> QED
  BY SessionStart, SessionStep, <1>1, PTL DEF SessionsSpec

-----------------------------------------------------------------------------
\* The types of the second factor; a code is redeemed once at most.
FactorShape ==
    /\ enabled \in BOOLEAN /\ mixed \in BOOLEAN
    /\ secret \subseteq Enrolments /\ checked \subseteq Enrolments /\ codes \subseteq Codes
    /\ enrolment \in [Enrolments -> [stage: {"new", "read", "secret", "codes", "done", "ended"},
                                     tried: 0 .. CodesPerSecret]]
    /\ verifying \in [Verifications -> SUBSET Enrolments]
    /\ redeeming \in [Challenges -> SUBSET Codes]
    /\ redeemed \in [Codes -> {0, 1} \cap 0 .. Cardinality(Challenges)]

\* A code that is stored, or was redeemed, is one its enrolment has added; a stored one was not
\* redeemed.
CodesInv == \A k \in Codes :
    /\ k \in codes \/ redeemed[k] = 1 => k[2] <= enrolment[k[1]].tried
    /\ redeemed[k] = 1 => k \notin codes

\* The stored secret is s, and no codes but its own are.
Whole(s) == secret = {s} /\ \A k \in codes : k[1] = s

\* As long as no two calls overlapped, an enrolment past its secret's update has its secret
\* stored, one past the codes' deletion has its codes alone, and the secret a verification has
\* read stays until the factor is on.
ApartInv == ~mixed =>
    /\ \A d, e \in InFlight : d = e
    /\ \A v, w \in Verifying : v = w
    /\ InFlight = {} \/ Verifying = {}
    /\ enabled => InFlight = {} /\ Verifying = {}
    /\ \A e \in Enrolments : /\ enrolment[e].stage = "secret" => secret = {e}
                             /\ enrolment[e].stage = "codes" => Whole(e)
                             /\ enrolment[e].stage = "done" /\ secret = {e} => Whole(e)
    /\ \A v \in Verifying : verifying[v] = secret
    /\ enabled \/ Verifying # {} => \E s \in checked : Whole(s)

\* One secret at most is stored.
OneSecret == \A d, e \in secret : d = e

FactorIInv == FactorShape /\ CodesInv /\ OneSecret /\ ApartInv

\* Every step keeps the types.
LEMMA FactorShapeStep == FactorShape /\ CodesInv /\ [TwoFactorNext]_factorVars => FactorShape'
<1> SUFFICES ASSUME FactorShape, CodesInv, [TwoFactorNext]_factorVars PROVE FactorShape'
  OBVIOUS
<1> USE TwoFactorConstants DEF FactorShape, CodesInv, Codes, Begins, InFlight
<1>1. ASSUME NEW e \in Enrolments, EnrollRead(e) PROVE FactorShape'
  BY <1>1 DEF EnrollRead
<1>2. ASSUME NEW e \in Enrolments, SetTOTPSecret(e) PROVE FactorShape'
  BY <1>2 DEF SetTOTPSecret
<1>3. ASSUME NEW e \in Enrolments, ClearRecoveryCodes(e) PROVE FactorShape'
  BY <1>3 DEF ClearRecoveryCodes
<1>4. ASSUME NEW e \in Enrolments, AddRecoveryCode(e) PROVE FactorShape'
  BY <1>4 DEF AddRecoveryCode
<1>5. ASSUME NEW e \in Enrolments, EnrollReturns(e) PROVE FactorShape'
  BY <1>5 DEF EnrollReturns
<1>6. ASSUME NEW e \in Enrolments, EnrollStops(e) PROVE FactorShape'
  BY <1>6 DEF EnrollStops
<1>7. ASSUME NEW v \in Verifications, VerifyRead(v) PROVE FactorShape'
  BY <1>7 DEF VerifyRead
<1>8. ASSUME NEW v \in Verifications, EnableTOTP(v) PROVE FactorShape'
  BY <1>8 DEF EnableTOTP
<1>9. ASSUME NEW c \in Challenges, NEW k \in Codes, MatchCode(c, k) PROVE FactorShape'
  BY <1>9 DEF MatchCode
<1>10. ASSUME NEW c \in Challenges, UseCode(c) PROVE FactorShape'
  <2>1. Cardinality(Challenges) \in Nat \ {0}
    BY <1>10, TwoFactorConstants, FS_CardinalityType, FS_EmptySet
  <2>2. redeemed' \in [Codes -> {0, 1} \cap 0 .. Cardinality(Challenges)]
    BY <1>10, <2>1 DEF UseCode
  <2> QED
    BY <1>10, <2>2 DEF UseCode
<1>11. CASE UNCHANGED factorVars
  BY <1>11 DEF factorVars
<1> QED
  BY <1>1, <1>2, <1>3, <1>4, <1>5, <1>6, <1>7, <1>8, <1>9, <1>10, <1>11 DEF TwoFactorNext

\* Every step keeps what the codes owe to their enrolment.
LEMMA CodesStep == FactorShape /\ CodesInv /\ [TwoFactorNext]_factorVars => CodesInv'
<1> SUFFICES ASSUME FactorShape, CodesInv, [TwoFactorNext]_factorVars PROVE CodesInv'
  OBVIOUS
<1> USE DEF FactorShape, CodesInv, Codes, InFlight
<1>1. ASSUME NEW e \in Enrolments, EnrollRead(e) PROVE CodesInv'
  BY <1>1 DEF EnrollRead
<1>2. ASSUME NEW e \in Enrolments, SetTOTPSecret(e) PROVE CodesInv'
  BY <1>2 DEF SetTOTPSecret
<1>3. ASSUME NEW e \in Enrolments, ClearRecoveryCodes(e) PROVE CodesInv'
  BY <1>3 DEF ClearRecoveryCodes
<1>4. ASSUME NEW e \in Enrolments, AddRecoveryCode(e) PROVE CodesInv'
  BY <1>4 DEF AddRecoveryCode
<1>5. ASSUME NEW e \in Enrolments, EnrollReturns(e) PROVE CodesInv'
  BY <1>5 DEF EnrollReturns
<1>6. ASSUME NEW e \in Enrolments, EnrollStops(e) PROVE CodesInv'
  BY <1>6 DEF EnrollStops
<1>7. ASSUME NEW v \in Verifications, VerifyRead(v) PROVE CodesInv'
  BY <1>7 DEF VerifyRead
<1>8. ASSUME NEW v \in Verifications, EnableTOTP(v) PROVE CodesInv'
  BY <1>8 DEF EnableTOTP
<1>9. ASSUME NEW c \in Challenges, NEW k \in Codes, MatchCode(c, k) PROVE CodesInv'
  BY <1>9 DEF MatchCode
<1>10. ASSUME NEW c \in Challenges, UseCode(c) PROVE CodesInv'
  BY <1>10 DEF UseCode
<1>11. CASE UNCHANGED factorVars
  BY <1>11 DEF factorVars
<1> QED
  BY <1>1, <1>2, <1>3, <1>4, <1>5, <1>6, <1>7, <1>8, <1>9, <1>10, <1>11 DEF TwoFactorNext

\* Every step keeps one secret.
LEMMA OneSecretStep == FactorShape /\ OneSecret /\ [TwoFactorNext]_factorVars => OneSecret'
<1> SUFFICES ASSUME FactorShape, OneSecret, [TwoFactorNext]_factorVars PROVE OneSecret'
  OBVIOUS
<1> USE DEF FactorShape, OneSecret
<1>1. ASSUME NEW e \in Enrolments, EnrollRead(e) PROVE OneSecret'
  BY <1>1 DEF EnrollRead
<1>2. ASSUME NEW e \in Enrolments, SetTOTPSecret(e) PROVE OneSecret'
  BY <1>2 DEF SetTOTPSecret
<1>3. ASSUME NEW e \in Enrolments, ClearRecoveryCodes(e) PROVE OneSecret'
  BY <1>3 DEF ClearRecoveryCodes
<1>4. ASSUME NEW e \in Enrolments, AddRecoveryCode(e) PROVE OneSecret'
  BY <1>4 DEF AddRecoveryCode
<1>5. ASSUME NEW e \in Enrolments, EnrollReturns(e) PROVE OneSecret'
  BY <1>5 DEF EnrollReturns
<1>6. ASSUME NEW e \in Enrolments, EnrollStops(e) PROVE OneSecret'
  BY <1>6 DEF EnrollStops
<1>7. ASSUME NEW v \in Verifications, VerifyRead(v) PROVE OneSecret'
  BY <1>7 DEF VerifyRead
<1>8. ASSUME NEW v \in Verifications, EnableTOTP(v) PROVE OneSecret'
  BY <1>8 DEF EnableTOTP
<1>9. ASSUME NEW c \in Challenges, NEW k \in Codes, MatchCode(c, k) PROVE OneSecret'
  BY <1>9 DEF MatchCode
<1>10. ASSUME NEW c \in Challenges, UseCode(c) PROVE OneSecret'
  BY <1>10 DEF UseCode
<1>11. CASE UNCHANGED factorVars
  BY <1>11 DEF factorVars
<1> QED
  BY <1>1, <1>2, <1>3, <1>4, <1>5, <1>6, <1>7, <1>8, <1>9, <1>10, <1>11 DEF TwoFactorNext

\* Every step keeps calls that do not overlap apart.
LEMMA ApartStep == FactorShape /\ OneSecret /\ ApartInv /\ [TwoFactorNext]_factorVars => ApartInv'
<1> SUFFICES ASSUME FactorShape, OneSecret, ApartInv, [TwoFactorNext]_factorVars PROVE ApartInv'
  OBVIOUS
<1> USE DEF FactorShape, OneSecret, ApartInv, Whole, InFlight, Verifying, Begins
<1>1. ASSUME NEW e \in Enrolments, EnrollRead(e) PROVE ApartInv'
  <2>1. /\ enrolment'[e].stage = "read"
        /\ \A d \in Enrolments \ {e} : enrolment'[d] = enrolment[d]
    BY <1>1 DEF EnrollRead
  <2>2. UNCHANGED verifying
    BY <1>1 DEF EnrollRead
  <2>3. CASE mixed'
    BY <2>3
  <2>4. CASE ~mixed'
    <3>1. ~mixed /\ ~enabled /\ InFlight = {} /\ Verifying = {}
      BY <1>1, <2>4 DEF EnrollRead
    <3>2. UNCHANGED <<enabled, secret, codes, checked>>
      BY <1>1 DEF EnrollRead
    <3>3. InFlight' = {e} /\ Verifying' = {}
      BY <2>1, <2>2, <3>1
    <3> HIDE DEF InFlight, Verifying
    <3> QED
      BY <2>1, <2>2, <3>1, <3>2, <3>3
  <2> QED
    BY <2>3, <2>4
<1>2. ASSUME NEW e \in Enrolments, SetTOTPSecret(e) PROVE ApartInv'
  <2>1. /\ enrolment'[e].stage = "secret"
        /\ \A d \in Enrolments \ {e} : enrolment'[d] = enrolment[d]
    BY <1>2 DEF SetTOTPSecret
  <2>2. UNCHANGED verifying
    BY <1>2 DEF SetTOTPSecret
  <2>3. e \in InFlight /\ secret' = {e} /\ UNCHANGED <<enabled, codes, checked, mixed>>
    BY <1>2 DEF SetTOTPSecret
  <2>4. InFlight' = InFlight /\ Verifying' = Verifying
    BY <2>1, <2>2, <2>3
  <2>5. ~mixed => \A d \in Enrolments \ {e} : d \notin InFlight
    BY <2>3
  <2>6. \A d \in Enrolments \ {e} : enrolment'[d].stage = "done" => secret' # {d}
    BY <2>3
  <2>7. ~mixed => ~enabled /\ Verifying = {}
    BY <2>3
  <2>8. ~mixed => \A d \in Enrolments \ {e} : enrolment'[d].stage \notin {"secret", "codes"}
    BY <2>1, <2>5
  <2> HIDE DEF InFlight, Verifying
  <2> QED
    BY <2>1, <2>3, <2>4, <2>6, <2>7, <2>8
<1>3. ASSUME NEW e \in Enrolments, ClearRecoveryCodes(e) PROVE ApartInv'
  BY <1>3 DEF ClearRecoveryCodes
<1>4. ASSUME NEW e \in Enrolments, AddRecoveryCode(e) PROVE ApartInv'
  <2>1. /\ enrolment'[e].stage = "codes"
        /\ \A d \in Enrolments \ {e} : enrolment'[d] = enrolment[d]
    BY <1>4 DEF AddRecoveryCode
  <2>2. UNCHANGED verifying
    BY <1>4 DEF AddRecoveryCode
  <2>3. /\ enrolment[e].stage = "codes" /\ codes' \subseteq codes \cup {<<e, enrolment[e].tried + 1>>}
        /\ UNCHANGED <<enabled, secret, checked, mixed>>
    BY <1>4 DEF AddRecoveryCode
  <2>4. InFlight' = InFlight /\ Verifying' = Verifying /\ e \in InFlight
    BY <2>1, <2>2, <2>3
  <2>5. \A k \in codes' : k \in codes \/ k[1] = e
    BY <2>3
  <2>6. ~mixed => ~enabled /\ Verifying = {} /\ Whole(e)
    BY <2>3, <2>4
  <2>7. ~mixed => Whole(e)'
    BY <2>3, <2>5, <2>6
  <2> QED
    BY <2>1, <2>2, <2>3, <2>4, <2>6, <2>7
<1>5. ASSUME NEW e \in Enrolments, EnrollReturns(e) PROVE ApartInv'
  BY <1>5 DEF EnrollReturns
<1>6. ASSUME NEW e \in Enrolments, EnrollStops(e) PROVE ApartInv'
  BY <1>6 DEF EnrollStops
<1>7. ASSUME NEW v \in Verifications, VerifyRead(v) PROVE ApartInv'
  <2>1. CASE mixed'
    BY <2>1
  <2>2. CASE ~mixed'
    <3>1. ~mixed /\ ~enabled /\ InFlight = {} /\ Verifying = {}
      BY <1>7, <2>2 DEF VerifyRead
    <3>2. UNCHANGED <<enabled, secret, codes, enrolment>> /\ checked' = checked \cup secret
      BY <1>7 DEF VerifyRead
    <3>3. PICK e \in secret : enrolment[e].stage = "done"
      BY <1>7 DEF VerifyRead
    <3>4. secret = {e} /\ Whole(e) /\ e \in checked'
      BY <3>1, <3>2, <3>3
    <3>5. verifying'[v] = {e} /\ \A w \in Verifications \ {v} : verifying'[w] = {}
      BY <1>7, <3>1, <3>4 DEF VerifyRead
    <3>6. InFlight' = {}
      BY <3>1, <3>2
    <3>8. Verifying' = {v}
      BY <3>5
    <3>7. Whole(e)'
      BY <3>2, <3>4
    <3> HIDE DEF InFlight, Verifying
    <3> QED
      BY <3>1, <3>2, <3>4, <3>5, <3>6, <3>7, <3>8
  <2> QED
    BY <2>1, <2>2
<1>8. ASSUME NEW v \in Verifications, EnableTOTP(v) PROVE ApartInv'
  BY <1>8 DEF EnableTOTP
<1>9. ASSUME NEW c \in Challenges, NEW k \in Codes, MatchCode(c, k) PROVE ApartInv'
  BY <1>9 DEF MatchCode
<1>10. ASSUME NEW c \in Challenges, UseCode(c) PROVE ApartInv'
  BY <1>10 DEF UseCode
<1>11. CASE UNCHANGED factorVars
  BY <1>11 DEF factorVars
<1> QED
  BY <1>1, <1>2, <1>3, <1>4, <1>5, <1>6, <1>7, <1>8, <1>9, <1>10, <1>11 DEF TwoFactorNext

LEMMA FactorStart == TwoFactorInit => FactorIInv
<1> SUFFICES ASSUME TwoFactorInit PROVE FactorIInv
  OBVIOUS
<1> USE TwoFactorConstants DEF TwoFactorInit, Codes
<1>1. Cardinality(Challenges) \in Nat
  BY FS_CardinalityType
<1>2. FactorShape
  <2>1. enrolment \in [Enrolments -> [stage: {"new", "read", "secret", "codes", "done", "ended"},
                                      tried: 0 .. CodesPerSecret]]
    OBVIOUS
  <2>2. redeemed \in [Codes -> {0, 1} \cap 0 .. Cardinality(Challenges)]
    BY <1>1
  <2>3. enabled \in BOOLEAN /\ mixed \in BOOLEAN
    OBVIOUS
  <2> QED
    BY <2>1, <2>2, <2>3 DEF FactorShape
<1>3. CodesInv /\ OneSecret
  BY DEF CodesInv, OneSecret
<1>4. InFlight = {} /\ Verifying = {}
  BY DEF InFlight, Verifying
<1>5. ApartInv
  BY <1>4 DEF ApartInv
<1> QED
  BY <1>2, <1>3, <1>5 DEF FactorIInv

LEMMA FactorStep == FactorIInv /\ [TwoFactorNext]_factorVars => FactorIInv'
BY FactorShapeStep, CodesStep, OneSecretStep, ApartStep DEF FactorIInv

\* Unless two enrolments or verifications overlapped, the factor that is on has the secret the
\* user proved and only the codes shown with it, and a recovery code yields one session however
\* many challenges match it at once (auth/twofactor_service.go, auth/twofactor_repo.go).
THEOREM TwoFactorCorrect == TwoFactorSpec => []TwoFactorInv
<1>1. FactorIInv => TwoFactorInv
  <2> SUFFICES ASSUME FactorIInv PROVE TwoFactorInv
    OBVIOUS
  <2> USE DEF FactorIInv
  <2>1. FactorWhole
    BY DEF FactorWhole, ApartInv, Whole, FactorShape
  <2>2. CodeOnce
    BY DEF CodeOnce, CodesInv, FactorShape
  <2> QED
    BY <2>1, <2>2, TwoFactorConstants, FS_CardinalityType DEF TwoFactorInv, TwoFactorTypeOK,
       FactorShape
<1> QED
  BY <1>1, FactorStart, FactorStep, PTL DEF TwoFactorSpec

-----------------------------------------------------------------------------
\* The types of the account's rows, of its exports, and of the executions under way.
AccountShape ==
    /\ scrubbed \in BOOLEAN
    /\ identity \in {"none", "pending", "verified", "rejected"}
    /\ kyc \in [KYCRecords -> {"none", "pending", "verified", "rejected"}]
    /\ deletion \in [Deletions -> {"none", "cooling", "approved", "rejected", "cancelled", "deleted"}]
    /\ cooled \subseteq Deletions
    /\ erasureFaults \in 0 .. MaxErasureFaults

ExportShape ==
    /\ job \in [Exports -> {"new", "none", "pending", "generating", "ready", "failed", "expired"}]
    /\ keyed \subseteq Exports /\ strays \subseteq Exports /\ asking \subseteq Requesters
    /\ archive \in [Exports -> Contents]
    /\ generator \in [Exports -> [stage: {"idle", "started", "generating", "collected", "stored"},
                                  holds: Contents]]

EraserShape ==
    erasing \in [Erasers -> [stage: {"idle", "approved", "purged", "scrub", "scrubbed"},
                             request: 0 .. MaxDeletions, keys: SUBSET Exports]]

\* An execution is about a request that was left to cool and approved, holds keys only while
\* it deletes their objects, and is past the scrubbing only once the account is scrubbed.
EraserInv == \A e \in Erasers :
    /\ erasing[e].stage = "idle" => erasing[e] = NotErasing
    /\ erasing[e].stage # "idle" => /\ erasing[e].request \in cooled
                                    /\ deletion[erasing[e].request] \in {"approved", "deleted"}
    /\ erasing[e].keys # {} => erasing[e].stage = "purged"
    /\ erasing[e].stage = "scrubbed" => scrubbed

\* What was approved has cooled, what is deleted was scrubbed, and one request is active.
DeletionInv ==
    /\ \A d \in Deletions : deletion[d] \in {"approved", "deleted"} => d \in cooled
    /\ \A d \in Deletions : deletion[d] = "deleted" => scrubbed
    /\ scrubbed => \E d \in cooled : deletion[d] \in {"approved", "deleted"}
    /\ \A d, e \in Deletions :
          deletion[d] \in {"cooling", "approved"} /\ deletion[e] \in {"cooling", "approved"} => d = e

\* A job not yet created has no goroutine: none of its archives is in the making.
NewJobsInv == \A j \in Exports : job[j] = "new" => generator[j].stage = "idle"

ErasureIInv == /\ AccountShape /\ ExportShape /\ EraserShape
               /\ EraserInv /\ DeletionInv /\ NewJobsInv /\ ArchivesFindable /\ IdentityBacked

\* Every step keeps the types of the rows.
LEMMA AccountShapeStep ==
  AccountShape /\ EraserShape /\ EraserInv /\ [ErasureNext]_erasureVars => AccountShape'
<1> SUFFICES ASSUME AccountShape, EraserShape, EraserInv, [ErasureNext]_erasureVars
             PROVE AccountShape'
  OBVIOUS
<1> USE ErasureConstants DEF AccountShape, EraserShape, EraserInv, NotErasing, accountRows,
        exportState, Steady, Fails
<1>1. ASSUME NEW k \in KYCRecords, SubmitKYC(k) PROVE AccountShape'
  BY <1>1 DEF SubmitKYC
<1>2. ASSUME NEW k \in KYCRecords, NEW r \in {"verified", "rejected"}, ReviewKYC(k, r)
      PROVE AccountShape'
  BY <1>2 DEF ReviewKYC
<1>3. ASSUME NEW q \in Requesters, FindRecent(q) PROVE AccountShape'
  BY <1>3 DEF FindRecent
<1>4. ASSUME NEW q \in Requesters, NEW j \in Exports, CreateExport(q, j) PROVE AccountShape'
  BY <1>4 DEF CreateExport
<1>5. ASSUME NEW j \in Exports, SetGenerating(j) PROVE AccountShape'
  BY <1>5 DEF SetGenerating
<1>6. ASSUME NEW j \in Exports, Collect(j) PROVE AccountShape'
  BY <1>6 DEF Collect
<1>7. ASSUME NEW j \in Exports, StoreArchive(j) PROVE AccountShape'
  BY <1>7 DEF StoreArchive
<1>8. ASSUME NEW j \in Exports, SetReady(j) PROVE AccountShape'
  BY <1>8 DEF SetReady
<1>9. ASSUME NEW j \in Exports, GeneratorStops(j) PROVE AccountShape'
  BY <1>9 DEF GeneratorStops
<1>10. CASE ExpireOldJobs
  BY <1>10 DEF ExpireOldJobs
<1>11. ASSUME NEW d \in Deletions, RequestDeletion(d) PROVE AccountShape'
  BY <1>11 DEF RequestDeletion
<1>12. ASSUME NEW d \in Deletions, CoolingEnds(d) PROVE AccountShape'
  BY <1>12 DEF CoolingEnds
<1>13. ASSUME NEW d \in Deletions, NEW to \in {"approved", "rejected", "cancelled"}, Decide(d, to)
       PROVE AccountShape'
  BY <1>13 DEF Decide, MayDecide
<1>14. ASSUME NEW e \in Erasers, NEW d \in Deletions, ExecuteRead(e, d) PROVE AccountShape'
  BY <1>14 DEF ExecuteRead
<1>15. ASSUME NEW e \in Erasers, PurgeByUser(e) PROVE AccountShape'
  BY <1>15 DEF PurgeByUser
<1>16. ASSUME NEW e \in Erasers, DeleteObject(e) PROVE AccountShape'
  BY <1>16 DEF DeleteObject
<1>17. ASSUME NEW e \in Erasers, ExecuteDeletion(e) PROVE AccountShape'
  BY <1>17 DEF ExecuteDeletion
<1>18. ASSUME NEW e \in Erasers, SetDeleted(e) PROVE AccountShape'
  BY <1>18 DEF SetDeleted
<1>19. ASSUME NEW e \in Erasers, ExecuteStops(e) PROVE AccountShape'
  BY <1>19 DEF ExecuteStops
<1>20. CASE UNCHANGED erasureVars
  BY <1>20 DEF erasureVars
<1> QED
  BY <1>1, <1>2, <1>3, <1>4, <1>5, <1>6, <1>7, <1>8, <1>9, <1>10, <1>11, <1>12, <1>13, <1>14,
     <1>15, <1>16, <1>17, <1>18, <1>19, <1>20 DEF ErasureNext

\* Every step keeps the types of the exports.
LEMMA ExportShapeStep == ExportShape /\ EraserShape /\ [ErasureNext]_erasureVars => ExportShape'
<1> SUFFICES ASSUME ExportShape, EraserShape, [ErasureNext]_erasureVars PROVE ExportShape'
  OBVIOUS
<1> USE DEF ExportShape, EraserShape, Contents, SetExport, accountRows, exportState, Steady, Fails
<1>1. ASSUME NEW k \in KYCRecords, SubmitKYC(k) PROVE ExportShape'
  BY <1>1 DEF SubmitKYC
<1>2. ASSUME NEW k \in KYCRecords, NEW r \in {"verified", "rejected"}, ReviewKYC(k, r)
      PROVE ExportShape'
  BY <1>2 DEF ReviewKYC
<1>3. ASSUME NEW q \in Requesters, FindRecent(q) PROVE ExportShape'
  BY <1>3 DEF FindRecent
<1>4. ASSUME NEW q \in Requesters, NEW j \in Exports, CreateExport(q, j) PROVE ExportShape'
  BY <1>4 DEF CreateExport
<1>5. ASSUME NEW j \in Exports, SetGenerating(j) PROVE ExportShape'
  BY <1>5 DEF SetGenerating
<1>6. ASSUME NEW j \in Exports, Collect(j) PROVE ExportShape'
  BY SMTT(20), <1>6 DEF Collect
<1>7. ASSUME NEW j \in Exports, StoreArchive(j) PROVE ExportShape'
  BY <1>7 DEF StoreArchive
<1>8. ASSUME NEW j \in Exports, SetReady(j) PROVE ExportShape'
  <2>1. generator' \in [Exports -> [stage: {"idle", "started", "generating", "collected", "stored"},
                                    holds: Contents]]
    BY <1>8 DEF SetReady
  <2>2. job' \in [Exports -> {"new", "none", "pending", "generating", "ready", "failed", "expired"}]
    BY <1>8 DEF SetReady
  <2>3. keyed' \subseteq Exports /\ strays' \subseteq Exports
    BY <1>8 DEF SetReady
  <2> QED
    BY <1>8, <2>1, <2>2, <2>3 DEF SetReady
<1>9. ASSUME NEW j \in Exports, GeneratorStops(j) PROVE ExportShape'
  BY <1>9 DEF GeneratorStops
<1>10. CASE ExpireOldJobs
  BY <1>10 DEF ExpireOldJobs
<1>11. ASSUME NEW d \in Deletions, RequestDeletion(d) PROVE ExportShape'
  BY <1>11 DEF RequestDeletion
<1>12. ASSUME NEW d \in Deletions, CoolingEnds(d) PROVE ExportShape'
  BY <1>12 DEF CoolingEnds
<1>13. ASSUME NEW d \in Deletions, NEW to \in {"approved", "rejected", "cancelled"}, Decide(d, to)
       PROVE ExportShape'
  BY <1>13 DEF Decide
<1>14. ASSUME NEW e \in Erasers, NEW d \in Deletions, ExecuteRead(e, d) PROVE ExportShape'
  BY <1>14 DEF ExecuteRead
<1>15. ASSUME NEW e \in Erasers, PurgeByUser(e) PROVE ExportShape'
  BY <1>15 DEF PurgeByUser
<1>16. ASSUME NEW e \in Erasers, DeleteObject(e) PROVE ExportShape'
  BY <1>16 DEF DeleteObject
<1>17. ASSUME NEW e \in Erasers, ExecuteDeletion(e) PROVE ExportShape'
  BY <1>17 DEF ExecuteDeletion
<1>18. ASSUME NEW e \in Erasers, SetDeleted(e) PROVE ExportShape'
  BY <1>18 DEF SetDeleted
<1>19. ASSUME NEW e \in Erasers, ExecuteStops(e) PROVE ExportShape'
  BY <1>19 DEF ExecuteStops
<1>20. CASE UNCHANGED erasureVars
  BY <1>20 DEF erasureVars
<1> QED
  BY <1>1, <1>2, <1>3, <1>4, <1>5, <1>6, <1>7, <1>8, <1>9, <1>10, <1>11, <1>12, <1>13, <1>14,
     <1>15, <1>16, <1>17, <1>18, <1>19, <1>20 DEF ErasureNext

\* Every step keeps the types of the executions.
LEMMA EraserShapeStep == EraserShape /\ ExportShape /\ [ErasureNext]_erasureVars => EraserShape'
<1> SUFFICES ASSUME EraserShape, ExportShape, [ErasureNext]_erasureVars PROVE EraserShape'
  OBVIOUS
<1> USE ErasureConstants DEF EraserShape, ExportShape, NotErasing, Deletions, accountRows,
        exportState, Steady, Fails
<1>1. ASSUME NEW k \in KYCRecords, SubmitKYC(k) PROVE EraserShape'
  BY <1>1 DEF SubmitKYC
<1>2. ASSUME NEW k \in KYCRecords, NEW r \in {"verified", "rejected"}, ReviewKYC(k, r)
      PROVE EraserShape'
  BY <1>2 DEF ReviewKYC
<1>3. ASSUME NEW q \in Requesters, FindRecent(q) PROVE EraserShape'
  BY <1>3 DEF FindRecent
<1>4. ASSUME NEW q \in Requesters, NEW j \in Exports, CreateExport(q, j) PROVE EraserShape'
  BY <1>4 DEF CreateExport
<1>5. ASSUME NEW j \in Exports, SetGenerating(j) PROVE EraserShape'
  BY <1>5 DEF SetGenerating
<1>6. ASSUME NEW j \in Exports, Collect(j) PROVE EraserShape'
  BY <1>6 DEF Collect
<1>7. ASSUME NEW j \in Exports, StoreArchive(j) PROVE EraserShape'
  BY <1>7 DEF StoreArchive
<1>8. ASSUME NEW j \in Exports, SetReady(j) PROVE EraserShape'
  BY <1>8 DEF SetReady
<1>9. ASSUME NEW j \in Exports, GeneratorStops(j) PROVE EraserShape'
  BY <1>9 DEF GeneratorStops
<1>10. CASE ExpireOldJobs
  BY <1>10 DEF ExpireOldJobs
<1>11. ASSUME NEW d \in Deletions, RequestDeletion(d) PROVE EraserShape'
  BY <1>11 DEF RequestDeletion
<1>12. ASSUME NEW d \in Deletions, CoolingEnds(d) PROVE EraserShape'
  BY <1>12 DEF CoolingEnds
<1>13. ASSUME NEW d \in Deletions, NEW to \in {"approved", "rejected", "cancelled"}, Decide(d, to)
       PROVE EraserShape'
  BY <1>13 DEF Decide
<1>14. ASSUME NEW e \in Erasers, NEW d \in Deletions, ExecuteRead(e, d) PROVE EraserShape'
  BY <1>14 DEF ExecuteRead
<1>15. ASSUME NEW e \in Erasers, PurgeByUser(e) PROVE EraserShape'
  BY ZenonT(40), <1>15 DEF PurgeByUser
<1>16. ASSUME NEW e \in Erasers, DeleteObject(e) PROVE EraserShape'
  <2>1. \/ erasing' = [erasing EXCEPT ![e].stage = "scrub"]
        \/ \E j \in erasing[e].keys : erasing' = [erasing EXCEPT ![e].keys = @ \ {j}]
        \/ erasing' = [erasing EXCEPT ![e] = NotErasing]
    BY <1>16 DEF DeleteObject
  <2>2. CASE erasing' = [erasing EXCEPT ![e].stage = "scrub"]
    BY <2>2
  <2>3. ASSUME NEW j \in erasing[e].keys, erasing' = [erasing EXCEPT ![e].keys = @ \ {j}]
        PROVE  EraserShape'
    BY <2>3
  <2>4. CASE erasing' = [erasing EXCEPT ![e] = NotErasing]
    BY <2>4
  <2> QED
    BY <2>1, <2>2, <2>3, <2>4
<1>17. ASSUME NEW e \in Erasers, ExecuteDeletion(e) PROVE EraserShape'
  BY <1>17 DEF ExecuteDeletion
<1>18. ASSUME NEW e \in Erasers, SetDeleted(e) PROVE EraserShape'
  BY <1>18 DEF SetDeleted
<1>19. ASSUME NEW e \in Erasers, ExecuteStops(e) PROVE EraserShape'
  BY <1>19 DEF ExecuteStops
<1>20. CASE UNCHANGED erasureVars
  BY <1>20 DEF erasureVars
<1> QED
  BY <1>1, <1>2, <1>3, <1>4, <1>5, <1>6, <1>7, <1>8, <1>9, <1>10, <1>11, <1>12, <1>13, <1>14,
     <1>15, <1>16, <1>17, <1>18, <1>19, <1>20 DEF ErasureNext

\* Every step keeps the executions so.
LEMMA EraserStep ==
  AccountShape /\ ExportShape /\ EraserShape /\ EraserInv /\ DeletionInv /\
  [ErasureNext]_erasureVars => EraserInv'
<1> SUFFICES ASSUME AccountShape, ExportShape, EraserShape, EraserInv, DeletionInv,
                    [ErasureNext]_erasureVars
             PROVE EraserInv'
  OBVIOUS
<1> NotErasing.stage = "idle" /\ NotErasing.keys = {}
  BY DEF NotErasing
<1> USE DEF AccountShape, ExportShape, EraserShape, EraserInv, Deletions, accountRows,
        exportState, Steady, Fails
<1>1. ASSUME NEW k \in KYCRecords, SubmitKYC(k) PROVE EraserInv'
  BY <1>1 DEF SubmitKYC
<1>2. ASSUME NEW k \in KYCRecords, NEW r \in {"verified", "rejected"}, ReviewKYC(k, r)
      PROVE EraserInv'
  BY <1>2 DEF ReviewKYC
<1>3. ASSUME NEW q \in Requesters, FindRecent(q) PROVE EraserInv'
  BY <1>3 DEF FindRecent
<1>4. ASSUME NEW q \in Requesters, NEW j \in Exports, CreateExport(q, j) PROVE EraserInv'
  BY <1>4 DEF CreateExport
<1>5. ASSUME NEW j \in Exports, SetGenerating(j) PROVE EraserInv'
  BY <1>5 DEF SetGenerating
<1>6. ASSUME NEW j \in Exports, Collect(j) PROVE EraserInv'
  BY <1>6 DEF Collect
<1>7. ASSUME NEW j \in Exports, StoreArchive(j) PROVE EraserInv'
  BY <1>7 DEF StoreArchive
<1>8. ASSUME NEW j \in Exports, SetReady(j) PROVE EraserInv'
  BY <1>8 DEF SetReady
<1>9. ASSUME NEW j \in Exports, GeneratorStops(j) PROVE EraserInv'
  BY <1>9 DEF GeneratorStops
<1>10. CASE ExpireOldJobs
  BY <1>10 DEF ExpireOldJobs
<1>11. ASSUME NEW d \in Deletions, RequestDeletion(d) PROVE EraserInv'
  BY <1>11 DEF RequestDeletion
<1>12. ASSUME NEW d \in Deletions, CoolingEnds(d) PROVE EraserInv'
  BY <1>12 DEF CoolingEnds
<1>13. ASSUME NEW d \in Deletions, NEW to \in {"approved", "rejected", "cancelled"}, Decide(d, to)
       PROVE EraserInv'
  BY <1>13 DEF Decide, MayDecide
<1>14. ASSUME NEW e \in Erasers, NEW d \in Deletions, ExecuteRead(e, d) PROVE EraserInv'
  <2>1. deletion[d] = "approved" /\ UNCHANGED <<cooled, deletion, scrubbed>>
    BY <1>14 DEF ExecuteRead
  <2>2. /\ erasing'[e].stage = "approved" /\ erasing'[e].request = d /\ erasing'[e].keys = {}
        /\ \A f \in Erasers \ {e} : erasing'[f] = erasing[f]
    BY <1>14 DEF ExecuteRead
  <2>3. d \in cooled
    BY <2>1 DEF DeletionInv
  <2> QED
    BY <2>1, <2>2, <2>3
<1>15. ASSUME NEW e \in Erasers, PurgeByUser(e) PROVE EraserInv'
  BY <1>15 DEF PurgeByUser
<1>16. ASSUME NEW e \in Erasers, DeleteObject(e) PROVE EraserInv'
  <2>1. /\ erasing[e].stage = "purged" /\ UNCHANGED <<cooled, deletion, scrubbed>>
        /\ \A f \in Erasers \ {e} : erasing'[f] = erasing[f]
    BY <1>16 DEF DeleteObject
  <2>2. CASE erasing[e].keys = {}
    <3>1. /\ erasing'[e].stage = "scrub" /\ erasing'[e].keys = {}
          /\ erasing'[e].request = erasing[e].request
      <4>1. erasing' = [erasing EXCEPT ![e].stage = "scrub"]
        BY <1>16, <2>2 DEF DeleteObject
      <4> QED
        BY <2>2, <4>1
    <3> QED
      BY <2>1, <3>1
  <2>3. CASE erasing[e].keys # {}
    <3>1. \/ erasing'[e] = NotErasing
          \/ erasing'[e].stage = "purged" /\ erasing'[e].request = erasing[e].request
      <4>1. ASSUME NEW j \in erasing[e].keys, erasing' = [erasing EXCEPT ![e].keys = @ \ {j}]
            PROVE  erasing'[e].stage = "purged" /\ erasing'[e].request = erasing[e].request
        BY <2>1, <4>1
      <4>2. CASE erasing' = [erasing EXCEPT ![e] = NotErasing]
        BY <4>2
      <4> QED
        BY <1>16, <2>3, <4>1, <4>2 DEF DeleteObject
    <3> QED
      BY <2>1, <3>1
  <2> QED
    BY <2>2, <2>3
<1>17. ASSUME NEW e \in Erasers, ExecuteDeletion(e) PROVE EraserInv'
  BY <1>17 DEF ExecuteDeletion
<1>18. ASSUME NEW e \in Erasers, SetDeleted(e) PROVE EraserInv'
  BY <1>18 DEF SetDeleted
<1>19. ASSUME NEW e \in Erasers, ExecuteStops(e) PROVE EraserInv'
  BY <1>19 DEF ExecuteStops
<1>20. CASE UNCHANGED erasureVars
  BY <1>20 DEF erasureVars
<1> QED
  BY <1>1, <1>2, <1>3, <1>4, <1>5, <1>6, <1>7, <1>8, <1>9, <1>10, <1>11, <1>12, <1>13, <1>14,
     <1>15, <1>16, <1>17, <1>18, <1>19, <1>20 DEF ErasureNext

\* Every step keeps the requests so.
LEMMA DeletionStep ==
  AccountShape /\ EraserShape /\ EraserInv /\ DeletionInv /\
  [ErasureNext]_erasureVars => DeletionInv'
<1> SUFFICES ASSUME AccountShape, EraserShape, EraserInv, DeletionInv, [ErasureNext]_erasureVars
             PROVE DeletionInv'
  OBVIOUS
<1> USE DEF AccountShape, EraserShape, EraserInv, DeletionInv, NotErasing, accountRows,
        exportState, Steady, Fails
<1>1. ASSUME NEW k \in KYCRecords, SubmitKYC(k) PROVE DeletionInv'
  BY <1>1 DEF SubmitKYC
<1>2. ASSUME NEW k \in KYCRecords, NEW r \in {"verified", "rejected"}, ReviewKYC(k, r)
      PROVE DeletionInv'
  BY <1>2 DEF ReviewKYC
<1>3. ASSUME NEW q \in Requesters, FindRecent(q) PROVE DeletionInv'
  BY <1>3 DEF FindRecent
<1>4. ASSUME NEW q \in Requesters, NEW j \in Exports, CreateExport(q, j) PROVE DeletionInv'
  BY <1>4 DEF CreateExport
<1>5. ASSUME NEW j \in Exports, SetGenerating(j) PROVE DeletionInv'
  BY <1>5 DEF SetGenerating
<1>6. ASSUME NEW j \in Exports, Collect(j) PROVE DeletionInv'
  BY <1>6 DEF Collect
<1>7. ASSUME NEW j \in Exports, StoreArchive(j) PROVE DeletionInv'
  BY <1>7 DEF StoreArchive
<1>8. ASSUME NEW j \in Exports, SetReady(j) PROVE DeletionInv'
  BY <1>8 DEF SetReady
<1>9. ASSUME NEW j \in Exports, GeneratorStops(j) PROVE DeletionInv'
  BY <1>9 DEF GeneratorStops
<1>10. CASE ExpireOldJobs
  BY <1>10 DEF ExpireOldJobs
<1>11. ASSUME NEW d \in Deletions, RequestDeletion(d) PROVE DeletionInv'
  BY <1>11 DEF RequestDeletion
<1>12. ASSUME NEW d \in Deletions, CoolingEnds(d) PROVE DeletionInv'
  BY <1>12 DEF CoolingEnds
<1>13. ASSUME NEW d \in Deletions, NEW to \in {"approved", "rejected", "cancelled"}, Decide(d, to)
       PROVE DeletionInv'
  BY <1>13 DEF Decide, MayDecide
<1>14. ASSUME NEW e \in Erasers, NEW d \in Deletions, ExecuteRead(e, d) PROVE DeletionInv'
  BY <1>14 DEF ExecuteRead
<1>15. ASSUME NEW e \in Erasers, PurgeByUser(e) PROVE DeletionInv'
  BY <1>15 DEF PurgeByUser
<1>16. ASSUME NEW e \in Erasers, DeleteObject(e) PROVE DeletionInv'
  BY <1>16 DEF DeleteObject
<1>17. ASSUME NEW e \in Erasers, ExecuteDeletion(e) PROVE DeletionInv'
  BY <1>17 DEF ExecuteDeletion
<1>18. ASSUME NEW e \in Erasers, SetDeleted(e) PROVE DeletionInv'
  BY <1>18 DEF SetDeleted
<1>19. ASSUME NEW e \in Erasers, ExecuteStops(e) PROVE DeletionInv'
  BY <1>19 DEF ExecuteStops
<1>20. CASE UNCHANGED erasureVars
  BY <1>20 DEF erasureVars
<1> QED
  BY <1>1, <1>2, <1>3, <1>4, <1>5, <1>6, <1>7, <1>8, <1>9, <1>10, <1>11, <1>12, <1>13, <1>14,
     <1>15, <1>16, <1>17, <1>18, <1>19, <1>20 DEF ErasureNext

\* Every step keeps them so.
LEMMA NewJobsStep == ExportShape /\ NewJobsInv /\ [ErasureNext]_erasureVars => NewJobsInv'
<1> SUFFICES ASSUME ExportShape, NewJobsInv, [ErasureNext]_erasureVars PROVE NewJobsInv'
  OBVIOUS
<1> USE DEF ExportShape, NewJobsInv, SetExport, accountRows, exportState, Steady, Fails
<1>1. ASSUME NEW k \in KYCRecords, SubmitKYC(k) PROVE NewJobsInv'
  BY <1>1 DEF SubmitKYC
<1>2. ASSUME NEW k \in KYCRecords, NEW r \in {"verified", "rejected"}, ReviewKYC(k, r)
      PROVE NewJobsInv'
  BY <1>2 DEF ReviewKYC
<1>3. ASSUME NEW q \in Requesters, FindRecent(q) PROVE NewJobsInv'
  BY <1>3 DEF FindRecent
<1>4. ASSUME NEW q \in Requesters, NEW j \in Exports, CreateExport(q, j) PROVE NewJobsInv'
  BY <1>4 DEF CreateExport
<1>5. ASSUME NEW j \in Exports, SetGenerating(j) PROVE NewJobsInv'
  BY <1>5 DEF SetGenerating
<1>6. ASSUME NEW j \in Exports, Collect(j) PROVE NewJobsInv'
  BY <1>6 DEF Collect
<1>7. ASSUME NEW j \in Exports, StoreArchive(j) PROVE NewJobsInv'
  BY <1>7 DEF StoreArchive
<1>8. ASSUME NEW j \in Exports, SetReady(j) PROVE NewJobsInv'
  BY <1>8 DEF SetReady
<1>9. ASSUME NEW j \in Exports, GeneratorStops(j) PROVE NewJobsInv'
  BY <1>9 DEF GeneratorStops
<1>10. CASE ExpireOldJobs
  BY <1>10 DEF ExpireOldJobs
<1>11. ASSUME NEW d \in Deletions, RequestDeletion(d) PROVE NewJobsInv'
  BY <1>11 DEF RequestDeletion
<1>12. ASSUME NEW d \in Deletions, CoolingEnds(d) PROVE NewJobsInv'
  BY <1>12 DEF CoolingEnds
<1>13. ASSUME NEW d \in Deletions, NEW to \in {"approved", "rejected", "cancelled"}, Decide(d, to)
       PROVE NewJobsInv'
  BY <1>13 DEF Decide
<1>14. ASSUME NEW e \in Erasers, NEW d \in Deletions, ExecuteRead(e, d) PROVE NewJobsInv'
  BY <1>14 DEF ExecuteRead
<1>15. ASSUME NEW e \in Erasers, PurgeByUser(e) PROVE NewJobsInv'
  BY <1>15 DEF PurgeByUser
<1>16. ASSUME NEW e \in Erasers, DeleteObject(e) PROVE NewJobsInv'
  BY <1>16 DEF DeleteObject
<1>17. ASSUME NEW e \in Erasers, ExecuteDeletion(e) PROVE NewJobsInv'
  BY <1>17 DEF ExecuteDeletion
<1>18. ASSUME NEW e \in Erasers, SetDeleted(e) PROVE NewJobsInv'
  BY <1>18 DEF SetDeleted
<1>19. ASSUME NEW e \in Erasers, ExecuteStops(e) PROVE NewJobsInv'
  BY <1>19 DEF ExecuteStops
<1>20. CASE UNCHANGED erasureVars
  BY <1>20 DEF erasureVars
<1> QED
  BY <1>1, <1>2, <1>3, <1>4, <1>5, <1>6, <1>7, <1>8, <1>9, <1>10, <1>11, <1>12, <1>13, <1>14,
     <1>15, <1>16, <1>17, <1>18, <1>19, <1>20 DEF ErasureNext

\* Every step keeps the archives within reach.
LEMMA ArchivesStep ==
  ExportShape /\ EraserShape /\ EraserInv /\ NewJobsInv /\ ArchivesFindable /\
  [ErasureNext]_erasureVars => ArchivesFindable'
<1> SUFFICES ASSUME ExportShape, EraserShape, EraserInv, NewJobsInv, ArchivesFindable,
                    [ErasureNext]_erasureVars
             PROVE ArchivesFindable'
  OBVIOUS
<1> USE DEF ExportShape, EraserShape, EraserInv, NewJobsInv, ArchivesFindable, NotErasing,
        accountRows, exportState, Steady, Fails
<1>1. ASSUME NEW k \in KYCRecords, SubmitKYC(k) PROVE ArchivesFindable'
  BY <1>1 DEF SubmitKYC
<1>2. ASSUME NEW k \in KYCRecords, NEW r \in {"verified", "rejected"}, ReviewKYC(k, r)
      PROVE ArchivesFindable'
  BY <1>2 DEF ReviewKYC
<1>3. ASSUME NEW q \in Requesters, FindRecent(q) PROVE ArchivesFindable'
  BY <1>3 DEF FindRecent
<1>4. ASSUME NEW q \in Requesters, NEW j \in Exports, CreateExport(q, j) PROVE ArchivesFindable'
  BY <1>4 DEF CreateExport
<1>5. ASSUME NEW j \in Exports, SetGenerating(j) PROVE ArchivesFindable'
  BY <1>5 DEF SetGenerating
<1>6. ASSUME NEW j \in Exports, Collect(j) PROVE ArchivesFindable'
  BY <1>6 DEF Collect
<1>7. ASSUME NEW j \in Exports, StoreArchive(j) PROVE ArchivesFindable'
  BY <1>7 DEF StoreArchive
<1>8. ASSUME NEW j \in Exports, SetReady(j) PROVE ArchivesFindable'
  BY <1>8 DEF SetReady
<1>9. ASSUME NEW j \in Exports, GeneratorStops(j) PROVE ArchivesFindable'
  BY <1>9 DEF GeneratorStops
<1>10. CASE ExpireOldJobs
  BY <1>10 DEF ExpireOldJobs
<1>11. ASSUME NEW d \in Deletions, RequestDeletion(d) PROVE ArchivesFindable'
  BY <1>11 DEF RequestDeletion
<1>12. ASSUME NEW d \in Deletions, CoolingEnds(d) PROVE ArchivesFindable'
  BY <1>12 DEF CoolingEnds
<1>13. ASSUME NEW d \in Deletions, NEW to \in {"approved", "rejected", "cancelled"}, Decide(d, to)
       PROVE ArchivesFindable'
  BY <1>13 DEF Decide
<1>14. ASSUME NEW e \in Erasers, NEW d \in Deletions, ExecuteRead(e, d) PROVE ArchivesFindable'
  BY <1>14 DEF ExecuteRead
<1>15. ASSUME NEW e \in Erasers, PurgeByUser(e) PROVE ArchivesFindable'
  BY <1>15 DEF PurgeByUser
<1>16. ASSUME NEW e \in Erasers, DeleteObject(e) PROVE ArchivesFindable'
  <2>1. /\ UNCHANGED <<keyed, generator>> /\ strays \subseteq strays'
        /\ \A f \in Erasers \ {e} : erasing'[f] = erasing[f]
    BY <1>16 DEF DeleteObject
  <2>2. CASE erasing[e].keys = {}
    <3>1. archive' = archive
      BY <1>16, <2>2 DEF DeleteObject
    <3> QED
      BY <2>1, <2>2, <3>1
  <2>3. ASSUME NEW j \in erasing[e].keys, archive' = [archive EXCEPT ![j] = "none"],
               erasing' = [erasing EXCEPT ![e].keys = @ \ {j}], UNCHANGED strays
        PROVE  ArchivesFindable'
    <3>1. erasing'[e].keys = erasing[e].keys \ {j} /\ archive'[j] = "none"
      BY <2>3
    <3>2. \A i \in Exports \ {j} : archive'[i] = archive[i]
      BY <2>3
    <3> QED
      BY <2>1, <2>3, <3>1, <3>2
  <2>4. CASE strays' = strays \cup erasing[e].keys /\ UNCHANGED archive
    BY <2>1, <2>4
  <2> QED
    BY <1>16, <2>2, <2>3, <2>4 DEF DeleteObject
<1>17. ASSUME NEW e \in Erasers, ExecuteDeletion(e) PROVE ArchivesFindable'
  BY <1>17 DEF ExecuteDeletion
<1>18. ASSUME NEW e \in Erasers, SetDeleted(e) PROVE ArchivesFindable'
  BY <1>18 DEF SetDeleted
<1>19. ASSUME NEW e \in Erasers, ExecuteStops(e) PROVE ArchivesFindable'
  BY <1>19 DEF ExecuteStops
<1>20. CASE UNCHANGED erasureVars
  BY <1>20 DEF erasureVars
<1> QED
  BY <1>1, <1>2, <1>3, <1>4, <1>5, <1>6, <1>7, <1>8, <1>9, <1>10, <1>11, <1>12, <1>13, <1>14,
     <1>15, <1>16, <1>17, <1>18, <1>19, <1>20 DEF ErasureNext

\* Every step keeps the identity backed.
LEMMA IdentityStep ==
  AccountShape /\ IdentityBacked /\ [ErasureNext]_erasureVars => IdentityBacked'
<1> SUFFICES ASSUME AccountShape, IdentityBacked, [ErasureNext]_erasureVars PROVE IdentityBacked'
  OBVIOUS
<1> USE DEF AccountShape, IdentityBacked, accountRows, exportState, Steady, Fails
<1>1. ASSUME NEW k \in KYCRecords, SubmitKYC(k) PROVE IdentityBacked'
  BY <1>1 DEF SubmitKYC
<1>2. ASSUME NEW k \in KYCRecords, NEW r \in {"verified", "rejected"}, ReviewKYC(k, r)
      PROVE IdentityBacked'
  BY <1>2 DEF ReviewKYC
<1>3. ASSUME NEW q \in Requesters, FindRecent(q) PROVE IdentityBacked'
  BY <1>3 DEF FindRecent
<1>4. ASSUME NEW q \in Requesters, NEW j \in Exports, CreateExport(q, j) PROVE IdentityBacked'
  BY <1>4 DEF CreateExport
<1>5. ASSUME NEW j \in Exports, SetGenerating(j) PROVE IdentityBacked'
  BY <1>5 DEF SetGenerating
<1>6. ASSUME NEW j \in Exports, Collect(j) PROVE IdentityBacked'
  BY <1>6 DEF Collect
<1>7. ASSUME NEW j \in Exports, StoreArchive(j) PROVE IdentityBacked'
  BY <1>7 DEF StoreArchive
<1>8. ASSUME NEW j \in Exports, SetReady(j) PROVE IdentityBacked'
  BY <1>8 DEF SetReady
<1>9. ASSUME NEW j \in Exports, GeneratorStops(j) PROVE IdentityBacked'
  BY <1>9 DEF GeneratorStops
<1>10. CASE ExpireOldJobs
  BY <1>10 DEF ExpireOldJobs
<1>11. ASSUME NEW d \in Deletions, RequestDeletion(d) PROVE IdentityBacked'
  BY <1>11 DEF RequestDeletion
<1>12. ASSUME NEW d \in Deletions, CoolingEnds(d) PROVE IdentityBacked'
  BY <1>12 DEF CoolingEnds
<1>13. ASSUME NEW d \in Deletions, NEW to \in {"approved", "rejected", "cancelled"}, Decide(d, to)
       PROVE IdentityBacked'
  BY <1>13 DEF Decide
<1>14. ASSUME NEW e \in Erasers, NEW d \in Deletions, ExecuteRead(e, d) PROVE IdentityBacked'
  BY <1>14 DEF ExecuteRead
<1>15. ASSUME NEW e \in Erasers, PurgeByUser(e) PROVE IdentityBacked'
  BY <1>15 DEF PurgeByUser
<1>16. ASSUME NEW e \in Erasers, DeleteObject(e) PROVE IdentityBacked'
  BY <1>16 DEF DeleteObject
<1>17. ASSUME NEW e \in Erasers, ExecuteDeletion(e) PROVE IdentityBacked'
  BY <1>17 DEF ExecuteDeletion
<1>18. ASSUME NEW e \in Erasers, SetDeleted(e) PROVE IdentityBacked'
  BY <1>18 DEF SetDeleted
<1>19. ASSUME NEW e \in Erasers, ExecuteStops(e) PROVE IdentityBacked'
  BY <1>19 DEF ExecuteStops
<1>20. CASE UNCHANGED erasureVars
  BY <1>20 DEF erasureVars
<1> QED
  BY <1>1, <1>2, <1>3, <1>4, <1>5, <1>6, <1>7, <1>8, <1>9, <1>10, <1>11, <1>12, <1>13, <1>14,
     <1>15, <1>16, <1>17, <1>18, <1>19, <1>20 DEF ErasureNext

LEMMA ErasureStart == ErasureInit => ErasureIInv
<1> SUFFICES ASSUME ErasureInit PROVE ErasureIInv
  OBVIOUS
<1> USE ErasureConstants DEF ErasureInit, NotErasing, Contents
<1>1. AccountShape /\ DeletionInv /\ IdentityBacked
  <2>1. 0 \in 0 .. MaxErasureFaults
    OBVIOUS
  <2>2. deletion \in [Deletions -> {"none", "cooling", "approved", "rejected", "cancelled", "deleted"}]
    OBVIOUS
  <2>3. kyc \in [KYCRecords -> {"none", "pending", "verified", "rejected"}]
    OBVIOUS
  <2>4. AccountShape
    BY <2>1, <2>2, <2>3 DEF AccountShape
  <2>5. \A d \in Deletions : deletion[d] = "none"
    OBVIOUS
  <2> QED
    BY <2>4, <2>5 DEF DeletionInv, IdentityBacked
<1>2. ExportShape /\ NewJobsInv /\ ArchivesFindable
  BY DEF ExportShape, NewJobsInv, ArchivesFindable
<1>3. EraserShape /\ EraserInv
  BY DEF EraserShape, EraserInv
<1> QED
  BY <1>1, <1>2, <1>3 DEF ErasureIInv

LEMMA ErasureStep == ErasureIInv /\ [ErasureNext]_erasureVars => ErasureIInv'
BY AccountShapeStep, ExportShapeStep, EraserShapeStep, EraserStep, DeletionStep, NewJobsStep,
   ArchivesStep, IdentityStep DEF ErasureIInv

\* However exports race an erasure and wherever either stops, a stored archive has a key or a
\* call that still knows it; only a request that cooled and was approved scrubs the account, one
\* at a time; and a verified account has a verified record (compliance/export_service.go,
\* compliance/deletion_service.go, auth/repo.go).
THEOREM ErasureCorrect == ErasureSpec => []ErasureInv
<1>1. ErasureIInv => ErasureInv
  <2> SUFFICES ASSUME ErasureIInv PROVE ErasureInv
    OBVIOUS
  <2> USE DEF ErasureIInv
  <2>1. Cardinality({d \in Deletions : deletion[d] \in {"cooling", "approved"}}) <= 1
    <3> DEFINE A == {d \in Deletions : deletion[d] \in {"cooling", "approved"}}
    <3>1. A = {} \/ \E d \in A : A = {d}
      BY DEF DeletionInv
    <3> HIDE DEF A
    <3>2. Cardinality(A) <= 1
      BY <3>1, FS_EmptySet, FS_Singleton
    <3> QED
      BY <3>2 DEF A
  <2>2. ErasureDecided
    BY <2>1 DEF ErasureDecided, DeletionInv
  <2>3. ErasureTypeOK
    BY DEF ErasureTypeOK, AccountShape, ExportShape, EraserShape
  <2> QED
    BY <2>2, <2>3 DEF ErasureInv
<1> QED
  BY <1>1, ErasureStart, ErasureStep, PTL DEF ErasureSpec

-----------------------------------------------------------------------------
\* A scan that is storing an anomaly, and one that is about to alert.
Storing  == [stage: {"detected", "counted"}, count: Threshold .. MaxActions, new: {"no", "yes"}]
Alerting == [stage: {"alerting"}, row: RowIds]

\* The types; the alerts of a row are counted below.
AnomalyShape ==
    /\ recent \in 0 .. MaxActions /\ scanRace \subseteq RowIds
    /\ rows \in [RowIds -> {NoAnomaly} \cup
                 [status: {"open", "acknowledged", "resolved"}, count: Threshold .. MaxActions]]
    /\ scanner \in [Scanners -> {NoScan} \cup Storing \cup Alerting]
    /\ alerts \in [RowIds -> Nat]

OneOpen == \A i, j \in Open : i = j

\* The scans that will alert for a row, those that will if it is the one they store, and both.
AlertersOf(i) == {s \in Scanners : scanner[s].stage = "alerting" /\ scanner[s].row = i}
Hopeful       == {s \in Scanners : scanner[s].stage = "counted" /\ scanner[s].new = "yes"}
Due(i)        == IF i \in Open THEN AlertersOf(i) \cup Hopeful ELSE AlertersOf(i)

\* A row was alerted by other scans than those that may still alert for it; a row that does
\* not exist by none.
AlertsInv == \A i \in RowIds :
    /\ i \in Fresh => alerts[i] = 0 /\ AlertersOf(i) = {}
    /\ alerts[i] + Cardinality(Due(i)) <= Cardinality(Scanners)

\* A row no other scan was storing is alerted by the one that inserted it, if at all.
RaceInv == \A i \in RowIds \ scanRace :
    /\ i \in Open => Hopeful = {}
    /\ \A s, t \in AlertersOf(i) : s = t
    /\ AlertersOf(i) # {} => alerts[i] = 0
    /\ alerts[i] <= 1

AnomalyIInv == AnomalyShape /\ OneOpen /\ AlertsInv /\ RaceInv

\* The scan of one process goes on, the others stay.
LEMMA Scanner ==
  ASSUME AnomalyShape, NEW s \in Scanners
  PROVE  /\ scanner[s].stage \in {"detected", "counted"} => scanner[s] \in Storing
         /\ scanner[s].stage = "alerting" => scanner[s] \in Alerting
         /\ NoScan.stage = "idle"
<1>1. scanner[s] \in {NoScan} \cup Storing \cup Alerting /\ NoScan.stage = "idle"
  BY DEF AnomalyShape, NoScan
<1>2. scanner[s].stage \in {"detected", "counted"} => scanner[s] \in Storing
  BY <1>1 DEF Alerting
<1>3. scanner[s].stage = "alerting" => scanner[s] \in Alerting
  BY <1>1 DEF Storing
<1> QED
  BY <1>1, <1>2, <1>3

LEMMA Row ==
  ASSUME AnomalyShape, NEW i \in RowIds
  PROVE  /\ NoAnomaly.status = "none"
         /\ rows[i].status \in {"none", "open", "acknowledged", "resolved"}
         /\ rows[i].status = "none" <=> rows[i] = NoAnomaly
         /\ rows[i] # NoAnomaly => rows[i].count \in Threshold .. MaxActions
BY DEF AnomalyShape, NoAnomaly

\* The scans that are storing an anomaly or alerting beside one.
Others(s) == {t \in Scanners \ {s} : scanner[t].stage \in {"counted", "alerting"}}

LEMMA Upserted ==
  ASSUME AnomalyShape, NEW s \in Scanners, Upsert(s)
  PROVE  \E r \in RowIds :
           /\ r \in Open \cup Fresh /\ UpsertRow(s, r)
           /\ Others(s) # {} => scanRace' = scanRace \cup {r}
           /\ Others(s) = {} => scanRace' = scanRace
           /\ scanner[s].new = "yes" => scanner'[s] = [stage |-> "alerting", row |-> r]
           /\ scanner[s].new # "yes" => scanner'[s] = NoScan
           /\ \A t \in Scanners \ {s} : scanner'[t] = scanner[t]
<1>1. PICK r \in Open \cup Fresh :
        /\ UpsertRow(s, r)
        /\ (\E t \in Scanners \ {s} : scanner[t].stage \in {"counted", "alerting"})
             => scanRace' = scanRace \cup {r}
        /\ ~(\E t \in Scanners \ {s} : scanner[t].stage \in {"counted", "alerting"})
             => scanRace' = scanRace
        /\ scanner[s].new = "yes" =>
             scanner' = [scanner EXCEPT ![s] = [stage |-> "alerting", row |-> r]]
        /\ scanner[s].new # "yes" => scanner' = [scanner EXCEPT ![s] = NoScan]
  BY DEF Upsert
<1>2. r \in RowIds
  BY DEF Open, Fresh
<1>3. Others(s) # {} <=> \E t \in Scanners \ {s} : scanner[t].stage \in {"counted", "alerting"}
  BY DEF Others
<1>4. /\ scanner[s].new = "yes" => scanner'[s] = [stage |-> "alerting", row |-> r]
      /\ scanner[s].new # "yes" => scanner'[s] = NoScan
      /\ \A t \in Scanners \ {s} : scanner'[t] = scanner[t]
  BY <1>1 DEF AnomalyShape
<1> QED
  BY <1>1, <1>2, <1>3, <1>4

\* Every step keeps the types.
LEMMA AnomalyShapeStep == AnomalyShape /\ [AnomaliesNext]_anomalyVars => AnomalyShape'
<1> SUFFICES ASSUME AnomalyShape, [AnomaliesNext]_anomalyVars PROVE AnomalyShape'
  OBVIOUS
<1> USE AnomalyConstants DEF AnomalyShape, Storing, Alerting
<1>1. CASE Act
  BY <1>1 DEF Act
<1>2. CASE HourPasses
  BY <1>2 DEF HourPasses
<1>3. ASSUME NEW s \in Scanners, Detect(s) PROVE AnomalyShape'
  BY <1>3 DEF Detect, Detected
<1>4. ASSUME NEW s \in Scanners, CountOpen(s) PROVE AnomalyShape'
  <2>1. scanner[s] \in Storing
    BY <1>4, Scanner DEF CountOpen
  <2>2. PICK y \in {"no", "yes"} :
          scanner' = [scanner EXCEPT ![s].stage = "counted", ![s].new = y]
    BY <1>4 DEF CountOpen
  <2>3. [scanner[s] EXCEPT !.stage = "counted", !.new = y] \in Storing
    BY <2>1
  <2>4. scanner' = [scanner EXCEPT ![s] = [scanner[s] EXCEPT !.stage = "counted", !.new = y]]
    BY <2>2
  <2> HIDE DEF Storing, Alerting
  <2>5. scanner' \in [Scanners -> {NoScan} \cup Storing \cup Alerting]
    BY <2>3, <2>4
  <2> QED
    BY <1>4, <2>5 DEF CountOpen
<1>5. ASSUME NEW s \in Scanners, Upsert(s) PROVE AnomalyShape'
  <2>1. scanner[s] \in Storing
    BY <1>5, Scanner DEF Upsert
  <2>2. PICK r \in Open \cup Fresh : /\ UpsertRow(s, r)
          /\ scanRace' \in {scanRace, scanRace \cup {r}}
          /\ scanner' = [scanner EXCEPT ![s] = IF scanner[s].new = "yes"
                                               THEN [stage |-> "alerting", row |-> r] ELSE NoScan]
    BY <1>5 DEF Upsert
  <2>3. r \in RowIds
    BY DEF Open, Fresh
  <2>4. [stage |-> "alerting", row |-> r] \in Alerting
    BY <2>3
  <2>5. scanner[s].count \in Threshold .. MaxActions
    BY <2>1
  <2>6. rows' \in [RowIds -> {NoAnomaly} \cup
                   [status: {"open", "acknowledged", "resolved"}, count: Threshold .. MaxActions]]
    BY <2>2, <2>3, <2>5 DEF UpsertRow
  <2> HIDE DEF Storing, Alerting
  <2>7. scanner' \in [Scanners -> {NoScan} \cup Storing \cup Alerting]
    BY <2>2, <2>4
  <2> QED
    BY <1>5, <2>2, <2>3, <2>6, <2>7 DEF Upsert
<1>6. ASSUME NEW s \in Scanners, Alert(s) PROVE AnomalyShape'
  BY <1>6 DEF Alert
<1>7. ASSUME NEW s \in Scanners, ScanFails(s) PROVE AnomalyShape'
  BY <1>7 DEF ScanFails
<1>8. ASSUME NEW i \in RowIds, NEW to \in {"acknowledged", "resolved"}, SetStatus(i, to)
      PROVE AnomalyShape'
  BY <1>8 DEF SetStatus
<1>9. CASE UNCHANGED anomalyVars
  BY <1>9 DEF anomalyVars
<1> QED
  BY <1>1, <1>2, <1>3, <1>4, <1>5, <1>6, <1>7, <1>8, <1>9 DEF AnomaliesNext

\* Every step keeps one row open.
LEMMA OneOpenStep == AnomalyShape /\ OneOpen /\ [AnomaliesNext]_anomalyVars => OneOpen'
<1> SUFFICES ASSUME AnomalyShape, OneOpen, [AnomaliesNext]_anomalyVars PROVE OneOpen'
  OBVIOUS
<1> USE Row DEF OneOpen, Open, Fresh
<1>1. CASE Act
  BY <1>1 DEF Act
<1>2. CASE HourPasses
  BY <1>2 DEF HourPasses
<1>3. ASSUME NEW s \in Scanners, Detect(s) PROVE OneOpen'
  BY <1>3 DEF Detect
<1>4. ASSUME NEW s \in Scanners, CountOpen(s) PROVE OneOpen'
  BY <1>4 DEF CountOpen
<1>5. ASSUME NEW s \in Scanners, Upsert(s) PROVE OneOpen'
  BY <1>5 DEF Upsert, UpsertRow
<1>6. ASSUME NEW s \in Scanners, Alert(s) PROVE OneOpen'
  BY <1>6 DEF Alert
<1>7. ASSUME NEW s \in Scanners, ScanFails(s) PROVE OneOpen'
  BY <1>7 DEF ScanFails
<1>8. ASSUME NEW i \in RowIds, NEW to \in {"acknowledged", "resolved"}, SetStatus(i, to)
      PROVE OneOpen'
  BY <1>8 DEF SetStatus
<1>9. CASE UNCHANGED anomalyVars
  BY <1>9 DEF anomalyVars
<1> QED
  BY <1>1, <1>2, <1>3, <1>4, <1>5, <1>6, <1>7, <1>8, <1>9 DEF AnomaliesNext


\* A step that sends no alert and makes none due keeps both.
LEMMA NoneDue ==
  ASSUME AnomalyShape, AlertsInv, RaceInv, UNCHANGED <<alerts, scanRace>>,
         \A i \in RowIds : /\ AlertersOf(i)' \subseteq AlertersOf(i) /\ Due(i)' \subseteq Due(i)
                           /\ i \in Fresh' => i \in Fresh
                           /\ i \in Open' => i \in Open /\ Hopeful' \subseteq Hopeful
  PROVE  AlertsInv' /\ RaceInv'
<1>1. ASSUME NEW i \in RowIds
      PROVE  alerts'[i] + Cardinality(Due(i)') <= Cardinality(Scanners)
  <2>1. Due(i) \subseteq Scanners
    BY DEF Due, AlertersOf, Hopeful
  <2>2. /\ Cardinality(Due(i)') <= Cardinality(Due(i)) /\ Cardinality(Due(i)') \in Nat
        /\ Cardinality(Due(i)) \in Nat /\ Cardinality(Scanners) \in Nat
    BY <1>1, <2>1, AnomalyConstants, FS_Subset, FS_CardinalityType
  <2>3. alerts[i] + Cardinality(Due(i)) <= Cardinality(Scanners) /\ alerts[i] \in Nat
    BY <1>1 DEF AlertsInv, AnomalyShape
  <2> QED
    BY <2>2, <2>3
<1>2. ASSUME NEW i \in RowIds, i \in Fresh' PROVE alerts'[i] = 0 /\ AlertersOf(i)' = {}
  BY <1>2 DEF AlertsInv
<1> QED
  BY <1>1, <1>2 DEF AlertsInv, RaceInv

\* Every step keeps the alerts and the races so.
LEMMA AlertsStep ==
  AnomalyShape /\ OneOpen /\ AlertsInv /\ RaceInv /\ [AnomaliesNext]_anomalyVars => AlertsInv' /\ RaceInv'
<1> SUFFICES ASSUME AnomalyShape, OneOpen, AlertsInv, RaceInv, [AnomaliesNext]_anomalyVars
             PROVE AlertsInv' /\ RaceInv'
  OBVIOUS
<1>1. CASE Act
  BY <1>1, NoneDue DEF Act, AlertersOf, Hopeful, Due, Open, Fresh
<1>2. CASE HourPasses
  BY <1>2, NoneDue DEF HourPasses, AlertersOf, Hopeful, Due, Open, Fresh
<1>3. ASSUME NEW s \in Scanners, Detect(s) PROVE AlertsInv' /\ RaceInv'
  <2>1. scanner[s].stage = "idle" /\ scanner'[s].stage = "detected"
    BY <1>3, Scanner DEF Detect, AnomalyShape
  <2>2. \A t \in Scanners \ {s} : scanner'[t] = scanner[t]
    BY <1>3 DEF Detect, AnomalyShape
  <2>3. Hopeful' = Hopeful /\ \A i \in RowIds : AlertersOf(i)' = AlertersOf(i)
    BY <2>1, <2>2 DEF Hopeful, AlertersOf
  <2>4. Open' = Open /\ Fresh' = Fresh /\ UNCHANGED <<alerts, scanRace>>
    BY <1>3 DEF Detect, Open, Fresh
  <2>5. \A i \in RowIds : Due(i)' = Due(i)
    BY <2>3, <2>4 DEF Due
  <2> QED
    BY <2>3, <2>4, <2>5, NoneDue
<1>4. ASSUME NEW s \in Scanners, CountOpen(s) PROVE AlertsInv' /\ RaceInv'
  <2>1. scanner[s] \in Storing /\ scanner[s].stage = "detected"
    BY <1>4, Scanner DEF CountOpen
  <2>2. /\ scanner'[s].stage = "counted" /\ scanner'[s].new = IF Open = {} THEN "yes" ELSE "no"
        /\ \A t \in Scanners \ {s} : scanner'[t] = scanner[t]
    BY <1>4, <2>1 DEF CountOpen, AnomalyShape, Storing
  <2>3. \A i \in RowIds : AlertersOf(i)' = AlertersOf(i)
    BY <2>1, <2>2 DEF AlertersOf
  <2>4. Open # {} => Hopeful' = Hopeful
    BY <2>1, <2>2 DEF Hopeful
  <2>5. Open' = Open /\ Fresh' = Fresh /\ UNCHANGED <<alerts, scanRace>>
    BY <1>4 DEF CountOpen, Open, Fresh
  <2>6. \A i \in RowIds : Due(i)' = Due(i)
    BY <2>3, <2>4, <2>5 DEF Due
  <2> QED
    BY <2>3, <2>4, <2>5, <2>6, NoneDue
<1>5. ASSUME NEW s \in Scanners, Upsert(s) PROVE AlertsInv' /\ RaceInv'
  <2>0. scanner[s] \in Storing /\ scanner[s].stage = "counted"
    BY <1>5, Scanner DEF Upsert
  <2>1. PICK r \in RowIds :
           /\ r \in Open \cup Fresh /\ UpsertRow(s, r)
           /\ Others(s) # {} => scanRace' = scanRace \cup {r}
           /\ Others(s) = {} => scanRace' = scanRace
           /\ scanner[s].new = "yes" => scanner'[s] = [stage |-> "alerting", row |-> r]
           /\ scanner[s].new # "yes" => scanner'[s] = NoScan
           /\ \A t \in Scanners \ {s} : scanner'[t] = scanner[t]
    BY <1>5, Upserted
  <2>2. rows'[r].status = "open" /\ \A i \in RowIds \ {r} : rows'[i] = rows[i]
    BY <2>1 DEF UpsertRow, AnomalyShape
  <2>3. Open' = {r} /\ Open \subseteq {r}
    BY <2>1, <2>2 DEF UpsertRow, Open, OneOpen, Fresh
  <2>4. r \notin Fresh' /\ \A i \in RowIds \ {r} : i \in Fresh' => i \in Fresh
    BY <2>2, Row DEF Fresh
  <2>5. UNCHANGED alerts /\ \A t \in Scanners \ {s} : scanner'[t] = scanner[t]
    BY <1>5, <2>1 DEF Upsert
  <2>6. Hopeful' = Hopeful \ {s}
    <3>1. scanner'[s].stage \in {"alerting", "idle"}
      BY <2>1, Scanner
    <3> QED
      BY <2>5, <3>1 DEF Hopeful
  <2>7. scanner[s].new = "yes" => /\ s \in Hopeful /\ AlertersOf(r)' = AlertersOf(r) \cup {s}
                                 /\ \A i \in RowIds \ {r} : AlertersOf(i)' = AlertersOf(i)
    <3>1. ASSUME scanner[s].new = "yes"
          PROVE  scanner'[s].stage = "alerting" /\ scanner'[s].row = r
      BY <2>1, <3>1
    <3> QED
      BY <2>0, <2>5, <3>1 DEF AlertersOf, Hopeful
  <2>8. scanner[s].new # "yes" => \A i \in RowIds : AlertersOf(i)' = AlertersOf(i)
    <3>1. ASSUME scanner[s].new # "yes" PROVE scanner'[s].stage = "idle"
      BY <2>1, <3>1, Scanner
    <3> QED
      BY <2>0, <2>5, <3>1 DEF AlertersOf
  <2>9. \A i \in RowIds : AlertersOf(i) \subseteq Scanners /\ AlertersOf(i)' \subseteq Scanners
    BY DEF AlertersOf
  <2>10. Hopeful \subseteq Scanners /\ Hopeful' \subseteq Scanners
    BY DEF Hopeful
  <2>11. \A i \in RowIds \ {r} : Due(i)' \subseteq Due(i) /\ AlertersOf(i)' = AlertersOf(i)
    BY <2>3, <2>7, <2>8 DEF Due
  <2>12. r \in Open => Due(r)' \subseteq Due(r)
    <3>1. AlertersOf(r)' \subseteq AlertersOf(r) \cup Hopeful
      BY <2>7, <2>8
    <3> QED
      BY <2>6, <3>1 DEF Due
  <2>13. r \notin Open => r \in Fresh
    BY <2>1
  <2>14. \A i \in RowIds : Due(i) \subseteq Scanners /\ Due(i)' \subseteq Scanners
    BY <2>9, <2>10 DEF Due
  <2>15. ASSUME NEW i \in RowIds
         PROVE  alerts'[i] + Cardinality(Due(i)') <= Cardinality(Scanners)
    <3>1. /\ Cardinality(Due(i)') \in Nat /\ Cardinality(Due(i)) \in Nat
          /\ Cardinality(Due(i)') <= Cardinality(Scanners) /\ Cardinality(Scanners) \in Nat
      BY <2>14, AnomalyConstants, FS_Subset, FS_CardinalityType
    <3>2. CASE i = r /\ r \notin Open
      BY <2>5, <2>13, <3>1, <3>2 DEF AlertsInv
    <3>3. CASE i # r \/ r \in Open
      <4>1. Due(i)' \subseteq Due(i)
        BY <2>11, <2>12, <3>3
      <4>2. Cardinality(Due(i)') <= Cardinality(Due(i))
        BY <2>14, <4>1, AnomalyConstants, FS_Subset
      <4> QED
        BY <2>5, <3>1, <4>2 DEF AlertsInv, AnomalyShape
    <3> QED
      BY <3>2, <3>3
  <2>16. \A i \in RowIds : i \in Fresh' => alerts'[i] = 0 /\ AlertersOf(i)' = {}
    BY <2>4, <2>5, <2>11 DEF AlertsInv
  <2>17. ASSUME NEW i \in RowIds \ scanRace', i # r
         PROVE  /\ i \notin Open' /\ AlertersOf(i)' = AlertersOf(i)
                /\ i \notin scanRace
    BY <2>1, <2>3, <2>11, <2>17
  <2>18. ASSUME r \notin scanRace'
         PROVE  /\ Hopeful' = {} /\ \A t, u \in AlertersOf(r)' : t = u
                /\ AlertersOf(r)' # {} => alerts'[r] = 0
                /\ alerts'[r] <= 1
    <3>1. /\ r \notin scanRace
          /\ \A t \in Scanners \ {s} : scanner[t].stage \notin {"counted", "alerting"}
      BY <2>1, <2>18 DEF Others
    <3>2. Hopeful' = {} /\ \A t \in AlertersOf(r)' : t = s
      BY <2>5, <2>6, <3>1 DEF Hopeful, AlertersOf
    <3>3. CASE r \in Fresh
      BY <2>5, <3>2, <3>3 DEF AlertsInv
    <3>4. CASE r \in Open
      <4>1. Hopeful = {}
        BY <3>1, <3>4 DEF RaceInv
      <4>2. AlertersOf(r)' = AlertersOf(r)
        <5>1. scanner[s].new # "yes"
          BY <2>7, <4>1
        <5> QED
          BY <2>8, <5>1
      <4> QED
        BY <2>5, <3>1, <3>2, <4>2 DEF RaceInv
    <3> QED
      BY <2>1, <3>2, <3>3, <3>4
  <2>19. RaceInv'
    BY <2>5, <2>17, <2>18 DEF RaceInv
  <2> QED
    BY <2>15, <2>16, <2>19 DEF AlertsInv
<1>6. ASSUME NEW s \in Scanners, Alert(s) PROVE AlertsInv' /\ RaceInv'
  <2>1. scanner[s] \in Alerting /\ scanner[s].stage = "alerting"
    BY <1>6, Scanner DEF Alert
  <2>2. PICK r \in RowIds : r = scanner[s].row
    BY <2>1 DEF Alerting
  <2>3. scanner'[s].stage = "idle" /\ \A t \in Scanners \ {s} : scanner'[t] = scanner[t]
    BY <1>6, Scanner DEF Alert, AnomalyShape
  <2>4. Hopeful' = Hopeful /\ s \notin Hopeful
    BY <2>1, <2>3 DEF Hopeful
  <2>5. /\ AlertersOf(r)' = AlertersOf(r) \ {s} /\ s \in AlertersOf(r)
        /\ \A i \in RowIds \ {r} : AlertersOf(i)' = AlertersOf(i)
    BY <2>1, <2>2, <2>3 DEF AlertersOf
  <2>6. Open' = Open /\ Fresh' = Fresh /\ UNCHANGED scanRace
    BY <1>6 DEF Alert, Open, Fresh
  <2>7. /\ alerts'[r] \in {alerts[r], alerts[r] + 1} /\ alerts[r] \in Nat
        /\ \A i \in RowIds \ {r} : alerts'[i] = alerts[i]
    BY <1>6, <2>2 DEF Alert, AnomalyShape
  <2>8. /\ Due(r)' = Due(r) \ {s} /\ s \in Due(r) /\ \A i \in RowIds \ {r} : Due(i)' = Due(i)
    BY <2>4, <2>5, <2>6 DEF Due
  <2>9. Cardinality(Due(r)') = Cardinality(Due(r)) - 1 /\ Cardinality(Due(r)) \in Nat
    <3>1. Due(r) \subseteq Scanners
      BY DEF Due, AlertersOf, Hopeful
    <3>2. IsFiniteSet(Due(r))
      BY <3>1, AnomalyConstants, FS_Subset
    <3> QED
      BY <2>8, <3>2, FS_RemoveElement, FS_CardinalityType
  <2>10. Cardinality(Scanners) \in Nat
    BY AnomalyConstants, FS_CardinalityType
  <2>11. ASSUME NEW i \in RowIds
         PROVE  /\ i \in Fresh' => alerts'[i] = 0 /\ AlertersOf(i)' = {}
                /\ alerts'[i] + Cardinality(Due(i)') <= Cardinality(Scanners)
    <3>1. CASE i = r
      <4>1. r \notin Fresh /\ alerts[r] + Cardinality(Due(r)) <= Cardinality(Scanners)
        BY <2>5 DEF AlertsInv
      <4>2. alerts'[r] + Cardinality(Due(r)') <= Cardinality(Scanners)
        BY <2>7, <2>9, <2>10, <4>1
      <4> QED
        BY <2>6, <3>1, <4>1, <4>2
    <3>2. CASE i # r
      BY <2>5, <2>6, <2>7, <2>8, <3>2 DEF AlertsInv
    <3> QED
      BY <3>1, <3>2
  <2>12. RaceInv'
    BY <2>4, <2>5, <2>6, <2>7 DEF RaceInv
  <2> QED
    BY <2>11, <2>12 DEF AlertsInv
<1>7. ASSUME NEW s \in Scanners, ScanFails(s) PROVE AlertsInv' /\ RaceInv'
  <2>1. scanner'[s].stage = "idle" /\ \A t \in Scanners \ {s} : scanner'[t] = scanner[t]
    BY <1>7, Scanner DEF ScanFails, AnomalyShape
  <2>2. Hopeful' \subseteq Hopeful /\ \A i \in RowIds : AlertersOf(i)' \subseteq AlertersOf(i)
    BY <2>1 DEF Hopeful, AlertersOf
  <2>3. Open' = Open /\ Fresh' = Fresh /\ UNCHANGED <<alerts, scanRace>>
    BY <1>7 DEF ScanFails, Open, Fresh
  <2>4. \A i \in RowIds : Due(i)' \subseteq Due(i)
    BY <2>2, <2>3 DEF Due
  <2> QED
    BY <2>2, <2>3, <2>4, NoneDue
<1>8. ASSUME NEW i \in RowIds, NEW to \in {"acknowledged", "resolved"}, SetStatus(i, to)
      PROVE AlertsInv' /\ RaceInv'
  <2>1. rows'[i].status = to /\ \A j \in RowIds \ {i} : rows'[j] = rows[j]
    BY <1>8 DEF SetStatus, AnomalyShape
  <2>2. Hopeful' = Hopeful /\ \A j \in RowIds : AlertersOf(j)' = AlertersOf(j)
    BY <1>8 DEF SetStatus, Hopeful, AlertersOf
  <2>3. i \notin Fresh' /\ i \notin Open'
    BY <2>1, Row DEF Fresh, Open
  <2>4. Open' \subseteq Open /\ Fresh' \subseteq Fresh /\ UNCHANGED <<alerts, scanRace>>
    BY <1>8, <2>1, <2>3 DEF SetStatus, Open, Fresh
  <2>5. \A j \in RowIds : Due(j)' \subseteq Due(j)
    BY <2>2, <2>4 DEF Due
  <2> QED
    BY <2>2, <2>4, <2>5, NoneDue
<1>9. CASE UNCHANGED anomalyVars
  BY <1>9, NoneDue DEF anomalyVars, AlertersOf, Hopeful, Due, Open, Fresh
<1> QED
  BY <1>1, <1>2, <1>3, <1>4, <1>5, <1>6, <1>7, <1>8, <1>9 DEF AnomaliesNext

LEMMA AnomalyStart == AnomaliesInit => AnomalyIInv
<1> SUFFICES ASSUME AnomaliesInit PROVE AnomalyIInv
  OBVIOUS
<1>1. /\ \A i \in RowIds : i \in Fresh /\ i \notin Open /\ AlertersOf(i) = {} /\ Due(i) = {}
      /\ Hopeful = {}
  BY DEF AnomaliesInit, Fresh, Open, AlertersOf, Hopeful, Due, NoScan, NoAnomaly
<1>2. Cardinality({}) = 0 /\ Cardinality(Scanners) \in Nat
  BY AnomalyConstants, FS_EmptySet, FS_CardinalityType
<1>3. AnomalyShape
  BY AnomalyConstants DEF AnomaliesInit, AnomalyShape
<1>4. \A i \in RowIds : alerts[i] = 0
  BY DEF AnomaliesInit
<1>5. AlertsInv /\ RaceInv
  BY <1>1, <1>2, <1>4 DEF AlertsInv, RaceInv
<1>6. OneOpen
  BY <1>1 DEF OneOpen, Open
<1> QED
  BY <1>3, <1>5, <1>6 DEF AnomalyIInv

LEMMA AnomalyStep == AnomalyIInv /\ [AnomaliesNext]_anomalyVars => AnomalyIInv'
BY AnomalyShapeStep, OneOpenStep, AlertsStep DEF AnomalyIInv

\* However many processes scan, an actor's action has one open anomaly, whose count reached the
\* threshold; each is alerted at most once a process, and at most once altogether unless two
\* processes stored it together (anomaly/repo.go, anomaly/alerter.go).
THEOREM AnomaliesCorrect == AnomaliesSpec => []AnomaliesInv
<1>1. AnomalyIInv => AnomaliesInv
  <2> SUFFICES ASSUME AnomalyIInv PROVE AnomaliesInv
    OBVIOUS
  <2> USE DEF AnomalyIInv
  <2>1. Open = {} \/ \E i \in Open : Open = {i}
    BY DEF OneOpen
  <2>2. Cardinality(Open) <= 1
    <3>1. Cardinality(Open) = 0 \/ Cardinality(Open) = 1
      BY <2>1, FS_EmptySet, FS_Singleton
    <3> QED
      BY <3>1
  <2>3. OneOpenAnomaly
    BY <2>2, Row, AnomalyConstants DEF OneOpenAnomaly
  <2>4. OneAlert
    BY DEF OneAlert, RaceInv
  <2>5. alerts \in [RowIds -> 0 .. Cardinality(Scanners)]
    <3>1. ASSUME NEW i \in RowIds PROVE alerts[i] \in 0 .. Cardinality(Scanners)
      <4>1. Due(i) \subseteq Scanners
        BY DEF Due, AlertersOf, Hopeful
      <4>2. Cardinality(Due(i)) \in Nat /\ Cardinality(Scanners) \in Nat
        BY <4>1, AnomalyConstants, FS_Subset, FS_CardinalityType
      <4> QED
        BY <3>1, <4>2 DEF AlertsInv, AnomalyShape
    <3> QED
      BY <3>1 DEF AnomalyShape
  <2>6. AnomaliesTypeOK
    <3>1. Threshold .. MaxActions \subseteq 1 .. MaxActions
      BY AnomalyConstants
    <3>2. rows \in [RowIds -> {NoAnomaly} \cup
                    [status: {"open", "acknowledged", "resolved"}, count: 1 .. MaxActions]]
      BY <3>1 DEF AnomalyShape
    <3>3. scanner \in [Scanners -> {NoScan} \cup
             [stage: {"detected", "counted"}, count: 1 .. MaxActions, new: {"no", "yes"}]
             \cup [stage: {"alerting"}, row: RowIds]]
      BY <3>1 DEF AnomalyShape, Storing, Alerting
    <3> QED
      BY <2>5, <3>2, <3>3 DEF AnomaliesTypeOK, AnomalyShape
  <2> QED
    BY <2>3, <2>4, <2>6 DEF AnomaliesInv
<1> QED
  BY <1>1, AnomalyStart, AnomalyStep, PTL DEF AnomaliesSpec

-----------------------------------------------------------------------------
(***************************************************************************)
(* Metering: API keys.  A key serves one plan's scans in one spell of a    *)
(* month, and a month is entered again only after a scan dated before the  *)
(* row's month.                                                            *)
(***************************************************************************)
\* What the row's month has served since the row came to month m.
Spell(k, m) == IF key[k].month > m THEN MostScans ELSE IF key[k].month = m THEN key[k].count ELSE 0

SpellsInv == \A k \in Keys :
    /\ key[k] = NoKey => turned[k] = 0 /\ \A m \in Calendar : served[k][m] = 0
    /\ key[k] # NoKey =>
          /\ key[k].count <= MostScans
          /\ \A m \in Calendar : served[k][m] <= MostScans * turned[k] + Spell(k, m)
          /\ turned[k] = 0 => \A m \in Calendar :
                /\ m > key[k].month => served[k][m] = 0
                /\ m = key[k].month => served[k][m] = key[k].count

KeysIInv == KeysTypeOK /\ SpellsInv /\ PlanFollows

-----------------------------------------------------------------------------
(***************************************************************************)
(* Metering: the rate limiter.  A span of a window's length meets two      *)
(* windows at most: the open one, from its start, and one before it.       *)
(***************************************************************************)
Ticks == 1 .. LastTick
Span(a, b) == {u \in Ticks : a <= u /\ u <= b}
CallsIn(f, a, b) == Cardinality(CentsOf(f, Span(a, b)))

LimiterShape ==
    /\ tick \in Ticks /\ window \in [count : Nat, resetAt : Nat]
    /\ allowed \in [Ticks -> Nat]
    /\ \A u \in Ticks : u > tick => allowed[u] = 0

\* The open window has let no more calls through than it counts, and neither it nor the
\* span before it more than the limit; once it is over, a span up to now has met no other.
OpenInv(s) ==
    /\ 1 <= s /\ s <= tick
    /\ CallsIn(allowed, s, tick) <= WindowLimit /\ CallsIn(allowed, s, tick) <= window.count
    /\ CallsIn(allowed, s - WindowTicks, s - 1) <= WindowLimit

WindowInv ==
    /\ Ended(tick) => allowed[tick] = 0 /\ CallsIn(allowed, tick - WindowTicks, tick) <= WindowLimit
    /\ ~Ended(tick) => OpenInv(window.resetAt - WindowTicks)

LimiterIInv == LimiterShape /\ WindowInv /\ RateHeld

\* A scan dated m let through with key k: the row's month is m, and its count goes on or
\* starts again.
LetThrough(k, m) ==
    /\ key[k].state = "active"
    /\ key[k] \in [state: {"active", "revoked"}, plan: Plans, month: 0 .. LastMonth, count: Nat]
    /\ key[k].month = m => key[k].count < MonthlyQuota[key[k].plan]
    /\ key' = [x \in Keys |-> key'[x]] /\ \A x \in Keys \ {k} : key'[x] = key[x]
    /\ key'[k] = [state |-> key[k].state, plan |-> key[k].plan, month |-> m,
                  count |-> IF key[k].month = m THEN key[k].count + 1 ELSE 1]
    /\ served' \in [Keys -> [Calendar -> Nat]] /\ turned' \in [Keys -> Nat]
    /\ \A x \in Keys \ {k} : served'[x] = served[x] /\ turned'[x] = turned[x]
    /\ served'[k][m] = served[k][m] + 1
    /\ \A n \in Calendar \ {m} : served'[k][n] = served[k][n]
    /\ turned'[k] = IF m < key[k].month THEN turned[k] + 1 ELSE turned[k]

LEMMA Metered ==
  ASSUME KeysTypeOK, NEW s \in Scans, AuthenticateAndMeter(s)
  PROVE  \/ UNCHANGED <<key, served, turned>>
         \/ \E k \in Keys, m \in Calendar : LetThrough(k, m)
<1> SUFFICES ASSUME ~UNCHANGED <<key, served, turned>>
             PROVE  \E k \in Keys, m \in Calendar : LetThrough(k, m)
  OBVIOUS
<1>k. PICK k, m : k = scan[s].of /\ m = scan[s].dated
  OBVIOUS
<1> USE DEF KeysTypeOK
<1>1. k \in Keys /\ m \in Calendar
  BY <1>k DEF AuthenticateAndMeter, NotScanning
<1>2. /\ key[k].state = "active" /\ (key[k].month = m => WithinQuota(key[k]))
      /\ key' = [key EXCEPT ![k].month = m, ![k].count = IF key[k].month = m THEN @ + 1 ELSE 1]
      /\ served' = [served EXCEPT ![k][m] = @ + 1]
      /\ turned' = [turned EXCEPT ![k] = IF m < key[k].month THEN @ + 1 ELSE @]
  BY <1>k DEF AuthenticateAndMeter
<1>3. key[k] \in [state: {"active", "revoked"}, plan: Plans, month: 0 .. LastMonth, count: Nat]
  BY <1>1, <1>2 DEF NoKey
<1>4. /\ key' = [x \in Keys |-> key'[x]] /\ \A x \in Keys \ {k} : key'[x] = key[x]
      /\ key'[k] = [state |-> key[k].state, plan |-> key[k].plan, month |-> m,
                    count |-> IF key[k].month = m THEN key[k].count + 1 ELSE 1]
  BY <1>1, <1>2, <1>3
<1>5. /\ served' \in [Keys -> [Calendar -> Nat]]
      /\ \A x \in Keys \ {k} : served'[x] = served[x]
      /\ served'[k][m] = served[k][m] + 1
      /\ \A n \in Calendar \ {m} : served'[k][n] = served[k][n]
  BY <1>1, <1>2
<1>6. /\ turned' \in [Keys -> Nat] /\ \A x \in Keys \ {k} : turned'[x] = turned[x]
      /\ turned'[k] = IF m < key[k].month THEN turned[k] + 1 ELSE turned[k]
  BY <1>1, <1>2
<1>7. LetThrough(k, m)
  BY <1>2, <1>3, <1>4, <1>5, <1>6 DEF LetThrough, WithinQuota
<1> QED
  BY <1>1, <1>7

\* Every step keeps the types of the keys' meter.
LEMMA KeyShapeStep == KeysTypeOK /\ [KeysNext]_meterVars => KeysTypeOK'
<1> SUFFICES ASSUME KeysTypeOK, [KeysNext]_meterVars PROVE KeysTypeOK'
  OBVIOUS
<1> USE MeteringConstants DEF KeysTypeOK, Calendar, NoKey, NotScanning
<1>1. ASSUME NEW k \in Keys, NEW p \in Plans, IssueKey(k, p) PROVE KeysTypeOK'
  BY <1>1 DEF IssueKey
<1>2. ASSUME NEW k \in Keys, RevokeKey(k) PROVE KeysTypeOK'
  <2>1. /\ key[k] \in [state: {"active", "revoked"}, plan: Plans, month: 0 .. LastMonth, count: Nat]
        /\ key' = [key EXCEPT ![k].state = "revoked"]
    BY <1>2 DEF RevokeKey
  <2>2. key'[k] \in [state: {"active", "revoked"}, plan: Plans, month: 0 .. LastMonth, count: Nat]
    BY <2>1
  <2>3. /\ DOMAIN key' = Keys /\ key' = [x \in Keys |-> key'[x]]
        /\ \A x \in Keys \ {k} : key'[x] = key[x]
    BY <2>1
  <2>4. key' \in [Keys -> {[state |-> "none"]} \cup
                     [state: {"active", "revoked"}, plan: Plans, month: 0 .. LastMonth, count: Nat]]
    BY <2>2, <2>3
  <2> QED
    BY <1>2, <2>4 DEF RevokeKey
<1>3. ASSUME NEW s \in Scans, NEW k \in Keys, DateScan(s, k) PROVE KeysTypeOK'
  BY <1>3 DEF DateScan
<1>4. ASSUME NEW s \in Scans, AuthenticateAndMeter(s) PROVE KeysTypeOK'
  <2>1. CASE UNCHANGED <<key, served, turned>>
    BY <1>4, <2>1 DEF AuthenticateAndMeter
  <2>2. CASE \E k \in Keys, m \in Calendar : LetThrough(k, m)
    <3>1. PICK k \in Keys, m \in Calendar : LetThrough(k, m)
      BY <2>2
    <3>3. key'[k] \in [state: {"active", "revoked"}, plan: Plans, month: 0 .. LastMonth, count: Nat]
      BY SMTT(20), <3>1 DEF LetThrough
    <3>4. /\ key' = [x \in Keys |-> key'[x]] /\ \A x \in Keys \ {k} : key'[x] = key[x]
      BY <3>1 DEF LetThrough
    <3>5. key' \in [Keys -> {[state |-> "none"]} \cup
                       [state: {"active", "revoked"}, plan: Plans, month: 0 .. LastMonth, count: Nat]]
      BY <3>3, <3>4
    <3>6. turned' \in [Keys -> Nat] /\ served' \in [Keys -> [Calendar -> Nat]]
      BY <3>1 DEF LetThrough
    <3> QED
      BY <1>4, <3>5, <3>6 DEF AuthenticateAndMeter
  <2> QED
    BY <1>4, <2>1, <2>2, Metered
<1>5. CASE MonthEnds
  BY <1>5 DEF MonthEnds
<1>6. ASSUME NEW e \in Events, MakeEvent(e) PROVE KeysTypeOK'
  BY <1>6 DEF MakeEvent
<1>7. ASSUME NEW e \in Events, SetAccountTier(e) PROVE KeysTypeOK'
  <2>1. ASSUME NEW k \in Keys
        PROVE  key'[k] \in {[state |-> "none"]} \cup
                   [state: {"active", "revoked"}, plan: Plans, month: 0 .. LastMonth, count: Nat]
    <3>1. CASE key[k].state = "active"
      <4>1. /\ key[k] \in [state: {"active", "revoked"}, plan: Plans, month: 0 .. LastMonth, count: Nat]
            /\ key'[k] = [key[k] EXCEPT !.plan = PlanOf[e]] /\ PlanOf[e] \in Plans
        BY <1>7, <3>1 DEF SetAccountTier
      <4> QED
        BY <4>1
    <3>2. CASE key[k].state # "active"
      BY <1>7, <3>2 DEF SetAccountTier
    <3> QED
      BY <3>1, <3>2
  <2>2. key' = [k \in Keys |-> key'[k]]
    BY <1>7 DEF SetAccountTier
  <2>3. key' \in [Keys -> {[state |-> "none"]} \cup
                     [state: {"active", "revoked"}, plan: Plans, month: 0 .. LastMonth, count: Nat]]
    BY <2>1, <2>2
  <2>4. reordered' \in BOOLEAN
    BY <1>7 DEF SetAccountTier
  <2> HIDE MeteringConstants DEF Calendar
  <2> QED
    BY <1>7, <2>3, <2>4 DEF SetAccountTier
<1>8. CASE UNCHANGED meterVars
  BY <1>8 DEF meterVars
<1> QED
  BY <1>1, <1>2, <1>3, <1>4, <1>5, <1>6, <1>7, <1>8 DEF KeysNext


\* No plan has more scans a month than the largest.
LEMMA Largest == MostScans \in Nat \ {0} /\ \A p \in Plans : MonthlyQuota[p] <= MostScans
<1> DEFINE best == CHOOSE p \in Plans : \A q \in Plans : MonthlyQuota[q] <= MonthlyQuota[p]
<1>1. best \in Plans /\ \A q \in Plans : MonthlyQuota[q] <= MonthlyQuota[best]
  BY MeteringConstants
<1>2. MostScans = MonthlyQuota[best]
  BY DEF MostScans
<1> HIDE DEF best
<1> QED
  BY <1>1, <1>2, MeteringConstants

\* One more spell may serve as many scans again.
LEMMA OneMoreSpell ==
  ASSUME NEW t \in Nat
  PROVE  /\ MostScans * t \in Nat /\ MostScans * (t + 1) = MostScans * t + MostScans
         /\ MostScans * (1 + t) = MostScans * t + MostScans /\ MostScans * 0 = 0
<1>1. MostScans \in Nat
  BY Largest
<1> HIDE DEF MostScans
<1> QED
  BY <1>1

\* Every step keeps what the spells have served.
LEMMA SpellsStep == KeysTypeOK /\ SpellsInv /\ [KeysNext]_meterVars => SpellsInv'
<1> SUFFICES ASSUME KeysTypeOK, SpellsInv, [KeysNext]_meterVars PROVE SpellsInv'
  OBVIOUS
<1>s. ASSUME UNCHANGED <<served, turned>>,
             \A k \in Keys : \/ key'[k] = key[k]
                             \/ key[k] # NoKey /\ key'[k] # NoKey /\ UNCHANGED <<key[k].month, key[k].count>>
      PROVE  SpellsInv'
  <2>1. ASSUME NEW k \in Keys PROVE key'[k] = NoKey <=> key[k] = NoKey
    BY <1>s
  <2>2. ASSUME NEW k \in Keys, key[k] # NoKey PROVE UNCHANGED <<key[k].month, key[k].count>>
    BY <1>s, <2>2
  <2> QED
    BY <1>s, <2>1, <2>2 DEF SpellsInv, Spell

<1>1. ASSUME NEW k \in Keys, NEW p \in Plans, IssueKey(k, p) PROVE SpellsInv'
  <2>1. /\ key[k] = NoKey /\ UNCHANGED <<served, turned>> /\ \A x \in Keys \ {k} : key'[x] = key[x]
        /\ key'[k] = [state |-> "active", plan |-> p, month |-> 0, count |-> 0]
    BY <1>1 DEF IssueKey, KeysTypeOK
  <2>2. key'[k].month = 0 /\ key'[k].count = 0 /\ key'[k].state = "active"
    BY <2>1
  <2>3. key'[k] # NoKey
    BY <2>2 DEF NoKey
  <2>4. turned[k] = 0 /\ \A m \in Calendar : served[k][m] = 0 /\ m > 0 /\ m # 0
    BY <2>1 DEF SpellsInv, Calendar
  <2>5. /\ key'[k].count <= MostScans
        /\ \A m \in Calendar : served'[k][m] <= MostScans * turned'[k] + Spell(k, m)'
        /\ turned'[k] = 0 => \A m \in Calendar :
              /\ m > key'[k].month => served'[k][m] = 0
              /\ m = key'[k].month => served'[k][m] = key'[k].count
    <3>1. MostScans * 0 = 0 /\ 0 <= MostScans
      BY Largest, OneMoreSpell
    <3>2. \A m \in Calendar : Spell(k, m)' = 0
      BY <2>2, <2>4 DEF Spell, Calendar
    <3> QED
      BY <2>1, <2>2, <2>4, <3>1, <3>2
  <2>6. ASSUME NEW x \in Keys, x # k
        PROVE  /\ UNCHANGED <<key[x], served[x], turned[x]>> /\ \A m \in Calendar : Spell(x, m)' = Spell(x, m)
    BY <2>1, <2>6 DEF Spell
  <2> QED
    BY <2>3, <2>5, <2>6 DEF SpellsInv
<1>2. ASSUME NEW k \in Keys, RevokeKey(k) PROVE SpellsInv'
  <2>1. /\ key[k] \in [state: {"active", "revoked"}, plan: Plans, month: 0 .. LastMonth, count: Nat]
        /\ key' = [key EXCEPT ![k].state = "revoked"] /\ UNCHANGED <<served, turned>>
    BY <1>2 DEF RevokeKey, KeysTypeOK, NoKey
  <2>2. key'[k].state = "revoked" /\ UNCHANGED <<key[k].month, key[k].count>>
    BY <2>1 DEF KeysTypeOK
  <2>3. key[k] # NoKey /\ key'[k] # NoKey
    BY <1>2, <2>2 DEF RevokeKey, NoKey
  <2>4. \A x \in Keys \ {k} : key'[x] = key[x]
    BY <2>1 DEF KeysTypeOK
  <2> QED
    BY <1>s, <2>1, <2>2, <2>3, <2>4
<1>3. ASSUME NEW s \in Scans, NEW k \in Keys, DateScan(s, k) PROVE SpellsInv'
  BY <1>s, <1>3 DEF DateScan
<1>4. ASSUME NEW s \in Scans, AuthenticateAndMeter(s) PROVE SpellsInv'
  <2>1. CASE UNCHANGED <<key, served, turned>>
    BY <1>s, <2>1
  <2>2. CASE \E k \in Keys, m \in Calendar : LetThrough(k, m)
    <3>1. PICK k \in Keys, m \in Calendar : LetThrough(k, m)
      BY <2>2
    <3> DEFINE old == key[k].month
               c == key[k].count
    <3>2. /\ k \in Keys /\ m \in Calendar /\ old \in Nat /\ c \in Nat
          /\ key[k] # NoKey /\ (old = m => c < MonthlyQuota[key[k].plan]) /\ key[k].plan \in Plans
      BY <3>1 DEF LetThrough, NoKey, Calendar
    <3>3. /\ key'[k].month = m /\ key'[k].count = IF old = m THEN c + 1 ELSE 1
          /\ key'[k].state = "active" /\ \A x \in Keys \ {k} : UNCHANGED <<key[x], served[x], turned[x]>>
      BY <3>1 DEF LetThrough
    <3>4. /\ served'[k][m] = served[k][m] + 1 /\ turned'[k] = IF m < old THEN turned[k] + 1 ELSE turned[k]
          /\ \A n \in Calendar \ {m} : served'[k][n] = served[k][n]
      BY <3>1 DEF LetThrough
    <3>5. /\ turned[k] \in Nat /\ \A n \in Calendar : served[k][n] \in Nat /\ n \in Nat
          /\ MostScans \in Nat \ {0} /\ (old = m => c < MostScans)
      <4>1. turned[k] \in Nat /\ \A n \in Calendar : served[k][n] \in Nat
        BY <3>2 DEF KeysTypeOK
      <4>2. \A n \in Calendar : n \in Nat
        BY DEF Calendar
      <4>3. MostScans \in Nat \ {0} /\ MonthlyQuota[key[k].plan] <= MostScans /\ MonthlyQuota[key[k].plan] \in Nat
        BY <3>2, Largest, MeteringConstants
      <4> QED
        BY <3>2, <4>1, <4>2, <4>3
    <3>6. /\ c <= MostScans
          /\ \A n \in Calendar : served[k][n] <= MostScans * turned[k] + Spell(k, n)
          /\ turned[k] = 0 => \A n \in Calendar :
                /\ n > old => served[k][n] = 0
                /\ n = old => served[k][n] = c
      <4> HIDE DEF Spell, MostScans
      <4> QED
        BY <3>2, Zenon DEF SpellsInv
    <3>7. /\ MostScans * turned[k] \in Nat
          /\ MostScans * turned'[k] = IF m < old THEN MostScans * turned[k] + MostScans
                                                ELSE MostScans * turned[k]
      BY <3>4, <3>5, OneMoreSpell
    <3>8. \A n \in Calendar :
             /\ Spell(k, n) = IF old > n THEN MostScans ELSE IF old = n THEN c ELSE 0
             /\ Spell(k, n)' = IF m > n THEN MostScans ELSE IF m = n THEN key'[k].count ELSE 0
      BY <3>3 DEF Spell
    <3> DEFINE base == MostScans * turned[k]
               now == MostScans * turned'[k]
    <3> HIDE DEF old, c, base, now
    <3>9. key'[k].count <= MostScans
      BY <3>2, <3>3, <3>5
    <3>10. ASSUME NEW n \in Calendar PROVE served'[k][n] <= now + Spell(k, n)'
      <4>1. served[k][n] <= base + (IF old > n THEN MostScans ELSE IF old = n THEN c ELSE 0)
        BY <3>6, <3>8 DEF base
      <4>2. base \in Nat /\ now = IF m < old THEN base + MostScans ELSE base
        BY <3>7 DEF base, now
      <4>3. Spell(k, n)' = IF m > n THEN MostScans ELSE IF m = n THEN (IF old = m THEN c + 1 ELSE 1) ELSE 0
        BY <3>3, <3>8 DEF old, c
      <4>4. CASE n = m
        BY <3>2, <3>4, <3>5, <3>6, <4>1, <4>2, <4>3, <4>4
      <4>5. CASE n # m
        BY <3>2, <3>4, <3>5, <3>6, <4>1, <4>2, <4>3, <4>5
      <4> QED
        BY <4>4, <4>5
    <3>11. ASSUME turned'[k] = 0, NEW n \in Calendar
           PROVE  /\ n > m => served'[k][n] = 0
                  /\ n = m => served'[k][n] = key'[k].count
      <4>1. turned[k] = 0 /\ ~(m < old)
        BY <3>2, <3>4, <3>5, <3>11
      <4> QED
        BY <3>2, <3>3, <3>4, <3>5, <3>6, <3>11, <4>1
    <3>12. key'[k] # NoKey
      BY <3>3 DEF NoKey
    <3>13. ASSUME NEW x \in Keys, x # k
           PROVE  UNCHANGED <<key[x], served[x], turned[x]>> /\ \A n \in Calendar : Spell(x, n)' = Spell(x, n)
      BY <3>3, <3>13 DEF Spell
    <3> QED
      BY <3>3, <3>9, <3>10, <3>11, <3>12, <3>13 DEF SpellsInv, now
  <2> QED
    BY <1>4, <2>1, <2>2, Metered
<1>5. CASE MonthEnds
  BY <1>s, <1>5 DEF MonthEnds
<1>6. ASSUME NEW e \in Events, MakeEvent(e) PROVE SpellsInv'
  BY <1>s, <1>6 DEF MakeEvent
<1>7. ASSUME NEW e \in Events, SetAccountTier(e) PROVE SpellsInv'
  <2>1. ASSUME NEW k \in Keys
        PROVE  \/ key'[k] = key[k]
               \/ key[k] # NoKey /\ key'[k] # NoKey /\ UNCHANGED <<key[k].month, key[k].count>>
    <3>1. CASE key[k].state = "active"
      <4>1. /\ key[k] \in [state: {"active", "revoked"}, plan: Plans, month: 0 .. LastMonth, count: Nat]
            /\ key'[k] = [key[k] EXCEPT !.plan = PlanOf[e]]
        BY <1>7, <3>1 DEF SetAccountTier, KeysTypeOK, NoKey
      <4>2. key'[k].state = "active" /\ UNCHANGED <<key[k].month, key[k].count>>
        BY <3>1, <4>1
      <4> QED
        BY <3>1, <4>2 DEF NoKey
    <3>2. CASE key[k].state # "active"
      BY <1>7, <3>2 DEF SetAccountTier
    <3> QED
      BY <3>1, <3>2
  <2> QED
    BY <1>s, <1>7, <2>1 DEF SetAccountTier
<1>8. CASE UNCHANGED meterVars
  BY <1>s, <1>8 DEF meterVars
<1> QED
  BY <1>1, <1>2, <1>3, <1>4, <1>5, <1>6, <1>7, <1>8 DEF KeysNext

\* Every step keeps the plans of the keys.
LEMMA PlanStep == KeysTypeOK /\ PlanFollows /\ [KeysNext]_meterVars => PlanFollows'
<1> SUFFICES ASSUME KeysTypeOK, PlanFollows, [KeysNext]_meterVars PROVE PlanFollows'
  OBVIOUS
<1> USE MeteringConstants DEF KeysTypeOK, PlanFollows, NoKey
<1>1. ASSUME NEW k \in Keys, NEW p \in Plans, IssueKey(k, p) PROVE PlanFollows'
  BY <1>1 DEF IssueKey
<1>2. ASSUME NEW k \in Keys, RevokeKey(k) PROVE PlanFollows'
  <2>1. /\ key'[k].state = "revoked" /\ UNCHANGED <<issued, applied, reordered>>
        /\ \A x \in Keys \ {k} : UNCHANGED key[x]
    BY <1>2 DEF RevokeKey
  <2> QED
    BY <2>1
<1>3. ASSUME NEW s \in Scans, NEW k \in Keys, DateScan(s, k) PROVE PlanFollows'
  BY <1>3 DEF DateScan
<1>4. ASSUME NEW s \in Scans, AuthenticateAndMeter(s) PROVE PlanFollows'
  <2>1. CASE UNCHANGED <<key, served, turned>>
    BY <1>4, <2>1 DEF AuthenticateAndMeter
  <2>2. CASE \E k \in Keys, m \in Calendar : LetThrough(k, m)
    <3>1. PICK k \in Keys, m \in Calendar : LetThrough(k, m)
      BY <2>2
    <3>2. /\ UNCHANGED <<key[k].state, key[k].plan>>
          /\ \A x \in Keys \ {k} : UNCHANGED key[x]
      BY <3>1 DEF LetThrough
    <3>3. UNCHANGED <<issued, applied, reordered>>
      BY <1>4 DEF AuthenticateAndMeter
    <3> QED
      BY <3>2, <3>3
  <2> QED
    BY <1>4, <2>1, <2>2, Metered
<1>5. CASE MonthEnds
  BY <1>5 DEF MonthEnds
<1>6. ASSUME NEW e \in Events, MakeEvent(e) PROVE PlanFollows'
  BY <1>6 DEF MakeEvent
<1>7. ASSUME NEW e \in Events, SetAccountTier(e) PROVE PlanFollows'
  <2>1. ASSUME NEW k \in Keys, key'[k].state = "active" PROVE key'[k].plan = PlanOf[e]
    <3>1. CASE key[k].state = "active"
      <4>1. key[k] \in [state: {"active", "revoked"}, plan: Plans, month: 0 .. LastMonth, count: Nat]
        BY <3>1
      <4> QED
        BY <1>7, <3>1, <4>1 DEF SetAccountTier
    <3> QED
      BY <1>7, <2>1, <3>1 DEF SetAccountTier
  <2>2. applied' = e
    BY <1>7 DEF SetAccountTier
  <2> QED
    BY <2>1, <2>2
<1>8. CASE UNCHANGED meterVars
  BY <1>8 DEF meterVars
<1> QED
  BY <1>1, <1>2, <1>3, <1>4, <1>5, <1>6, <1>7, <1>8 DEF KeysNext

-----------------------------------------------------------------------------
\* The calls of a span are a number of calls.
LEMMA CallsOf ==
  ASSUME NEW f \in [Ticks -> Nat], NEW a \in Int, NEW b \in Int
  PROVE  IsFiniteSet(CentsOf(f, Span(a, b))) /\ CallsIn(f, a, b) \in Nat
<1>1. IsFiniteSet(Ticks)
  <2>1. LastTick \in Int
    BY MeteringConstants
  <2> QED
    BY <2>1, FS_Interval DEF Ticks
<1>2. Span(a, b) \in SUBSET Ticks
  BY DEF Span
<1>3. /\ IsFiniteSet(CentsOf(f, Span(a, b)))
      /\ Cardinality(CentsOf(f, Span(a, b))) \in Nat
  BY <1>1, <1>2, PileOf
<1> QED
  BY <1>3 DEF CallsIn

\* A span has no more calls than another that holds every tick of it with calls.
LEMMA SpanInside ==
  ASSUME NEW f \in [Ticks -> Nat], NEW a \in Int, NEW b \in Int, NEW c \in Int, NEW d \in Int,
         \A u \in Ticks : a <= u /\ u <= b /\ f[u] # 0 => c <= u /\ u <= d
  PROVE  CallsIn(f, a, b) <= CallsIn(f, c, d)
<1>1. CentsOf(f, Span(a, b)) \subseteq CentsOf(f, Span(c, d))
  <2>1. ASSUME NEW u \in Span(a, b), NEW i \in 1 .. f[u] PROVE u \in Span(c, d)
    BY <2>1 DEF Span
  <2> QED
    BY <2>1 DEF CentsOf
<1> DEFINE A == CentsOf(f, Span(a, b))
           B == CentsOf(f, Span(c, d))
<1>2. IsFiniteSet(B)
  BY CallsOf
<1>3. A \subseteq B
  BY <1>1
<1> HIDE DEF A, B
<1>4. Cardinality(A) <= Cardinality(B)
  BY <1>2, <1>3, FS_Subset
<1> QED
  BY <1>4 DEF CallsIn, A, B

\* A span cut in two has no more calls than its parts.
LEMMA SpanSplit ==
  ASSUME NEW f \in [Ticks -> Nat], NEW a \in Int, NEW b \in Int, NEW c \in Int,
         NEW d \in Int, c = d + 1
  PROVE  CallsIn(f, a, b) <= CallsIn(f, a, d) + CallsIn(f, c, b)
<1> DEFINE A == CentsOf(f, Span(a, b))
           B == CentsOf(f, Span(a, d))
           C == CentsOf(f, Span(c, b))
<1>1. A \subseteq B \cup C
  <2>1. Span(a, b) \subseteq Span(a, d) \cup Span(c, b)
    BY DEF Span, Ticks
  <2> QED
    BY <2>1 DEF CentsOf
<1>2. /\ IsFiniteSet(B) /\ IsFiniteSet(C) /\ IsFiniteSet(A)
      /\ Cardinality(A) \in Nat /\ Cardinality(B) \in Nat /\ Cardinality(C) \in Nat
  BY CallsOf DEF CallsIn
<1> HIDE DEF A, B, C
<1>3. IsFiniteSet(B \cap C) /\ Cardinality(B \cap C) \in Nat
  BY <1>2, FS_Intersection, FS_CardinalityType
<1>4. IsFiniteSet(B \cup C) /\ Cardinality(B \cup C) = Cardinality(B) + Cardinality(C) - Cardinality(B \cap C)
  BY <1>2, FS_Union
<1>5. Cardinality(A) <= Cardinality(B \cup C)
  BY <1>1, <1>4, FS_Subset
<1>6. Cardinality(A) <= Cardinality(B) + Cardinality(C)
  BY <1>2, <1>3, <1>4, <1>5
<1> QED
  BY <1>6 DEF CallsIn, A, B, C

\* A call let through counts once in the spans that hold its tick.
OneCall(f, g, n) == g \in [Ticks -> Nat] /\ g[n] = f[n] + 1 /\ \A u \in Ticks : u # n => g[u] = f[u]

LEMMA OneMore ==
  ASSUME NEW f \in [Ticks -> Nat], NEW n \in Ticks, NEW a \in Int, NEW b \in Int,
         NEW g, OneCall(f, g, n)
  PROVE  /\ CallsIn(g, a, b) <= CallsIn(f, a, b) + 1
         /\ ~(a <= n /\ n <= b) => CallsIn(g, a, b) = CallsIn(f, a, b)
<1>1. g \in [Ticks -> Nat] /\ g[n] = f[n] + 1 /\ \A u \in Ticks : u # n => g[u] = f[u]
  BY DEF OneCall
<1> DEFINE A == CentsOf(f, Span(a, b))
           B == CentsOf(g, Span(a, b))
           call == <<n, f[n] + 1>>
<1>2. B \subseteq A \cup {call}
  <2>1. ASSUME NEW u \in Span(a, b), NEW i \in 1 .. g[u]
        PROVE  <<u, i>> \in A \cup {call}
    <3>1. u \in Ticks
      BY DEF Span
    <3>2. CASE i \in 1 .. f[u]
      BY <3>2 DEF CentsOf
    <3>3. CASE i \notin 1 .. f[u]
      <4>1. u = n /\ i = f[n] + 1
        BY <1>1, <2>1, <3>1, <3>3
      <4> QED
        BY <4>1
    <3> QED
      BY <3>2, <3>3
  <2>2. ASSUME NEW p \in B PROVE p \in A \cup {call}
    <3>1. PICK u \in Span(a, b) : p \in {u} \X (1 .. g[u])
      BY <2>2 DEF CentsOf
    <3>2. PICK i \in 1 .. g[u] : p = <<u, i>>
      BY <3>1
    <3> HIDE DEF A, B, call
    <3> QED
      BY <2>1, <3>2
  <2> QED
    BY <2>2
<1>3. IsFiniteSet(A) /\ Cardinality(A) \in Nat /\ IsFiniteSet(B) /\ Cardinality(B) \in Nat
  BY <1>1, CallsOf DEF CallsIn
<1>4. ASSUME ~(a <= n /\ n <= b) PROVE A = B
  <2>1. \A u \in Span(a, b) : g[u] = f[u]
    BY <1>1, <1>4 DEF Span
  <2> QED
    BY <2>1 DEF CentsOf
<1> HIDE DEF A, B, call
<1>5. /\ IsFiniteSet(A \cup {call})
      /\ Cardinality(A \cup {call}) = Cardinality(A) \/ Cardinality(A \cup {call}) = Cardinality(A) + 1
  <2>1. CASE call \in A
    <3>1. A \cup {call} = A
      BY <2>1
    <3> QED
      BY <1>3, <3>1
  <2>2. CASE call \notin A
    BY <1>3, <2>2, FS_AddElement
  <2> QED
    BY <2>1, <2>2
<1>6. Cardinality(B) <= Cardinality(A \cup {call})
  BY <1>2, <1>5, FS_Subset
<1>7. Cardinality(B) <= Cardinality(A) + 1
  BY <1>3, <1>5, <1>6
<1> QED
  BY <1>4, <1>7 DEF CallsIn, A, B

\* A caller that waits whole seconds, and one more, waits longer than what was left.
LEMMA WholeSeconds ==
  ASSUME NEW d \in Nat
  PROVE  TicksPerSecond * (1 + d \div TicksPerSecond) > d
<1>1. PICK T \in Nat \ {0} : T = TicksPerSecond
  BY MeteringConstants
<1>2. PICK q \in Int : q = d \div T
  BY <1>1
<1>3. d < T * (q + 1)
  BY <1>1, <1>2
<1>4. 1 + q = q + 1
  BY <1>2
<1> QED
  BY <1>1, <1>2, <1>3, <1>4

\* The spans RateHeld counts.
LEMMA Counted == \A t : CallsWithin(t) = CentsOf(allowed, Span(t, t + WindowTicks))
  BY DEF CallsWithin, CentsOf, Span, Ticks

LEMMA LimiterShapeStep == LimiterShape /\ [LimiterNext]_limiterVars => LimiterShape'
<1> SUFFICES ASSUME LimiterShape, [LimiterNext]_limiterVars PROVE LimiterShape'
  OBVIOUS
<1> USE MeteringConstants DEF LimiterShape
<1>1. CASE Allow
  <2>1. /\ window' = IF Ended(tick) THEN [count |-> 1, resetAt |-> tick + WindowTicks]
                                    ELSE [window EXCEPT !.count = @ + 1]
        /\ tick' = tick /\ (allowed' = allowed \/ allowed' = [allowed EXCEPT ![tick] = @ + 1])
    BY <1>1 DEF Allow
  <2>2. window' \in [count : Nat, resetAt : Nat]
    <3>1. tick + WindowTicks \in Nat
      BY DEF Ticks
    <3> QED
      BY <2>1, <3>1
  <2>3. allowed' \in [Ticks -> Nat] /\ \A u \in Ticks : u # tick => allowed'[u] = allowed[u]
    BY <2>1
  <2>4. \A u \in Ticks : u > tick => u # tick
    BY DEF Ticks
  <2> QED
    BY <2>1, <2>2, <2>3, <2>4
<1>2. CASE Evict
  BY <1>2 DEF Evict
<1>3. CASE TickPasses
  BY <1>3 DEF TickPasses, Ticks
<1>4. CASE UNCHANGED limiterVars
  BY <1>4 DEF limiterVars
<1> QED
  BY <1>1, <1>2, <1>3, <1>4 DEF LimiterNext

\* A call is let through while the window's count is within the limit, and starts a window
\* when the one before is over.
LEMMA AllowStep ==
  ASSUME LimiterShape, WindowInv, Allow, LimiterShape'
  PROVE  /\ WindowInv'
         /\ allowed' # allowed =>
               /\ OneCall(allowed, allowed', tick)
               /\ CallsIn(allowed', tick - WindowTicks, tick) <= 2 * WindowLimit
<1>w. PICK n \in Ticks, W \in Nat \ {0}, L \in Nat \ {0} : n = tick /\ W = WindowTicks /\ L = WindowLimit
  BY MeteringConstants DEF LimiterShape
<1>t. /\ window \in [count : Nat, resetAt : Nat] /\ n \in Int /\ n \in Nat /\ 1 <= n
      /\ allowed \in [Ticks -> Nat] /\ allowed' \in [Ticks -> Nat]
  BY DEF LimiterShape, Ticks
<1>a. PICK a \in Int : a = n - W
  BY <1>t
<1>b. tick - WindowTicks = a
  BY <1>w, <1>a
<1>c. allowed' = [allowed EXCEPT ![n] = @ + 1] => OneCall(allowed, allowed', n)
  BY <1>t DEF OneCall
<1>1. CASE Ended(tick)
  <2>1. window' = [count |-> 1, resetAt |-> n + W] /\ tick' = n /\ OneCall(allowed, allowed', n)
    <3>1. window' = [count |-> 1, resetAt |-> n + W] /\ tick' = n
      BY <1>1, <1>w DEF Allow
    <3>2. window'.count <= WindowLimit
      BY <1>w, <3>1
    <3> QED
      BY <1>w, <1>c, <3>1, <3>2 DEF Allow
  <2>2. allowed[n] = 0 /\ CallsIn(allowed, a, n) <= L
    BY <1>1, <1>w, <1>b DEF WindowInv
  <2>b. PICK b \in Int : b = n - 1 /\ ~(n <= b) /\ b < n
    BY <1>t
  <2>3. CallsIn(allowed', a, b) = CallsIn(allowed, a, b)
    BY <1>t, <2>1, <2>b, OneMore
  <2>4. CallsIn(allowed, a, b) <= CallsIn(allowed, a, n)
    <3>1. \A u \in Ticks : a <= u /\ u <= b /\ allowed[u] # 0 => a <= u /\ u <= n
      BY <1>t, <2>b DEF Ticks
    <3> QED
      BY <1>t, <3>1, SpanInside
  <2>5. CallsIn(allowed', a, n) <= CallsIn(allowed, a, n) + 1
    BY <1>t, <2>1, OneMore
  <2>6. CallsIn(allowed', n, n) <= CallsIn(allowed, n, n) + 1
    BY <1>t, <2>1, OneMore
  <2>7. CallsIn(allowed, n, n) <= CallsIn(allowed, 1, 0)
    <3>1. \A u \in Ticks : n <= u /\ u <= n /\ allowed[u] # 0 => 1 <= u /\ u <= 0
      BY <1>t, <2>2 DEF Ticks
    <3> QED
      BY <1>t, <3>1, SpanInside
  <2>8. CallsIn(allowed, 1, 0) = 0
    <3>1. Span(1, 0) = {}
      BY DEF Span, Ticks
    <3>2. CentsOf(allowed, {}) = {}
      BY DEF CentsOf
    <3> QED
      BY <3>1, <3>2, FS_EmptySet DEF CallsIn
  <2>9. /\ CallsIn(allowed, a, n) \in Nat /\ CallsIn(allowed, a, b) \in Nat /\ CallsIn(allowed, n, n) \in Nat
        /\ CallsIn(allowed', a, n) \in Nat /\ CallsIn(allowed', n, n) \in Nat
    BY <1>t, CallsOf
  <2>10. CallsIn(allowed', n, n) <= 1 /\ CallsIn(allowed', a, b) <= L /\ CallsIn(allowed', a, n) <= L + 1
    BY <2>2, <2>3, <2>4, <2>5, <2>6, <2>7, <2>8, <2>9
  <2>11. /\ window'.resetAt = n + W /\ window'.count = 1
         /\ window'.resetAt - WindowTicks = n /\ n - WindowTicks = a /\ n - 1 = b
    BY <1>w, <1>a, <1>t, <2>1, <2>b
  <2>12. ~Ended(tick)'
    BY <1>w, <1>t, <2>1, <2>11 DEF Ended
  <2>13. OpenInv(window.resetAt - WindowTicks)'
    <3>1. n <= n /\ CallsIn(allowed', n, n) <= L
      BY <1>t, <2>9, <2>10
    <3> QED
      BY <1>w, <1>t, <2>1, <2>10, <2>11, <3>1 DEF OpenInv
  <2>14. WindowInv'
    BY <2>12, <2>13 DEF WindowInv
  <2>15. CallsIn(allowed', a, n) <= 2 * L
    BY <2>9, <2>10
  <2> QED
    BY <1>w, <1>b, <2>1, <2>14, <2>15
<1>2. CASE ~Ended(tick)
  <2>s. PICK s \in Int, p \in Int, q \in Int, c \in Nat :
           s = window.resetAt - W /\ p = s - W /\ q = s - 1 /\ c = window.count
    BY <1>t
  <2>1. /\ window' = [window EXCEPT !.count = @ + 1] /\ tick' = n
        /\ IF c + 1 <= L THEN OneCall(allowed, allowed', n) ELSE allowed' = allowed
    <3>1. window' = [window EXCEPT !.count = @ + 1] /\ tick' = n
      BY <1>2, <1>w DEF Allow
    <3>2. window'.count = c + 1
      BY <1>t, <2>s, <3>1
    <3> QED
      BY <1>w, <1>c, <3>1, <3>2 DEF Allow
  <2>2. s = window.resetAt - WindowTicks /\ p = s - WindowTicks
    BY <1>w, <2>s
  <2>3. /\ 1 <= s /\ s <= n /\ CallsIn(allowed, s, n) <= L /\ CallsIn(allowed, s, n) <= c /\ CallsIn(allowed, p, q) <= L
    BY <1>2, <1>w, <2>s, <2>2 DEF WindowInv, OpenInv
  <2>4. window'.resetAt = window.resetAt /\ window'.count = c + 1 /\ s = window'.resetAt - WindowTicks
    BY <1>t, <2>s, <2>1, <2>2
  <2>5. ~Ended(tick)'
    BY <1>2, <1>w, <2>1, <2>4 DEF Ended
  <2>6. /\ CallsIn(allowed, s, n) \in Nat /\ CallsIn(allowed', s, n) \in Nat /\ CallsIn(allowed', p, q) \in Nat
        /\ CallsIn(allowed', a, n) \in Nat /\ CallsIn(allowed', p, n) \in Nat
    BY <1>t, CallsOf
  <2>7. CASE c + 1 <= L
    <3>1. OneCall(allowed, allowed', n)
      BY <2>1, <2>7
    <3>2. CallsIn(allowed', s, n) <= CallsIn(allowed, s, n) + 1
      BY <1>t, <3>1, OneMore
    <3>3. CallsIn(allowed', p, q) = CallsIn(allowed, p, q)
      <4>1. ~(n <= q)
        BY <1>t, <2>s, <2>3
      <4> QED
        BY <1>t, <3>1, <4>1, OneMore
    <3>4. CallsIn(allowed', s, n) <= c + 1 /\ CallsIn(allowed', s, n) <= L /\ CallsIn(allowed', p, q) <= L
      BY <2>3, <2>6, <2>7, <3>2, <3>3
    <3>5. OpenInv(window.resetAt - WindowTicks)'
      BY <1>w, <2>1, <2>s, <2>2, <2>3, <2>4, <3>4 DEF OpenInv
    <3>6. CallsIn(allowed', a, n) <= CallsIn(allowed', p, n)
      <4>1. \A u \in Ticks : a <= u /\ u <= n /\ allowed'[u] # 0 => p <= u /\ u <= n
        BY <1>a, <1>t, <2>s, <2>3 DEF Ticks
      <4> QED
        BY <1>t, <4>1, SpanInside
    <3>7. CallsIn(allowed', p, n) <= CallsIn(allowed', p, q) + CallsIn(allowed', s, n)
      <4>1. s = q + 1
        BY <2>s
      <4> QED
        BY <1>t, <4>1, SpanSplit
    <3>8. CallsIn(allowed', a, n) <= 2 * L
      BY <2>6, <3>4, <3>6, <3>7
    <3>9. WindowInv'
      BY <2>5, <3>5 DEF WindowInv
    <3> QED
      BY <1>w, <1>b, <3>1, <3>8, <3>9
  <2>8. CASE ~(c + 1 <= L)
    <3>1. allowed' = allowed
      BY <2>1, <2>8
    <3>2. CallsIn(allowed, s, n) <= c + 1
      BY <2>3, <2>6
    <3>3. OpenInv(window.resetAt - WindowTicks)'
      BY <1>w, <2>1, <2>s, <2>2, <2>3, <2>4, <3>1, <3>2 DEF OpenInv
    <3> QED
      BY <2>5, <3>1, <3>3 DEF WindowInv
  <2> QED
    BY <2>7, <2>8
<1> QED
  BY <1>1, <1>2

\* When the clock moves on, nothing has been let through at the new tick.
LEMMA TickStep ==
  ASSUME LimiterShape, WindowInv, TickPasses
  PROVE  WindowInv'
<1>w. PICK n \in Ticks, W \in Nat \ {0}, L \in Nat \ {0} : n = tick /\ W = WindowTicks /\ L = WindowLimit
  BY MeteringConstants DEF LimiterShape
<1>t. /\ window \in [count : Nat, resetAt : Nat] /\ allowed \in [Ticks -> Nat] /\ n \in Int /\ n \in Nat
      /\ \A u \in Ticks : u > n => allowed[u] = 0
  BY <1>w DEF LimiterShape, Ticks
<1>n. PICK m \in Ticks : m = n + 1 /\ m \in Int /\ tick' = m
  <2>1. n + 1 \in Ticks /\ tick' = n + 1
    BY <1>w, <1>t, MeteringConstants DEF TickPasses, Ticks
  <2> QED
    BY <2>1, <1>t
<1>s. PICK s \in Int, p \in Int, q \in Int, a \in Int, d \in Int :
         s = window.resetAt - W /\ p = s - W /\ q = s - 1 /\ a = m - W /\ d = n - W
  BY <1>t, <1>n
<1>1. UNCHANGED <<window, allowed>> /\ allowed[m] = 0
  BY <1>t, <1>n DEF TickPasses
<1>e. /\ s = window.resetAt - WindowTicks /\ p = s - WindowTicks /\ a = m - WindowTicks /\ d = n - WindowTicks
  BY <1>w, <1>s
<1>2. ASSUME NEW x \in Int, NEW y \in Int, y <= x PROVE CallsIn(allowed, x, m) <= CallsIn(allowed, y, n)
  <2>1. \A u \in Ticks : x <= u /\ u <= m /\ allowed[u] # 0 => y <= u /\ u <= n
    BY <1>t, <1>n, <1>1, <1>2 DEF Ticks
  <2> QED
    BY <1>t, <1>n, <2>1, SpanInside
<1>6. /\ CallsIn(allowed, s, m) \in Nat /\ CallsIn(allowed, s, n) \in Nat
      /\ CallsIn(allowed, a, m) \in Nat /\ CallsIn(allowed, d, n) \in Nat
  BY <1>t, <1>n, CallsOf
<1>3. CASE Ended(tick)
  <2>1. Ended(tick)'
    BY <1>w, <1>t, <1>n, <1>1, <1>3 DEF Ended
  <2>2. CallsIn(allowed, d, n) <= L
    BY <1>w, <1>e, <1>3 DEF WindowInv
  <2>3. CallsIn(allowed, a, m) <= CallsIn(allowed, d, n)
    <3>1. d <= a
      BY <1>t, <1>n, <1>s
    <3> QED
      BY <1>2, <3>1
  <2>4. CallsIn(allowed, a, m) <= L
    BY <1>6, <2>2, <2>3
  <2> QED
    BY <1>w, <1>n, <1>e, <1>1, <2>1, <2>4 DEF WindowInv
<1>4. CASE ~Ended(tick)
  <2>1. /\ 1 <= s /\ s <= n /\ CallsIn(allowed, s, n) <= L /\ CallsIn(allowed, s, n) <= window.count
        /\ CallsIn(allowed, p, q) <= L
    BY <1>w, <1>s, <1>e, <1>4 DEF WindowInv, OpenInv
  <2>2. CallsIn(allowed, s, m) <= CallsIn(allowed, s, n)
    BY <1>2
  <2>4. CASE ~Ended(tick)'
    <3>1. s = window'.resetAt - WindowTicks /\ window'.count = window.count
      BY <1>1, <1>e
    <3>2. s <= m /\ CallsIn(allowed, s, m) <= L /\ CallsIn(allowed, s, m) <= window.count
      BY <1>t, <1>n, <1>6, <2>1, <2>2
    <3>3. OpenInv(window.resetAt - WindowTicks)'
      BY <1>w, <1>n, <1>s, <1>e, <1>1, <2>1, <3>1, <3>2 DEF OpenInv
    <3> QED
      BY <2>4, <3>3 DEF WindowInv
  <2>5. CASE Ended(tick)'
    <3>1. s <= a
      <4>1. m > window.resetAt
        BY <1>n, <1>1, <2>5 DEF Ended
      <4> QED
        BY <1>t, <1>n, <1>s, <4>1
    <3>2. CallsIn(allowed, a, m) <= CallsIn(allowed, s, n)
      BY <1>2, <3>1
    <3>4. CallsIn(allowed, a, m) <= L
      BY <1>6, <2>1, <3>2
    <3> QED
      BY <1>w, <1>n, <1>e, <1>1, <2>5, <3>4 DEF WindowInv
  <2> QED
    BY <2>4, <2>5
<1> QED
  BY <1>3, <1>4

\* Every step keeps the windows.
LEMMA WindowStep == LimiterShape /\ WindowInv /\ [LimiterNext]_limiterVars => WindowInv'
<1> SUFFICES ASSUME LimiterShape, WindowInv, [LimiterNext]_limiterVars PROVE WindowInv'
  OBVIOUS
<1>1. CASE Allow
  <2>1. LimiterShape'
    BY LimiterShapeStep
  <2> QED
    BY <1>1, <2>1, AllowStep
<1>2. CASE Evict
  <2>1. /\ Ended(tick) /\ Ended(tick)' /\ UNCHANGED <<tick, allowed>>
    BY <1>2 DEF Evict, Ended, LimiterShape, Ticks
  <2> QED
    BY <2>1 DEF WindowInv
<1>3. CASE TickPasses
  BY <1>3, TickStep
<1>4. CASE UNCHANGED limiterVars
  BY <1>4 DEF limiterVars, WindowInv, OpenInv, Ended
<1> QED
  BY <1>1, <1>2, <1>3, <1>4 DEF LimiterNext

\* Every step keeps the rate.
LEMMA RateStep ==
  LimiterShape /\ WindowInv /\ RateHeld /\ [LimiterNext]_limiterVars => RateHeld'
<1> SUFFICES ASSUME LimiterShape, WindowInv, RateHeld, [LimiterNext]_limiterVars PROVE RateHeld'
  OBVIOUS
<1>i. LimiterShape'
  BY LimiterShapeStep
<1>1. ASSUME NEW t \in Ticks PROVE Cardinality(CallsWithin(t)') <= 2 * WindowLimit
  <2>1. Cardinality(CallsWithin(t)) <= 2 * WindowLimit
    BY DEF RateHeld, Ticks
  <2>2. CASE allowed' = allowed
    BY <2>1, <2>2 DEF CallsWithin
  <2>3. CASE allowed' # allowed
    <3>1. /\ Allow /\ OneCall(allowed, allowed', tick)
          /\ CallsIn(allowed', tick - WindowTicks, tick) <= 2 * WindowLimit
      <4>1. Allow
        BY <2>3 DEF LimiterNext, Evict, TickPasses, limiterVars
      <4> QED
        BY <1>i, <2>3, <4>1, AllowStep
    <3>w. PICK n \in Ticks, W \in Nat \ {0}, L \in Nat \ {0} :
             n = tick /\ W = WindowTicks /\ L = WindowLimit
      BY MeteringConstants DEF LimiterShape
    <3>t. n \in Int /\ t \in Int
      BY DEF Ticks
    <3>e. PICK e \in Int, a \in Int : e = t + W /\ a = n - W
      BY <3>t
    <3>2. CallsWithin(t) = CentsOf(allowed, Span(t, e)) /\ CallsWithin(t)' = CentsOf(allowed', Span(t, e))
      BY <3>w, <3>e DEF CallsWithin, CentsOf, Span, Ticks
    <3>3. /\ allowed \in [Ticks -> Nat] /\ allowed' \in [Ticks -> Nat]
          /\ \A u \in Ticks : u > n => allowed'[u] = 0
      BY <1>i, <3>w, <3>1 DEF LimiterShape, Allow
    <3>4. CASE t <= n /\ n <= e
      <4>1. CallsIn(allowed', t, e) <= CallsIn(allowed', a, n)
        <5>1. \A u \in Ticks : t <= u /\ u <= e /\ allowed'[u] # 0 => a <= u /\ u <= n
          BY <3>e, <3>t, <3>3, <3>4 DEF Ticks
        <5> QED
          BY <3>3, <3>t, <5>1, SpanInside
      <4>2. CallsIn(allowed', t, e) \in Nat /\ CallsIn(allowed', a, n) \in Nat
        BY <3>3, <3>t, CallsOf
      <4>3. CallsIn(allowed', a, n) <= 2 * L
        BY <3>1, <3>w, <3>e
      <4>4. CallsIn(allowed', t, e) <= 2 * L
        BY <4>1, <4>2, <4>3
      <4> QED
        BY <3>2, <3>w, <4>4 DEF CallsIn
    <3>5. CASE ~(t <= n /\ n <= e)
      <4>1. CallsIn(allowed', t, e) = CallsIn(allowed, t, e)
        BY <3>1, <3>3, <3>t, <3>w, <3>5, OneMore
      <4> QED
        BY <2>1, <3>2, <4>1 DEF CallsIn
    <3> QED
      BY <3>4, <3>5
  <2> QED
    BY <2>2, <2>3
<1>2. ASSUME NEW r \in retries' PROVE r.at > r.reset
  <2>1. CASE r \in retries
    BY <2>1 DEF RateHeld
  <2>2. CASE r \notin retries
    <3>1. Allow
      BY <1>2, <2>2 DEF LimiterNext, Evict, TickPasses, limiterVars
    <3>2. ~Ended(tick)
      <4>1. CASE Ended(tick)
        <5>1. window'.count = 1
          BY <3>1, <4>1 DEF Allow
        <5>2. window'.count <= WindowLimit
          BY <5>1, MeteringConstants
        <5> QED
          BY <1>2, <2>2, <3>1, <5>2 DEF Allow
      <4> QED
        BY <4>1
    <3>w. PICK n \in Nat, e \in Nat, T \in Nat \ {0} : n = tick /\ e = window.resetAt /\ T = TicksPerSecond
      <4>1. tick \in Nat /\ window.resetAt \in Nat /\ TicksPerSecond \in Nat \ {0}
        BY MeteringConstants DEF LimiterShape, Ticks
      <4> QED
        BY <4>1
    <3>3. n <= e
      BY <3>2, <3>w DEF Ended
    <3>4. r = [at |-> n + T * (1 + (e - n) \div T), reset |-> e]
      BY <1>2, <2>2, <3>1, <3>w DEF Allow
    <3>5. T * (1 + (e - n) \div T) > e - n
      BY <3>3, <3>w, WholeSeconds
    <3> DEFINE wait == T * (1 + (e - n) \div T)
    <3>6. wait \in Int
      OBVIOUS
    <3>7. r.at = n + wait /\ r.reset = e
      BY <3>4
    <3> HIDE DEF wait
    <3>8. wait > e - n
      BY <3>5 DEF wait
    <3> QED
      BY <3>6, <3>7, <3>8
  <2> QED
    BY <2>1, <2>2
<1> QED
  BY <1>1, <1>2 DEF RateHeld, Ticks

\* The first states of both meters.
LEMMA LimiterStart == LimiterInit => LimiterIInv
<1> SUFFICES ASSUME LimiterInit PROVE LimiterIInv
  OBVIOUS
<1>1. LimiterShape
  BY MeteringConstants DEF LimiterInit, LimiterShape, Ticks
<1>2. \A a, b : CentsOf(allowed, Span(a, b)) = {}
  BY DEF LimiterInit, CentsOf, Span, Ticks
<1>3. \A a, b : CallsIn(allowed, a, b) = 0
  BY <1>2, FS_EmptySet DEF CallsIn
<1>4. /\ tick = 1 /\ window.resetAt = 0 /\ allowed[tick] = 0 /\ retries = {}
      /\ CallsIn(allowed, tick - WindowTicks, tick) <= WindowLimit
  <2>1. tick = 1 /\ window.resetAt = 0 /\ retries = {} /\ allowed = [t \in Ticks |-> 0]
    BY DEF LimiterInit, Ticks
  <2>2. allowed[tick] = 0
    BY <1>1, <2>1 DEF LimiterShape
  <2>3. 0 <= WindowLimit
    BY MeteringConstants
  <2>4. CallsIn(allowed, tick - WindowTicks, tick) = 0
    BY <1>3
  <2> QED
    BY <2>1, <2>2, <2>3, <2>4
<1>5. WindowInv
  BY <1>4 DEF WindowInv, Ended
<1>6. \A t \in Ticks : Cardinality(CallsWithin(t)) <= 2 * WindowLimit
  <2>1. 0 <= 2 * WindowLimit
    BY MeteringConstants
  <2>2. \A t : Cardinality(CallsWithin(t)) = 0
    BY <1>2, Counted, FS_EmptySet
  <2> QED
    BY <2>1, <2>2
<1>7. RateHeld
  BY <1>4, <1>6 DEF RateHeld, Ticks
<1> QED
  BY <1>1, <1>5, <1>7 DEF LimiterIInv

LEMMA KeysStart == KeysInit => KeysIInv
<1> SUFFICES ASSUME KeysInit PROVE KeysIInv
  OBVIOUS
<1>1. KeysTypeOK
  <2>1. month \in Calendar /\ reordered \in BOOLEAN /\ sent \subseteq Events /\ applied \in Events \cup {0}
    <3>1. LastMonth \in Nat \ {0}
      BY MeteringConstants
    <3>2. month \in Calendar
      BY <3>1 DEF KeysInit, Calendar
    <3> QED
      BY <3>2 DEF KeysInit
  <2>2. /\ served \in [Keys -> [Calendar -> Nat]] /\ turned \in [Keys -> Nat]
        /\ issued \in [Keys -> Events \cup {0}]
    BY DEF KeysInit
  <2>3. /\ key \in [Keys -> {NoKey} \cup [state: {"active", "revoked"}, plan: Plans,
                                          month: 0 .. LastMonth, count: Nat]]
    BY DEF KeysInit
  <2>4. scan \in [Scans -> {NotScanning} \cup [dated: Calendar, of: Keys]]
    BY DEF KeysInit
  <2> QED
    BY <2>1, <2>2, <2>3, <2>4 DEF KeysTypeOK
<1>2. SpellsInv
  BY DEF KeysInit, SpellsInv
<1>3. \A k \in Keys : key[k] = NoKey /\ issued[k] = 0 /\ applied = 0
  BY DEF KeysInit
<1>4. PlanFollows
  BY <1>3 DEF PlanFollows
<1> QED
  BY <1>1, <1>2, <1>4 DEF KeysIInv

\* The spells keep the quotas.
LEMMA SpellsKeepQuotas == KeysTypeOK /\ SpellsInv => QuotaKept
<1> SUFFICES ASSUME KeysTypeOK, SpellsInv, NEW k \in Keys
             PROVE  /\ \A m \in Calendar : served[k][m] <= MostScans * (1 + turned[k])
                    /\ turned[k] = 0 /\ key[k] # NoKey /\ key[k].month # 0 =>
                          key[k].count = served[k][key[k].month]
  BY DEF QuotaKept
<1>1. /\ turned[k] \in Nat /\ \A m \in Calendar : served[k][m] \in Nat
      /\ key[k] # NoKey => key[k] \in [state: {"active", "revoked"}, plan: Plans, month: 0 .. LastMonth, count: Nat]
  BY DEF KeysTypeOK
<1>2. /\ MostScans \in Nat /\ MostScans * turned[k] \in Nat
      /\ MostScans * (1 + turned[k]) = MostScans * turned[k] + MostScans
  BY <1>1, Largest, OneMoreSpell
<1>3. ASSUME NEW m \in Calendar PROVE served[k][m] <= MostScans * (1 + turned[k])
  <2>1. CASE key[k] = NoKey
    <3>1. served[k][m] = 0
      BY <2>1 DEF SpellsInv
    <3> QED
      BY <1>2, <3>1
  <2>2. CASE key[k] # NoKey
    <3>1. key[k].count <= MostScans /\ served[k][m] <= MostScans * turned[k] + Spell(k, m) /\ key[k].count \in Nat
      BY <1>1, <2>2 DEF SpellsInv
    <3>2. Spell(k, m) \in Nat /\ Spell(k, m) <= MostScans
      BY <1>2, <3>1 DEF Spell
    <3> QED
      BY <1>1, <1>2, <3>1, <3>2
  <2> QED
    BY <2>1, <2>2
<1>4. ASSUME turned[k] = 0, key[k] # NoKey, key[k].month # 0
      PROVE  key[k].count = served[k][key[k].month]
  <2>1. key[k].month \in Calendar
    BY <1>1, <1>4, MeteringConstants DEF Calendar
  <2> QED
    BY <1>4, <2>1 DEF SpellsInv
<1> QED
  BY <1>3, <1>4

\* No key is served more scans in a month than its plan's in each spell of it, no caller
\* more than two windows' calls in a span of one window's length, and a caller that waits
\* as told finds another window (apikey/repo.go AuthenticateAndMeter, billing/service.go
\* applyVerifiedEvent, platform/ratelimit/inmemory.go Allow).
THEOREM MeterCorrect == MeteringSpec => []MeterInv
<1> USE DEF MeteringSpec
<1>1. MeteringSpec => []KeysIInv
  <2>1. KeysInit => KeysIInv
    BY KeysStart
  <2>2. KeysIInv /\ [KeysNext]_meterVars => KeysIInv'
    BY KeyShapeStep, SpellsStep, PlanStep DEF KeysIInv
  <2> QED
    BY <2>1, <2>2, PTL
<1>2. MeteringSpec => []LimiterIInv
  <2>1. LimiterInit => LimiterIInv
    BY LimiterStart
  <2>2. LimiterIInv /\ [LimiterNext]_limiterVars => LimiterIInv'
    BY LimiterShapeStep, WindowStep, RateStep DEF LimiterIInv
  <2> QED
    BY <2>1, <2>2, PTL
<1>3. KeysIInv /\ LimiterIInv => MeterInv
  BY SpellsKeepQuotas DEF KeysIInv, LimiterIInv, MeterInv
<1> QED
  BY <1>1, <1>2, <1>3, PTL

==============================================================================
