-------------------------- MODULE WorkbenchProofs ---------------------------
(***************************************************************************)
(* The workbench, for any runs, workspaces, owners, workers, handlers and  *)
(* artifacts.                                                              *)
(*                                                                         *)
(* WorkbenchApprovals: an approved command runs once, as approved, however *)
(* many workers ask, retry and lose their replies.  ApprovalsInv is        *)
(* inductive.                                                              *)
(*                                                                         *)
(* WorkbenchRuns: the account is never oversold, and a released            *)
(* reservation is never touched again: both rest on LeaseInv.  The ledgers *)
(* account for every run and event once, up to the cap: Good says so of a  *)
(* book, and is kept by each settlement in whatever order they come.       *)
(*                                                                         *)
(* WorkbenchArtifacts: the quotas hold by what each reservation adds to    *)
(* the sums; Shared says who is still to store or to undo an artifact.     *)
(***************************************************************************)
EXTENDS WorkbenchApprovals, WorkbenchRuns, WorkbenchArtifacts, Sums

-----------------------------------------------------------------------------
\* Nothing has been created, decided, run or told.
LEMMA ApprovalsStart == ApprovalsInit => ApprovalsInv
<1> SUFFICES ASSUME ApprovalsInit PROVE ApprovalsInv
  OBVIOUS
<1> USE DEF ApprovalsInit
<1>1. lapsed \in BOOLEAN
  OBVIOUS
<1>2. read \in [Actors -> Nat]
  OBVIOUS
<1>3. version \in Nat /\ executor = NoExecutor /\ execution = "pending" /\ decision = "none"
  OBVIOUS
<1> QED
  BY <1>1, <1>2, <1>3 DEF ApprovalsInv, ApprovalsTypeOK, RunsOncePerApproval, DecisionKept

\* Every step keeps the invariant.
LEMMA ApprovalsStep == ApprovalsInv /\ [ApprovalsNext]_approvalVars => ApprovalsInv'
<1> SUFFICES ASSUME ApprovalsInv, [ApprovalsNext]_approvalVars PROVE ApprovalsInv'
  OBVIOUS
<1> USE NoExecutorAssumption, HashAssumption
    DEF ApprovalsInv, ApprovalsTypeOK, RunsOncePerApproval, DecisionKept
<1>1. CASE CreateApproval
  BY <1>1 DEF CreateApproval
<1>2. CASE Expire
  BY <1>2 DEF Expire
<1>3. ASSUME NEW a \in Actors, Read(a) PROVE ApprovalsInv'
  BY <1>3 DEF Read
<1>4. ASSUME NEW o \in Owners, NEW d \in {"approved", "rejected"}, NEW b \in BOOLEAN,
             DecideApproval(o, d, b) PROVE ApprovalsInv'
  <2>1. told = {} /\ ran = {}
    BY <1>4 DEF DecideApproval
  <2> QED
    BY <1>4, <2>1 DEF DecideApproval, Current, Bump
<1>5. ASSUME NEW e \in Executors, NEW h \in Hashes, NEW b \in BOOLEAN,
             ConsumeApproval(e, h, b) PROVE ApprovalsInv'
  <2>1. ran = {} /\ h = ArgsHash
    BY <1>5 DEF ConsumeApproval
  <2> QED
    BY <1>5, <2>1 DEF ConsumeApproval, Current, Bump
<1>6. ASSUME NEW e \in Executors, NEW outcome \in {"executed", "failed"},
             CompleteApprovalExecution(e, outcome) PROVE ApprovalsInv'
  BY <1>6 DEF CompleteApprovalExecution, Current, Bump
<1>7. CASE UNCHANGED approvalVars
  BY <1>7 DEF approvalVars
<1> QED
  BY <1>1, <1>2, <1>3, <1>4, <1>5, <1>6, <1>7 DEF ApprovalsNext

\* workbench/runtime_ingest.go ConsumeApproval, CompleteApprovalExecution and
\* repo.go DecideApproval: for any owners, workers and arguments, one worker at most
\* runs the command, with the arguments approved, and a decision told is kept.
THEOREM ApprovalsCorrect == ApprovalsSpec => []ApprovalsInv
<1> QED
  BY ApprovalsStart, ApprovalsStep, PTL DEF ApprovalsSpec

-----------------------------------------------------------------------------
\* The reservations: in one state each, at known times, and no more than allowed.
LeaseInv ==
  /\ now \in 0 .. MaxTime
  /\ active \subseteq Runs /\ released \subseteq Runs /\ active \cap released = {}
  /\ started \in [Runs -> Times] /\ expires \in [Runs -> Times]
  /\ NeverOversold

\* Fewer reservations, and one more below a limit, keep within it.
LEMMA OneBelow ==
  ASSUME NEW S, IsFiniteSet(S), NEW x, NEW T, T \subseteq S \cup {x}, NEW limit \in Nat,
         Cardinality(S) < limit
  PROVE  Cardinality(T) <= limit
<1>1. IsFiniteSet(S \cup {x}) /\ Cardinality(S \cup {x}) \in {Cardinality(S), Cardinality(S) + 1}
  BY FS_AddElement
<1>2. IsFiniteSet(T) /\ Cardinality(T) <= Cardinality(S \cup {x})
  BY <1>1, FS_Subset
<1>3. Cardinality(S) \in Nat /\ Cardinality(T) \in Nat
  BY <1>2, FS_CardinalityType
<1> QED
  BY <1>1, <1>2, <1>3

\* A set of runs is finite, and a part of it is no larger.
LEMMA FewerRuns ==
  ASSUME NEW S, S \subseteq Runs, NEW T, T \subseteq S
  PROVE  /\ IsFiniteSet(S) /\ {Cardinality(S), Cardinality(T)} \subseteq Nat
         /\ Cardinality(T) <= Cardinality(S)
<1>1. IsFiniteSet(S)
  BY RunsAssumption, FS_Subset
<1>2. IsFiniteSet(T) /\ Cardinality(T) <= Cardinality(S)
  BY <1>1, FS_Subset
<1> QED
  BY <1>1, <1>2, FS_CardinalityType

\* Giving up reservations does not oversell.
LEMMA FewerHold ==
  ASSUME NeverOversold, active \subseteq Runs, active' \subseteq active
  PROVE  NeverOversold'
<1>1. Cardinality(active') <= UserConcurrent
  BY FewerRuns, LimitsAssumption DEF NeverOversold
<1>2. ASSUME NEW w \in Workspaces
      PROVE  Cardinality({r \in active' : Home[r] = w}) <= WorkspaceConcurrent
  <2> DEFINE S == {r \in active : Home[r] = w}
             T == {r \in active' : Home[r] = w}
  <2>1. S \subseteq Runs /\ T \subseteq S
    OBVIOUS
  <2>2. Cardinality(S) <= WorkspaceConcurrent
    BY DEF NeverOversold
  <2> HIDE DEF S, T
  <2>3. Cardinality(T) <= Cardinality(S) /\ {Cardinality(S), Cardinality(T)} \subseteq Nat
    BY <2>1, FewerRuns
  <2>4. Cardinality(T) <= WorkspaceConcurrent
    BY <2>2, <2>3, LimitsAssumption
  <2> QED
    BY <2>4 DEF T
<1> QED
  BY <1>1, <1>2 DEF NeverOversold

\* Admitting r after the reconciliation does not oversell.
LEMMA AdmittedHold ==
  ASSUME NEW r \in Runs, active \subseteq Runs, Concurrent(r), active' = Kept \cup {r}, NeverOversold
  PROVE  NeverOversold'
<1>0. Kept \subseteq active /\ Kept \subseteq Runs /\ IsFiniteSet(Kept)
  BY FewerRuns DEF Kept
<1>1. Cardinality(active') <= UserConcurrent
  BY <1>0, OneBelow, LimitsAssumption DEF Concurrent
<1>2. ASSUME NEW w \in Workspaces
      PROVE  Cardinality({q \in active' : Home[q] = w}) <= WorkspaceConcurrent
  <2> DEFINE S == {q \in Kept : Home[q] = w}
             T == {q \in active' : Home[q] = w}
             A == {q \in active : Home[q] = w}
  <2>1. S \subseteq Runs /\ S \subseteq A /\ A \subseteq Runs /\ T \subseteq S \cup {r}
    BY <1>0
  <2>2. Cardinality(A) <= WorkspaceConcurrent
    BY DEF NeverOversold
  <2>3. w = Home[r] => Cardinality(S) < WorkspaceConcurrent
    BY DEF Concurrent
  <2>4. w # Home[r] => T \subseteq A
    BY <1>0
  <2> HIDE DEF S, T, A
  <2>5. CASE w = Home[r]
    <3>1. IsFiniteSet(S)
      BY <2>1, FewerRuns
    <3> QED
      BY <2>1, <2>3, <2>5, <3>1, OneBelow, LimitsAssumption DEF T
  <2>6. CASE w # Home[r]
    <3>1. Cardinality(T) <= Cardinality(A) /\ {Cardinality(T), Cardinality(A)} \subseteq Nat
      BY <2>1, <2>4, <2>6, FewerRuns
    <3>2. Cardinality(T) <= WorkspaceConcurrent
      BY <2>2, <3>1, LimitsAssumption
    <3> QED
      BY <3>2 DEF T
  <2> QED
    BY <2>5, <2>6
<1> QED
  BY <1>1, <1>2 DEF NeverOversold

\* Nothing is reserved at first.
LEMMA LeaseStart == RunsInit => LeaseInv
<1> SUFFICES ASSUME RunsInit PROVE LeaseInv
  OBVIOUS
<1>1. \A w \in Workspaces : {r \in active : Home[r] = w} = {}
  BY DEF RunsInit
<1>2. NeverOversold
  BY <1>1, FS_EmptySet, LimitsAssumption DEF RunsInit, NeverOversold
<1> QED
  BY <1>2, LimitsAssumption DEF RunsInit, LeaseInv, Times

\* The leases that have run out are given up, the others kept.
Reconciles == /\ active' = Kept /\ released' = released \cup Expired

\* Every step keeps the invariant, and the released reservations as they are.
LEMMA LeaseStep ==
  LeaseInv /\ [RunsNext]_runVars =>
    /\ LeaseInv'
    /\ \A r \in released : /\ r \in released'
                            /\ started'[r] = started[r] /\ expires'[r] = expires[r]
<1> DEFINE Final == \A r \in released : /\ r \in released'
                                        /\ started'[r] = started[r] /\ expires'[r] = expires[r]
<1> SUFFICES ASSUME LeaseInv, [RunsNext]_runVars PROVE LeaseInv' /\ Final
  OBVIOUS
<1> USE LimitsAssumption
<1>0. /\ \A t \in Stamps : t \in Times
      /\ now \in Times /\ now + Lease \in Times
  BY DEF LeaseInv, Stamps, Times
<1>1. CASE UNCHANGED <<reservations>> /\ now' \in 0 .. MaxTime
  BY <1>1 DEF LeaseInv, NeverOversold, reservations, Times
<1>2. ASSUME Reconciles, started' = started, now' = now,
             \/ expires' = expires
             \/ \E r \in Kept : expires' = [expires EXCEPT ![r] = now + Lease]
      PROVE  LeaseInv' /\ Final
  <2>1. NeverOversold'
    BY <1>2, FewerHold DEF LeaseInv, Reconciles, Kept
  <2>2. /\ active' \subseteq Runs /\ released' \subseteq Runs /\ active' \cap released' = {}
        /\ Kept \cap released = {} /\ released \subseteq released'
    BY <1>2 DEF LeaseInv, Reconciles, Kept, Expired
  <2>3. expires' \in [Runs -> Times] /\ \A r \in released : expires'[r] = expires[r]
    BY <1>2, <1>0, <2>2 DEF LeaseInv
  <2> QED
    BY <1>2, <2>1, <2>2, <2>3 DEF LeaseInv
<1>3. ASSUME NEW r \in Runs, NEW s \in Stamps, Reserve(r, s), now' = now
      PROVE  LeaseInv' /\ Final
  <2>1. NeverOversold'
    BY <1>3, AdmittedHold DEF LeaseInv, Reserve
  <2>2. /\ active' \subseteq Runs /\ released' \subseteq Runs /\ active' \cap released' = {}
        /\ r \notin released /\ released \subseteq released'
    BY <1>3 DEF LeaseInv, Reserve, Kept, Expired
  <2>3. /\ started' \in [Runs -> Times] /\ expires' \in [Runs -> Times]
        /\ \A q \in released : started'[q] = started[q] /\ expires'[q] = expires[q]
    BY <1>3, <1>0, <2>2 DEF LeaseInv, Reserve
  <2> QED
    BY <1>3, <2>1, <2>2, <2>3 DEF LeaseInv
<1>4. ASSUME NEW r \in Runs, NEW s \in Stamps, ReserveRun(r, s), now' = now
      PROVE  LeaseInv' /\ Final
  <2>1. CASE Reserve(r, s)
    BY <1>3, <1>4, <2>1
  <2>2. CASE Reserved(r)
    BY <1>2, <1>4, <2>2 DEF Reserved, Reconciles
  <2> QED
    BY <1>4, <2>1, <2>2 DEF ReserveRun
<1>5. ASSUME NEW r \in Runs, NEW t \in Times, Finish(r, t) PROVE LeaseInv' /\ Final
  <2>1. NeverOversold'
    BY <1>5, FewerHold DEF LeaseInv, Finish
  <2>2. r \notin released
    BY <1>5 DEF LeaseInv, Finish
  <2> QED
    BY <1>5, <2>1, <2>2 DEF LeaseInv, Finish
<1>6. ASSUME NEW r \in Runs, NEW s \in Stamps, CreateRun(r, s) \/ AdmitRun(r, s)
      PROVE  LeaseInv' /\ Final
  BY <1>4, <1>6 DEF CreateRun, AdmitRun
<1>7. ASSUME NEW r \in Runs, Heartbeat(r) PROVE LeaseInv' /\ Final
  BY <1>2, <1>7 DEF Heartbeat, Reconciles
<1>8. ASSUME NEW r \in Runs, CompleteRun(r) \/ UpdateRunCAS(r) PROVE LeaseInv' /\ Final
  BY <1>5, <1>8, <1>0 DEF CompleteRun, UpdateRunCAS
<1>9. ASSUME NEW w \in Workspaces, ReapOwner(w) PROVE LeaseInv' /\ Final
  BY <1>2, <1>9 DEF ReapOwner, Reconciles
<1>10. CASE Tick
  BY <1>1, <1>10 DEF Tick, LeaseInv
<1>11. CASE ReaperLists \/ ReaperFails \/ UNCHANGED runVars
  BY <1>1, <1>11 DEF ReaperLists, ReaperFails, runVars, LeaseInv
<1>12. ASSUME NEW r \in Runs, CreateTerminalRun(r) PROVE LeaseInv' /\ Final
  BY <1>1, <1>12 DEF CreateTerminalRun, LeaseInv
<1>13. ASSUME NEW r \in Runs, NEW q \in Seqs, RecordEvent(r, q) PROVE LeaseInv' /\ Final
  BY <1>1, <1>13 DEF RecordEvent, LeaseInv
<1>14. ASSUME NEW u \in UsageEvents, RecordUsage(u) \/ ChargeUsage(u) PROVE LeaseInv' /\ Final
  BY <1>1, <1>14 DEF RecordUsage, ChargeUsage, Debit, LeaseInv
<1> HIDE DEF Final
<1> QED
  BY <1>6, <1>7, <1>8, <1>9, <1>10, <1>11, <1>12, <1>13, <1>14 DEF RunsNext

\* workbenchusage/manager.go ReserveRunTx: for any runs and workspaces, and whatever
\* leases have run out, admissions never oversell the account or a workspace.
THEOREM AdmissionsCorrect == RunsSpec => []NeverOversold
<1>1. LeaseInv => NeverOversold
  BY DEF LeaseInv
<1> QED
  BY <1>1, LeaseStart, LeaseStep, PTL DEF RunsSpec

\* workbenchusage/manager.go FinishRunTx, reconcileExpiredTx: what a run was metered for
\* is never rewritten by a late completion, heartbeat, admission or reaper.
THEOREM ReleasesFinal == RunsSpec => ReleaseFinal
<1>1. LeaseInv /\ [RunsNext]_runVars =>
        [\A r \in released : /\ r \in released'
                             /\ started'[r] = started[r] /\ expires'[r] = expires[r]]_runVars
  BY LeaseStep
<1> QED
  BY <1>1, LeaseStart, LeaseStep, PTL DEF RunsSpec, ReleaseFinal

-----------------------------------------------------------------------------
(***************************************************************************)
(* The ledgers.  What a month's ledger owes: the runs that ended in it and *)
(* the usage.  E, st and ex are the ended runs, their starts and ends, us  *)
(* the usage of each account.                                              *)
(***************************************************************************)
Time(st, ex) == [r \in Runs |-> Metered(st[r], ex[r])]
EndedIn(a, E, ex) == {r \in E : <<Home[r], Month(ex[r])>> = a}
Due(a, E, st, ex, us) == SumFunctionOnSet(Time(st, ex), EndedIn(a, E, ex)) + us[a]

\* The book says what is due, up to the cap; an account not opened owes nothing.
Good(book, E, st, ex, us) ==
  /\ book.compute \in [Account -> Nat] /\ book.booked \subseteq Account
  /\ \A a \in Account :
       /\ book.compute[a] <= Due(a, E, st, ex, us)
       /\ Due(a, E, st, ex, us) <= MonthlyCompute => book.compute[a] = Due(a, E, st, ex, us)
       /\ book.compute[a] <= Max({MonthlyCompute, RunWall})
       /\ a \notin book.booked => Due(a, E, st, ex, us) = 0

UsedIn(a) == {u \in UsageEvents : debit[u] # NoMonth /\ <<Home[UsageRun[u]], debit[u]>> = a}
Usage == [a \in Account |-> SumFunctionOnSet(UsageCompute, UsedIn(a))]

LedgerInv == Good(Ledger, released, started, expires, Usage)

TokensInv ==
  /\ debit \in [UsageEvents -> Months \cup {NoMonth}]
  /\ tokens \in [Account -> Nat]
  /\ \A a \in Account : /\ tokens[a] = SumFunctionOnSet(UsageTokens, UsedIn(a))
                        /\ tokens[a] <= MonthlyTokens

EventsInv ==
  /\ events \in [Runs -> SUBSET Seqs] /\ count \in [Runs -> Nat] /\ steps \in [Runs -> Nat]
  /\ \A r \in Runs : IsFiniteSet(events[r])
  /\ EventsCounted

MeteredInv ==
  /\ LeaseInv /\ LedgerInv /\ TokensInv /\ EventsInv
  /\ row \subseteq Runs /\ listed \subseteq Workspaces

\* The larger and the smaller of two numbers.
LEMMA MaxOfTwo ==
  ASSUME NEW a \in Int, NEW b \in Int
  PROVE  /\ Max({a, b}) \in Int /\ a <= Max({a, b}) /\ b <= Max({a, b})
         /\ Max({a, b}) = a \/ Max({a, b}) = b
<1> DEFINE P(x) == x \in {a, b} /\ \A y \in {a, b} : x >= y
<1>1. \E x : P(x)
  <2>1. P(a) \/ P(b)
    OBVIOUS
  <2> QED
    BY <2>1
<1>2. Max({a, b}) = CHOOSE x : P(x)
  BY Zenon DEF Max
<1> HIDE DEF P
<1>3. P(CHOOSE x : P(x))
  BY <1>1, Zenon
<1>4. P(Max({a, b}))
  BY <1>2, <1>3, Zenon
<1> QED
  BY <1>4 DEF P

LEMMA MinOfTwo ==
  ASSUME NEW a \in Int, NEW b \in Int
  PROVE  /\ Min({a, b}) \in Int /\ Min({a, b}) <= a /\ Min({a, b}) <= b
         /\ Min({a, b}) = a \/ Min({a, b}) = b
<1> DEFINE P(x) == x \in {a, b} /\ \A y \in {a, b} : x <= y
<1>1. \E x : P(x)
  <2>1. P(a) \/ P(b)
    OBVIOUS
  <2> QED
    BY <2>1
<1>2. Min({a, b}) = CHOOSE x : P(x)
  BY Zenon DEF Min
<1> HIDE DEF P
<1>3. P(CHOOSE x : P(x))
  BY <1>1, Zenon
<1>4. P(Min({a, b}))
  BY <1>2, <1>3, Zenon
<1> QED
  BY <1>4 DEF P

\* No run is metered for longer than its wall time.
LEMMA MeteredBound ==
  ASSUME NEW s \in Int, NEW t \in Int
  PROVE  Metered(s, t) \in Nat /\ Metered(s, t) <= RunWall
<1>1. PICK m : m = Max({0, t - s})
  OBVIOUS
<1>2. m \in Int /\ 0 <= m
  BY <1>1, MaxOfTwo
<1>3. Metered(s, t) = Min({RunWall, m})
  BY <1>1 DEF Metered
<1>4. RunWall \in Int /\ 0 <= RunWall
  BY LimitsAssumption
<1>5. Min({RunWall, m}) \in Int /\ Min({RunWall, m}) <= RunWall
      /\ (Min({RunWall, m}) = RunWall \/ Min({RunWall, m}) = m)
  BY <1>2, <1>4, MinOfTwo
<1> QED
  BY <1>2, <1>3, <1>4, <1>5

\* A time within the bound is in one of the months.
LEMMA MonthBound ==
  ASSUME NEW t \in 0 .. MaxTime
  PROVE  Month(t) \in Months /\ Month(t) # NoMonth
<1>0. MonthLength \in Nat /\ MonthLength > 0 /\ MaxTime \in Nat /\ t \in Nat /\ t <= MaxTime
  BY LimitsAssumption
<1>1. PICK L \in Nat : L = MonthLength /\ L > 0
  BY <1>0
<1>2. PICK p \in Int : p = t \div L
  BY <1>0, <1>1
<1>3. PICK q \in Int : q = MaxTime \div L
  BY <1>0, <1>1
<1>4. L * p <= t /\ t < L * p + L
  BY <1>0, <1>1, <1>2
<1>5. L * q <= MaxTime /\ MaxTime < L * q + L
  BY <1>0, <1>1, <1>3
<1>6. 0 <= p
  BY <1>0, <1>1, <1>4
<1>7. p <= q
  BY <1>0, <1>1, <1>4, <1>5
<1>8. Month(t) = p /\ Month(MaxTime) = q
  BY <1>1, <1>2, <1>3 DEF Month
<1>9. p \in 0 .. q /\ p # -1
  BY <1>6, <1>7
<1> QED
  BY <1>8, <1>9 DEF Months, NoMonth

\* The time of a run, and the runs that ended in a month.
LEMMA TimeNat ==
  ASSUME NEW st \in [Runs -> Int], NEW ex \in [Runs -> Int], NEW r \in Runs
  PROVE  Time(st, ex)[r] = Metered(st[r], ex[r]) /\ Time(st, ex)[r] \in Nat /\ Time(st, ex)[r] \in Int
<1>1. Metered(st[r], ex[r]) \in Nat
  BY MeteredBound
<1> QED
  BY <1>1 DEF Time

LEMMA EndedFinite ==
  ASSUME NEW a, NEW E, E \subseteq Runs, NEW ex
  PROVE  IsFiniteSet(EndedIn(a, E, ex)) /\ EndedIn(a, E, ex) \subseteq Runs
<1>1. EndedIn(a, E, ex) \subseteq Runs
  BY DEF EndedIn
<1> QED
  BY <1>1, RunsAssumption, FS_Subset

LEMMA DueNat ==
  ASSUME NEW a, NEW E, E \subseteq Runs, NEW st \in [Runs -> Int], NEW ex \in [Runs -> Int],
         NEW us, us[a] \in Nat
  PROVE  Due(a, E, st, ex, us) \in Nat /\ SumFunctionOnSet(Time(st, ex), EndedIn(a, E, ex)) \in Nat
<1>1. IsFiniteSet(EndedIn(a, E, ex)) /\ \A r \in EndedIn(a, E, ex) : Time(st, ex)[r] \in Nat
  BY TimeNat, EndedFinite
<1>2. SumFunctionOnSet(Time(st, ex), EndedIn(a, E, ex)) \in Nat
  BY <1>1, SumNat
<1> QED
  BY <1>2 DEF Due

\* Only the times of the ended runs matter.
LEMMA GoodAgrees ==
  ASSUME NEW book, NEW E, E \subseteq Runs, NEW us,
         NEW st \in [Runs -> Int], NEW ex \in [Runs -> Int],
         NEW su \in [Runs -> Int], NEW ey \in [Runs -> Int],
         \A r \in E : su[r] = st[r] /\ ey[r] = ex[r],
         us \in [Account -> Nat], Good(book, E, st, ex, us)
  PROVE  Good(book, E, su, ey, us)
<1>1. ASSUME NEW a \in Account PROVE Due(a, E, su, ey, us) = Due(a, E, st, ex, us)
  <2>0. us[a] \in Nat
    OBVIOUS
  <2>1. EndedIn(a, E, ey) = EndedIn(a, E, ex)
    BY DEF EndedIn
  <2>2. \A r \in EndedIn(a, E, ex) : r \in E /\ r \in Runs
    BY DEF EndedIn
  <2>3. \A r \in EndedIn(a, E, ex) : Time(st, ex)[r] \in Int /\ Time(st, ex)[r] = Time(su, ey)[r]
    <3> SUFFICES ASSUME NEW r \in EndedIn(a, E, ex)
                 PROVE  Time(st, ex)[r] \in Int /\ Time(st, ex)[r] = Time(su, ey)[r]
      OBVIOUS
    <3>1. r \in Runs /\ su[r] = st[r] /\ ey[r] = ex[r]
      BY <2>2
    <3>2. Time(st, ex)[r] \in Int /\ Time(st, ex)[r] = Metered(st[r], ex[r])
      BY <3>1, TimeNat
    <3>3. Time(su, ey)[r] = Metered(su[r], ey[r])
      BY <3>1, TimeNat
    <3> QED
      BY <3>1, <3>2, <3>3
  <2>4. IsFiniteSet(EndedIn(a, E, ex))
    BY EndedFinite
  <2>5. SumFunctionOnSet(Time(st, ex), EndedIn(a, E, ex)) = SumFunctionOnSet(Time(su, ey), EndedIn(a, E, ex))
    BY <2>3, <2>4, SumAgree
  <2> QED
    BY <2>1, <2>5 DEF Due
<1> QED
  BY <1>1 DEF Good

\* One run more has ended.
LEMMA DueMore ==
  ASSUME NEW a, NEW E, E \subseteq Runs, NEW st \in [Runs -> Int], NEW ex \in [Runs -> Int],
         NEW us, us[a] \in Nat, NEW r \in Runs, r \notin E
  PROVE  Due(a, E \cup {r}, st, ex, us) =
           IF a = <<Home[r], Month(ex[r])>> THEN Due(a, E, st, ex, us) + Metered(st[r], ex[r])
                                            ELSE Due(a, E, st, ex, us)
<1>1. CASE a # <<Home[r], Month(ex[r])>>
  <2>1. EndedIn(a, E \cup {r}, ex) = EndedIn(a, E, ex)
    BY <1>1 DEF EndedIn
  <2> QED
    BY <1>1, <2>1 DEF Due
<1>2. CASE a = <<Home[r], Month(ex[r])>>
  <2>1. EndedIn(a, E \cup {r}, ex) = EndedIn(a, E, ex) \cup {r} /\ r \notin EndedIn(a, E, ex)
    BY <1>2 DEF EndedIn
  <2>2. PICK T, f : T = EndedIn(a, E, ex) /\ f = Time(st, ex)
    OBVIOUS
  <2>3. /\ IsFiniteSet(T) /\ \A q \in T : f[q] \in Int
        /\ f[r] = Metered(st[r], ex[r]) /\ f[r] \in Int /\ r \notin T
        /\ SumFunctionOnSet(f, T) \in Nat
    <3>1. IsFiniteSet(T) /\ T \subseteq Runs
      BY <2>2, EndedFinite
    <3>2. \A q \in Runs : f[q] \in Int /\ f[q] = Metered(st[q], ex[q])
      BY <2>2, TimeNat
    <3>3. SumFunctionOnSet(f, T) \in Nat
      BY <2>2, DueNat
    <3> QED
      BY <2>1, <2>2, <3>1, <3>2, <3>3
  <2>4. SumFunctionOnSet(f, T \cup {r}) = f[r] + SumFunctionOnSet(f, T)
    BY <2>3, SumAdd
  <2>5. PICK s, m, u \in Int : s = SumFunctionOnSet(f, T) /\ m = Metered(st[r], ex[r]) /\ u = us[a]
    BY <2>3
  <2>6. Due(a, E, st, ex, us) = s + u
    BY <2>2, <2>5 DEF Due
  <2>7. Due(a, E \cup {r}, st, ex, us) = (m + s) + u
    BY <2>1, <2>2, <2>3, <2>4, <2>5 DEF Due
  <2>8. (m + s) + u = (s + u) + m
    BY <2>5
  <2> QED
    BY <1>2, <2>5, <2>6, <2>7, <2>8
<1> QED
  BY <1>1, <1>2

\* The cap of an account that is open.
LEMMA CappedBy ==
  ASSUME NEW c \in Nat, NEW u \in Nat
  PROVE  LET new == c + Min({u, Max({0, MonthlyCompute - c})}) IN
         /\ new \in Nat /\ new <= c + u
         /\ c + u <= MonthlyCompute => new = c + u
         /\ new <= c \/ new <= MonthlyCompute
<1>1. PICK M \in Nat : M = MonthlyCompute
  BY LimitsAssumption
<1>2. PICK x : x = Max({0, M - c})
  OBVIOUS
<1>3. x \in Int /\ 0 <= x /\ M - c <= x /\ (x = 0 \/ x = M - c)
  BY <1>2, MaxOfTwo
<1>4. PICK y : y = Min({u, x})
  OBVIOUS
<1>5. y \in Int /\ y <= u /\ y <= x /\ (y = u \/ y = x)
  BY <1>3, <1>4, MinOfTwo
<1>6. /\ c + y \in Nat /\ c + y <= c + u
      /\ c + u <= M => c + y = c + u
      /\ c + y <= c \/ c + y <= M
  BY <1>3, <1>5
<1>7. Min({u, Max({0, MonthlyCompute - c})}) = y
  BY <1>1, <1>2, <1>4
<1> DEFINE new == c + Min({u, Max({0, MonthlyCompute - c})})
<1>8. new = c + y
  BY <1>7
<1> HIDE DEF new
<1>9. /\ new \in Nat /\ new <= c + u
      /\ c + u <= MonthlyCompute => new = c + u
      /\ new <= c \/ new <= MonthlyCompute
  BY <1>1, <1>6, <1>8
<1> QED
  BY <1>9, Zenon DEF new

\* Settling a run keeps the book.
LEMMA SettleGood ==
  ASSUME NEW book, NEW E, E \subseteq Runs, NEW st \in [Runs -> Int], NEW ex \in [Runs -> Int],
         NEW us \in [Account -> Nat], Good(book, E, st, ex, us),
         NEW r \in Runs, r \notin E, ex[r] \in 0 .. MaxTime
  PROVE  Good(Book(book, <<Home[r], Month(ex[r])>>, Metered(st[r], ex[r])), E \cup {r}, st, ex, us)
<1> USE LimitsAssumption
<1>0. PICK k : k = <<Home[r], Month(ex[r])>>
  OBVIOUS
<1>1. PICK m \in Nat : m = Metered(st[r], ex[r]) /\ m <= RunWall
  BY MeteredBound
<1>2. k \in Account
  BY <1>0, MonthBound, HomeAssumption DEF Account
<1>3. /\ book.compute \in [Account -> Nat] /\ book.booked \subseteq Account
      /\ \A a \in Account : book.compute[a] \in Nat /\ us[a] \in Nat
  BY DEF Good
<1> DEFINE new == IF k \in book.booked
                  THEN book.compute[k] + Min({m, Max({0, MonthlyCompute - book.compute[k]})})
                  ELSE m
           after == Book(book, k, m)
<1>4. after.booked = book.booked \cup {k} /\ after.compute = [book.compute EXCEPT ![k] = new]
  BY DEF Book
<1>5. /\ new \in Nat /\ new <= book.compute[k] + m
      /\ k \in book.booked /\ book.compute[k] + m <= MonthlyCompute => new = book.compute[k] + m
      /\ k \notin book.booked => new = m
      /\ k \in book.booked => new <= book.compute[k] \/ new <= MonthlyCompute
  BY <1>2, <1>3, CappedBy
<1> HIDE DEF new, after
<1>6. PICK top \in Int : top = Max({MonthlyCompute, RunWall}) /\ MonthlyCompute <= top /\ RunWall <= top
  <2>1. MonthlyCompute \in Int /\ RunWall \in Int
    OBVIOUS
  <2> QED
    BY <2>1, MaxOfTwo
<1>7. after.compute \in [Account -> Nat] /\ after.booked \subseteq Account
  BY <1>2, <1>3, <1>4, <1>5
<1>8. ASSUME NEW a \in Account
      PROVE  /\ after.compute[a] <= Due(a, E \cup {r}, st, ex, us)
             /\ Due(a, E \cup {r}, st, ex, us) <= MonthlyCompute
                  => after.compute[a] = Due(a, E \cup {r}, st, ex, us)
             /\ after.compute[a] <= top
             /\ a \notin after.booked => Due(a, E \cup {r}, st, ex, us) = 0
  <2>1. PICK d \in Nat : d = Due(a, E, st, ex, us)
    BY <1>3, DueNat
  <2>2. PICK c \in Nat : c = book.compute[a]
    BY <1>3
  <2>3. /\ c <= d /\ (d <= MonthlyCompute => c = d) /\ c <= top
        /\ a \notin book.booked => d = 0
    BY <1>6, <2>1, <2>2 DEF Good
  <2>4. CASE a # k
    <3>1. Due(a, E \cup {r}, st, ex, us) = d
      BY <1>0, <1>3, <2>1, <2>4, DueMore
    <3>2. after.compute[a] = c /\ (a \notin after.booked => a \notin book.booked)
      BY <1>3, <1>4, <2>2, <2>4
    <3> QED
      BY <2>3, <3>1, <3>2
  <2>5. CASE a = k
    <3>1. Due(a, E \cup {r}, st, ex, us) = d + m
      BY <1>0, <1>1, <1>3, <2>1, <2>5, DueMore
    <3>2. after.compute[a] = new /\ a \in after.booked
      BY <1>2, <1>3, <1>4, <2>5
    <3>3. PICK n \in Nat : n = new
      BY <1>5
    <3>4. /\ n <= c + m /\ (k \in book.booked /\ c + m <= MonthlyCompute => n = c + m)
          /\ (k \notin book.booked => n = m)
          /\ (k \in book.booked => n <= c \/ n <= MonthlyCompute)
      BY <1>5, <2>2, <2>5, <3>3
    <3>5. n <= d + m /\ (d + m <= MonthlyCompute => n = d + m) /\ n <= top
      <4>1. CASE k \in book.booked
        BY <1>6, <2>3, <3>4, <4>1
      <4>2. CASE k \notin book.booked
        BY <1>1, <1>6, <2>3, <2>5, <3>4, <4>2
      <4> QED
        BY <4>1, <4>2
    <3> QED
      BY <3>1, <3>2, <3>3, <3>5
  <2> QED
    BY <2>4, <2>5
<1>9. Good(after, E \cup {r}, st, ex, us)
  BY <1>6, <1>7, <1>8 DEF Good
<1> QED
  BY <1>0, <1>1, <1>9 DEF after

\* The books there may be after some runs of D have been settled.
Settles(g, D) ==
  g = [T \in D |-> IF T = {} THEN {Ledger}
                   ELSE UNION {{Settled(book, r, expires[r]) : book \in g[T \ {r}]} : r \in T}]

LEMMA SettlesExists ==
  ASSUME NEW T, IsFiniteSet(T)
  PROVE  \E g : Settles(g, SUBSET T)
<1> DEFINE N == {n \in Nat : \E g : Settles(g, Small(T, n))}
<1>1. 0 \in N
  <2> DEFINE g == [s \in {{}} |-> {Ledger}]
  <2>1. Settles(g, {{}})
    BY DEF Settles
  <2> QED
    BY <2>1, SmallZero
<1>2. ASSUME NEW n \in Nat, n \in N PROVE n + 1 \in N
  <2>1. PICK g : Settles(g, Small(T, n))
    BY <1>2
  <2> DEFINE F(s, k) == IF s = {} THEN {Ledger}
                        ELSE UNION {{Settled(book, r, expires[r]) : book \in k[s \ {r}]} : r \in s}
             h == [s \in Small(T, n + 1) |-> F(s, g)]
  <2>2. ASSUME NEW s \in Small(T, n) PROVE h[s] = g[s]
    <3>1. s \in Small(T, n + 1)
      BY SmallGrows
    <3>2. g[s] = F(s, g)
      BY <2>1 DEF Settles
    <3> QED
      BY <3>1, <3>2
  <2>3. ASSUME NEW s \in Small(T, n + 1) PROVE h[s] = F(s, h)
    <3>1. CASE s = {}
      BY <3>1
    <3>2. CASE s # {}
      <4>1. \A r \in s : h[s \ {r}] = g[s \ {r}]
        BY <2>2, SmallLess
      <4>2. h[s] = F(s, g)
        OBVIOUS
      <4> HIDE DEF h
      <4>3. \A r \in s : {Settled(book, r, expires[r]) : book \in h[s \ {r}]}
                           = {Settled(book, r, expires[r]) : book \in g[s \ {r}]}
        BY <4>1
      <4>4. F(s, h) = F(s, g)
        <5> DEFINE A(r) == {Settled(book, r, expires[r]) : book \in h[s \ {r}]}
                   B(r) == {Settled(book, r, expires[r]) : book \in g[s \ {r}]}
        <5>1. F(s, h) = UNION {A(r) : r \in s} /\ F(s, g) = UNION {B(r) : r \in s}
          BY <3>2
        <5>2. \A r \in s : A(r) = B(r)
          BY <4>3
        <5> HIDE DEF A, B
        <5>3. {A(r) : r \in s} = {B(r) : r \in s}
          BY <5>2
        <5> HIDE DEF F
        <5> QED
          BY <5>1, <5>3
      <4> QED
        BY <4>2, <4>4
    <3> QED
      BY <3>1, <3>2
  <2>4. h = [s \in Small(T, n + 1) |-> F(s, h)]
    <3>1. h = [s \in Small(T, n + 1) |-> h[s]]
      OBVIOUS
    <3> HIDE DEF h, F
    <3> QED
      BY <2>3, <3>1, Zenon
  <2>5. Settles(h, Small(T, n + 1))
    BY <2>4, Zenon DEF Settles
  <2> HIDE DEF h
  <2> QED
    BY <2>5
<1> HIDE DEF N
<1>3. Nat \subseteq N
  BY <1>1, <1>2, Induction
<1>4. Cardinality(T) \in N
  BY <1>3, FS_CardinalityType
<1>5. \E g : Settles(g, Small(T, Cardinality(T)))
  BY <1>4 DEF N
<1> QED
  BY <1>5, SmallAll

\* Whatever the order, the reconciled book is kept.
LEMMA ReconciledGood ==
  ASSUME LeaseInv, LedgerInv, Usage \in [Account -> Nat], NEW book \in Reconciled
  PROVE  Good(book, released \cup Expired, started, expires, Usage)
<1>0. /\ active \subseteq Runs /\ released \subseteq Runs /\ active \cap released = {}
      /\ started \in [Runs -> Int] /\ expires \in [Runs -> Int] /\ now \in 0 .. MaxTime
      /\ \A r \in Runs : expires[r] \in Nat
  BY LimitsAssumption DEF LeaseInv, Times
<1>1. Expired \subseteq active /\ Expired \subseteq Runs /\ IsFiniteSet(Expired)
      /\ \A r \in Expired : expires[r] \in 0 .. MaxTime /\ r \notin released
  <2>1. Expired \subseteq Runs /\ \A r \in Expired : r \in active /\ expires[r] <= now
    BY <1>0 DEF Expired
  <2>2. IsFiniteSet(Expired)
    BY <2>1, RunsAssumption, FS_Subset
  <2>3. ASSUME NEW r \in Expired PROVE expires[r] \in 0 .. MaxTime /\ r \notin released
    BY <1>0, <2>1, LimitsAssumption
  <2> QED
    BY <2>1, <2>2, <2>3
<1> DEFINE after == CHOOSE g : Settles(g, SUBSET Expired)
<1>2. Reconciled = after[Expired]
  BY DEF Reconciled, Settles
<1>3. Settles(after, SUBSET Expired)
  BY <1>1, SettlesExists, Zenon
<1> HIDE DEF after
<1> DEFINE N == {n \in Nat : \A T \in Small(Expired, n) : \A b \in after[T] :
                                Good(b, released \cup T, started, expires, Usage)}
<1>4. 0 \in N
  <2>1. after[{}] = {Ledger}
    BY <1>3 DEF Settles
  <2>2. Good(Ledger, released \cup {}, started, expires, Usage)
    <3>1. released \cup {} = released
      OBVIOUS
    <3> QED
      BY <3>1 DEF LedgerInv
  <2> QED
    BY <1>1, <2>1, <2>2, SmallZero
<1>5. ASSUME NEW n \in Nat, n \in N PROVE n + 1 \in N
  <2> SUFFICES ASSUME NEW T \in Small(Expired, n + 1), NEW b \in after[T]
               PROVE  Good(b, released \cup T, started, expires, Usage)
    OBVIOUS
  <2>0. T \in SUBSET Expired
    BY DEF Small
  <2>1. CASE T = {}
    <3>1. T \in Small(Expired, 0)
      BY <1>1, <2>1, SmallZero
    <3> QED
      BY <1>4, <3>1
  <2>2. CASE T # {}
    <3>1. PICK r \in T : \E c \in after[T \ {r}] : b = Settled(c, r, expires[r])
      <4> DEFINE A(r) == {Settled(c, r, expires[r]) : c \in after[T \ {r}]}
      <4>1. after[T] = UNION {A(r) : r \in T}
        BY <1>3, <2>0, <2>2 DEF Settles
      <4> HIDE DEF A
      <4>2. PICK r \in T : b \in A(r)
        BY <4>1
      <4> QED
        BY <4>2 DEF A
    <3>2. PICK c \in after[T \ {r}] : b = Settled(c, r, expires[r])
      BY <3>1
    <3>3. T \ {r} \in Small(Expired, n)
      BY <1>1, SmallLess
    <3>4. Good(c, released \cup (T \ {r}), started, expires, Usage)
      BY <1>5, <3>3
    <3>5. PICK E : E = released \cup (T \ {r})
      OBVIOUS
    <3>6. E \subseteq Runs /\ r \in Runs /\ r \notin E /\ expires[r] \in 0 .. MaxTime
      BY <1>0, <1>1, <2>0, <3>5
    <3>7. Good(Book(c, <<Home[r], Month(expires[r])>>, Metered(started[r], expires[r])),
               E \cup {r}, started, expires, Usage)
      BY <1>0, <3>4, <3>5, <3>6, SettleGood
    <3>8. E \cup {r} = released \cup T
      BY <3>5
    <3> QED
      BY <3>2, <3>7, <3>8 DEF Settled
  <2> QED
    BY <2>1, <2>2
<1> HIDE DEF N
<1>6. Cardinality(Expired) \in N /\ Expired \in Small(Expired, Cardinality(Expired))
  BY <1>1, <1>4, <1>5, Induction, FS_CardinalityType, SmallAll
<1> QED
  BY <1>2, <1>6 DEF N

LEMMA UsageTyped ==
  ASSUME debit \in [UsageEvents -> Months \cup {NoMonth}]
  PROVE  /\ Usage \in [Account -> Nat]
         /\ \A a : /\ IsFiniteSet(UsedIn(a)) /\ UsedIn(a) \subseteq UsageEvents
                   /\ SumFunctionOnSet(UsageCompute, UsedIn(a)) \in Nat
                   /\ SumFunctionOnSet(UsageTokens, UsedIn(a)) \in Nat
<1>1. ASSUME NEW a
      PROVE  /\ IsFiniteSet(UsedIn(a)) /\ UsedIn(a) \subseteq UsageEvents
             /\ SumFunctionOnSet(UsageCompute, UsedIn(a)) \in Nat
             /\ SumFunctionOnSet(UsageTokens, UsedIn(a)) \in Nat
  <2>1. UsedIn(a) \subseteq UsageEvents
    BY DEF UsedIn
  <2>2. IsFiniteSet(UsedIn(a))
    BY <2>1, UsageAssumption, FS_Subset
  <2>3. \A u \in UsedIn(a) : UsageCompute[u] \in Nat /\ UsageTokens[u] \in Nat
    BY <2>1, UsageAssumption
  <2> QED
    BY <2>1, <2>2, <2>3, SumNat
<1> QED
  BY <1>1 DEF Usage

\* What a step does to the ledgers.
LedgerSame == UNCHANGED <<released, started, expires, booked, tokens, compute, debit>>

LedgerReconciled ==
  /\ \E book \in Reconciled : Booked(book)
  /\ UNCHANGED debit /\ released' = released \cup Expired
  /\ \A q \in released \cup Expired : started'[q] = started[q] /\ expires'[q] = expires[q]

LEMMA LedgerSteps ==
  ASSUME LeaseInv, [RunsNext]_runVars
  PROVE  \/ LedgerSame
         \/ LedgerReconciled
         \/ \E r \in Runs, t \in Stamps : Finish(r, t)
         \/ \E u \in UsageEvents, t \in Stamps : Debit(u, Month(t))
<1>0. /\ active \subseteq Runs /\ released \subseteq Runs /\ active \cap released = {}
      /\ started \in [Runs -> Times] /\ expires \in [Runs -> Times]
      /\ Expired \subseteq active /\ Kept = active \ Expired
  BY DEF LeaseInv, Expired, Kept
<1>1. ASSUME NEW r \in Runs, NEW s, Reserve(r, s), UNCHANGED debit PROVE LedgerReconciled
  <2>1. r \notin active \cup released /\ released' = released \cup Expired
        /\ \E book \in Reconciled : Booked(book)
    BY <1>1 DEF Reserve, Within
  <2>2. \A q \in released \cup Expired : started'[q] = started[q] /\ expires'[q] = expires[q]
    BY <1>0, <1>1, <2>1 DEF Reserve
  <2> QED
    BY <1>1, <2>1, <2>2 DEF LedgerReconciled
<1>2. ASSUME NEW r \in Runs, NEW s, ReserveRun(r, s), UNCHANGED debit PROVE LedgerReconciled
  <2>1. CASE Reserved(r)
    BY <1>2, <2>1 DEF Reserved, LedgerReconciled
  <2> QED
    BY <1>1, <1>2, <2>1 DEF ReserveRun
<1>3. ASSUME NEW r \in Runs, NEW s, CreateRun(r, s) \/ AdmitRun(r, s) PROVE LedgerReconciled
  BY <1>2, <1>3 DEF CreateRun, AdmitRun
<1>4. ASSUME NEW r \in Runs, Heartbeat(r) PROVE LedgerReconciled
  <2>1. \A q \in released \cup Expired : started'[q] = started[q] /\ expires'[q] = expires[q]
    BY <1>0, <1>4 DEF Heartbeat
  <2> QED
    BY <1>4, <2>1 DEF Heartbeat, LedgerReconciled
<1>5. ASSUME NEW w \in Workspaces, ReapOwner(w) PROVE LedgerReconciled
  BY <1>5 DEF ReapOwner, LedgerReconciled
<1>6. ASSUME NEW r \in Runs, CompleteRun(r) \/ UpdateRunCAS(r)
      PROVE  \E t \in Stamps : Finish(r, t)
  <2>1. now \in Stamps
    BY LimitsAssumption DEF LeaseInv, Stamps, Times
  <2> QED
    BY <1>6, <2>1 DEF CompleteRun, UpdateRunCAS
<1>7. ASSUME \/ Tick \/ ReaperLists \/ ReaperFails \/ UNCHANGED runVars
             \/ \E r \in Runs : CreateTerminalRun(r) \/ \E q \in Seqs : RecordEvent(r, q)
      PROVE  LedgerSame
  BY <1>7 DEF Tick, ReaperLists, ReaperFails, runVars, CreateTerminalRun, RecordEvent,
     reservations, ledger, LedgerSame
<1>8. ASSUME NEW u \in UsageEvents, RecordUsage(u) \/ ChargeUsage(u)
      PROVE  \E t \in Stamps : Debit(u, Month(t))
  BY <1>8 DEF RecordUsage, ChargeUsage
<1> QED
  BY <1>3, <1>4, <1>5, <1>6, <1>7, <1>8 DEF RunsNext

\* An event more is debited to account k.
LEMMA UsedMore ==
  ASSUME debit \in [UsageEvents -> Months \cup {NoMonth}], NEW u \in UsageEvents, debit[u] = NoMonth,
         NEW m \in Months, m # NoMonth, debit' = [debit EXCEPT ![u] = m],
         NEW a, NEW f \in [UsageEvents -> Nat]
  PROVE  SumFunctionOnSet(f, UsedIn(a)') =
           IF a = <<Home[UsageRun[u]], m>> THEN SumFunctionOnSet(f, UsedIn(a)) + f[u]
                                           ELSE SumFunctionOnSet(f, UsedIn(a))
<1>0. u \notin UsedIn(a) /\ \A x \in UsageEvents : f[x] \in Int
  <2>1. ASSUME NEW x \in UsageEvents PROVE f[x] \in Int
    <3>1. f[x] \in Nat
      OBVIOUS
    <3> QED
      BY <3>1
  <2> QED
    BY <2>1 DEF UsedIn
<1>1. CASE a # <<Home[UsageRun[u]], m>>
  <2>1. UsedIn(a)' = UsedIn(a)
    BY <1>1 DEF UsedIn
  <2> QED
    BY <1>1, <2>1
<1>2. CASE a = <<Home[UsageRun[u]], m>>
  <2>1. UsedIn(a)' = UsedIn(a) \cup {u}
    BY <1>2 DEF UsedIn
  <2>2. PICK T : T = UsedIn(a)
    OBVIOUS
  <2>3. IsFiniteSet(T) /\ u \notin T /\ \A x \in T : f[x] \in Int
    <3>1. IsFiniteSet(T) /\ T \subseteq UsageEvents
      BY <2>2, UsageTyped
    <3> QED
      BY <1>0, <2>2, <3>1
  <2>4. f[u] \in Int
    BY <1>0
  <2>5. SumFunctionOnSet(f, T \cup {u}) = f[u] + SumFunctionOnSet(f, T)
    BY <2>3, <2>4, SumAdd
  <2>6. SumFunctionOnSet(f, T) \in Int
    BY <2>3, SumInt
  <2>7. SumFunctionOnSet(f, T \cup {u}) = SumFunctionOnSet(f, T) + f[u]
    BY <2>4, <2>5, <2>6
  <2> QED
    BY <1>2, <2>1, <2>2, <2>7
<1> QED
  BY <1>1, <1>2

LEMMA LedgerStep ==
  ASSUME LeaseInv, LedgerInv, TokensInv, [RunsNext]_runVars
  PROVE  LedgerInv' /\ TokensInv'
<1>0. /\ active \subseteq Runs /\ released \subseteq Runs /\ active \cap released = {}
      /\ started \in [Runs -> Int] /\ expires \in [Runs -> Int] /\ now \in 0 .. MaxTime
      /\ debit \in [UsageEvents -> Months \cup {NoMonth}]
  BY LimitsAssumption DEF LeaseInv, Times, TokensInv
<1>1. started' \in [Runs -> Int] /\ expires' \in [Runs -> Int] /\ released' \subseteq Runs
  <2>1. LeaseInv'
    BY LeaseStep
  <2>2. \A t \in Times : t \in Int
    BY LimitsAssumption DEF Times
  <2> QED
    BY <2>1, <2>2 DEF LeaseInv
<1>2. Usage \in [Account -> Nat]
  BY <1>0, UsageTyped
<1>3. \A t \in Stamps : t \in 0 .. MaxTime /\ Month(t) \in Months /\ Month(t) # NoMonth
  <2>1. \A t \in Stamps : t \in 0 .. MaxTime
    BY <1>0, LimitsAssumption DEF Stamps, Times
  <2> QED
    BY <2>1, MonthBound
<1>4. ASSUME UNCHANGED debit PROVE Usage' = Usage /\ \A a : UsedIn(a)' = UsedIn(a)
  BY <1>4 DEF Usage, UsedIn
<1>5. ASSUME NEW book, Good(book, released', started', expires', Usage), UNCHANGED debit, Booked(book)
      PROVE  LedgerInv' /\ TokensInv'
  <2>1. PICK us, st, ex, rel : us = Usage /\ st = started' /\ ex = expires' /\ rel = released'
    OBVIOUS
  <2>2. Ledger' = [booked |-> book.booked, compute |-> book.compute]
    BY <1>5 DEF Ledger, Booked
  <2>3. Good(book, rel, st, ex, us)
    BY <1>5, <2>1
  <2>4. Good([booked |-> book.booked, compute |-> book.compute], rel, st, ex, us)
    BY <2>3 DEF Good
  <2>5. LedgerInv'
    BY <1>4, <1>5, <2>1, <2>2, <2>4, Zenon DEF LedgerInv
  <2>6. TokensInv'
    BY <1>4, <1>5 DEF TokensInv, Booked
  <2> QED
    BY <2>5, <2>6
<1>6. CASE LedgerSame
  <2>1. Good(Ledger, released', started', expires', Usage)
    BY <1>6 DEF LedgerInv, LedgerSame
  <2>2. Booked(Ledger) /\ UNCHANGED debit
    BY <1>6 DEF Ledger, Booked, LedgerSame
  <2> QED
    BY <1>5, <2>1, <2>2
<1>7. CASE LedgerReconciled
  <2>1. PICK book \in Reconciled : Booked(book)
    BY <1>7 DEF LedgerReconciled
  <2>2. Good(book, released \cup Expired, started, expires, Usage)
    BY <1>2, ReconciledGood
  <2>3. PICK E, st, ex : E = released \cup Expired /\ st = started' /\ ex = expires'
    OBVIOUS
  <2>4. /\ E \subseteq Runs /\ st \in [Runs -> Int] /\ ex \in [Runs -> Int]
        /\ \A r \in E : st[r] = started[r] /\ ex[r] = expires[r]
    BY <1>0, <1>1, <1>7, <2>3 DEF LedgerReconciled
  <2>5. Good(book, E, st, ex, Usage)
    BY <1>0, <1>2, <2>2, <2>3, <2>4, GoodAgrees
  <2> QED
    BY <1>5, <1>7, <2>1, <2>3, <2>5 DEF LedgerReconciled
<1>8. ASSUME NEW r \in Runs, NEW t \in Stamps, Finish(r, t) PROVE LedgerInv' /\ TokensInv'
  <2>1. /\ r \in active /\ r \notin released /\ Booked(Settled(Ledger, r, t))
        /\ released' = released \cup {r} /\ started' = started
        /\ expires' = [expires EXCEPT ![r] = t] /\ UNCHANGED debit
    BY <1>0, <1>8 DEF Finish
  <2>2. PICK ex : ex = expires'
    OBVIOUS
  <2>3. /\ ex \in [Runs -> Int] /\ ex[r] = t /\ ex[r] \in 0 .. MaxTime
        /\ \A q \in released : ex[q] = expires[q]
    BY <1>0, <1>1, <1>3, <2>1, <2>2
  <2>4. Good(Ledger, released, started, ex, Usage)
    BY <1>0, <1>2, <2>3, GoodAgrees DEF LedgerInv
  <2>5. Good(Book(Ledger, <<Home[r], Month(ex[r])>>, Metered(started[r], ex[r])),
             released \cup {r}, started, ex, Usage)
    BY <1>0, <1>2, <2>1, <2>3, <2>4, SettleGood
  <2>6. Good(Settled(Ledger, r, t), released', started', expires', Usage)
    BY <2>1, <2>2, <2>3, <2>5 DEF Settled
  <2> QED
    BY <1>5, <2>1, <2>6
<1>9. ASSUME NEW u \in UsageEvents, NEW t \in Stamps, Debit(u, Month(t)) PROVE LedgerInv' /\ TokensInv'
  <2>1. PICK m \in Months : m = Month(t) /\ m # NoMonth
    BY <1>3
  <2>2. PICK k \in Account : k = <<Home[UsageRun[u]], m>>
    BY HomeAssumption, UsageAssumption DEF Account
  <2>3. /\ booked' = booked \cup {k} /\ UNCHANGED <<released, started, expires>>
        /\ \/ debit[u] # NoMonth /\ UNCHANGED <<debit, tokens, compute>>
           \/ /\ debit[u] = NoMonth /\ tokens[k] + UsageTokens[u] <= MonthlyTokens
              /\ compute[k] + UsageCompute[u] <= MonthlyCompute
              /\ debit'   = [debit EXCEPT ![u] = m]
              /\ tokens'  = [tokens  EXCEPT ![k] = @ + UsageTokens[u]]
              /\ compute' = [compute EXCEPT ![k] = @ + UsageCompute[u]]
    BY <1>9, <2>1, <2>2 DEF Debit, reservations
  <2>4. CASE debit[u] # NoMonth
    <3> DEFINE book == [booked |-> booked \cup {k}, compute |-> compute]
    <3>1. UNCHANGED <<debit, tokens, compute>>
      BY <2>3, <2>4
    <3>2. Booked(book)
      BY <2>3, <3>1 DEF Booked
    <3>3. Good(Ledger, released', started', expires', Usage)
      BY <2>3 DEF LedgerInv
    <3>4. Good(book, released', started', expires', Usage)
      BY <3>3 DEF Good, Ledger
    <3> HIDE DEF book
    <3> QED
      BY <1>5, <3>1, <3>2, <3>4
  <2>5. CASE debit[u] = NoMonth
    <3>0. /\ tokens[k] + UsageTokens[u] <= MonthlyTokens
          /\ compute[k] + UsageCompute[u] <= MonthlyCompute
          /\ debit'   = [debit EXCEPT ![u] = m]
          /\ tokens'  = [tokens  EXCEPT ![k] = tokens[k] + UsageTokens[u]]
          /\ compute' = [compute EXCEPT ![k] = compute[k] + UsageCompute[u]]
      BY <2>3, <2>5
    <3>1. PICK ut, uc \in Nat : ut = UsageTokens[u] /\ uc = UsageCompute[u]
      BY UsageAssumption
    <3>2. /\ tokens \in [Account -> Nat] /\ compute \in [Account -> Nat] /\ booked \subseteq Account
          /\ MonthlyTokens \in Nat /\ MonthlyCompute \in Nat
      BY LimitsAssumption DEF TokensInv, LedgerInv, Good, Ledger
    <3>3. /\ tokens' \in [Account -> Nat] /\ compute' \in [Account -> Nat] /\ booked' \subseteq Account
          /\ debit' \in [UsageEvents -> Months \cup {NoMonth}]
      BY <1>0, <2>3, <3>0, <3>1, <3>2
    <3>5. ASSUME NEW a \in Account
          PROVE  /\ SumFunctionOnSet(UsageTokens, UsedIn(a)') =
                      IF a = k THEN SumFunctionOnSet(UsageTokens, UsedIn(a)) + ut
                               ELSE SumFunctionOnSet(UsageTokens, UsedIn(a))
                 /\ SumFunctionOnSet(UsageCompute, UsedIn(a)') =
                      IF a = k THEN SumFunctionOnSet(UsageCompute, UsedIn(a)) + uc
                               ELSE SumFunctionOnSet(UsageCompute, UsedIn(a))
      <4>1. UsageTokens \in [UsageEvents -> Nat] /\ UsageCompute \in [UsageEvents -> Nat]
        BY UsageAssumption
      <4>2. ASSUME NEW f \in [UsageEvents -> Nat]
            PROVE  SumFunctionOnSet(f, UsedIn(a)') =
                     IF a = k THEN SumFunctionOnSet(f, UsedIn(a)) + f[u]
                              ELSE SumFunctionOnSet(f, UsedIn(a))
        <5>1. /\ debit \in [UsageEvents -> Months \cup {NoMonth}] /\ debit[u] = NoMonth
              /\ debit' = [debit EXCEPT ![u] = m] /\ m # NoMonth
          BY <1>0, <2>1, <2>5, <3>0
        <5>2. SumFunctionOnSet(f, UsedIn(a)') =
                IF a = <<Home[UsageRun[u]], m>> THEN SumFunctionOnSet(f, UsedIn(a)) + f[u]
                                                ELSE SumFunctionOnSet(f, UsedIn(a))
          BY ZenonT(40), <5>1, UsedMore
        <5> QED
          BY <2>2, <5>2
      <4> QED
        BY <3>1, <4>1, <4>2
    <3>6. TokensInv'
      <4>1. ASSUME NEW a \in Account
            PROVE  /\ tokens'[a] = SumFunctionOnSet(UsageTokens, UsedIn(a)')
                   /\ tokens'[a] <= MonthlyTokens
        <5>1. tokens[a] = SumFunctionOnSet(UsageTokens, UsedIn(a)) /\ tokens[a] <= MonthlyTokens
          BY DEF TokensInv
        <5> QED
          BY <3>0, <3>1, <3>2, <3>5, <5>1
      <4> QED
        BY <3>3, <4>1 DEF TokensInv
    <3>7. PICK us, new \in [Account -> Nat] : us = Usage /\ new = Usage'
      <4>1. Usage' \in [Account -> Nat]
        <5>1. ASSUME NEW a \in Account PROVE SumFunctionOnSet(UsageCompute, UsedIn(a)') \in Nat
          <6>1. SumFunctionOnSet(UsageCompute, UsedIn(a)) \in Nat
            BY <1>0, UsageTyped
          <6> QED
            BY <3>5, <6>1
        <5> QED
          BY <5>1 DEF Usage
      <4> QED
        BY <1>2, <4>1
    <3>8. \A a \in Account : new[a] = IF a = k THEN us[a] + uc ELSE us[a]
      BY <3>5, <3>7 DEF Usage
    <3>9. PICK st, ex \in [Runs -> Int] : st = started /\ ex = expires
      BY <1>0
    <3>10. PICK E : E = released /\ E \subseteq Runs
      BY <1>0
    <3>11. PICK old : old = Ledger
      OBVIOUS
    <3> DEFINE book == [booked |-> booked \cup {k}, compute |-> compute']
    <3>12. ASSUME NEW a \in Account
           PROVE  /\ book.compute[a] <= Due(a, E, st, ex, new)
                  /\ Due(a, E, st, ex, new) <= MonthlyCompute
                       => book.compute[a] = Due(a, E, st, ex, new)
                  /\ book.compute[a] <= Max({MonthlyCompute, RunWall})
                  /\ a \notin book.booked => Due(a, E, st, ex, new) = 0
      <4>1. Good(old, E, st, ex, us)
        BY <3>7, <3>9, <3>10, <3>11 DEF LedgerInv
      <4>0. us[a] \in Nat
        BY <3>7
      <4>2. PICK d \in Nat : d = Due(a, E, st, ex, us)
        BY <3>9, <3>10, <4>0, DueNat
      <4>3. PICK c \in Nat : c = compute[a] /\ c = old.compute[a]
        BY <3>2, <3>11 DEF Ledger
      <4>4. PICK top \in Int : top = Max({MonthlyCompute, RunWall}) /\ MonthlyCompute <= top
        <5>1. MonthlyCompute \in Int /\ RunWall \in Int
          BY LimitsAssumption
        <5> QED
          BY <5>1, MaxOfTwo
      <4>5. /\ c <= d /\ (d <= MonthlyCompute => c = d) /\ c <= top
            /\ a \notin booked => d = 0
        BY <3>11, <4>1, <4>2, <4>3, <4>4 DEF Good, Ledger
      <4>6. PICK s \in Nat : s = SumFunctionOnSet(Time(st, ex), EndedIn(a, E, ex))
        BY <3>9, <3>10, <4>0, DueNat
      <4>7. d = s + us[a] /\ Due(a, E, st, ex, new) = s + new[a]
        BY <4>2, <4>6 DEF Due
      <4>8. CASE a # k
        <5>1. Due(a, E, st, ex, new) = d
          BY <3>8, <4>7, <4>8
        <5>2. book.compute[a] = c /\ (a \notin book.booked => a \notin booked)
          BY <3>0, <3>2, <4>3, <4>8
        <5> HIDE DEF book
        <5> QED
          BY <4>4, <4>5, <5>1, <5>2
      <4>9. CASE a = k
        <5>1. Due(a, E, st, ex, new) = d + uc
          BY <3>7, <3>8, <4>7, <4>9
        <5>2. book.compute[a] = c + uc /\ a \in book.booked /\ c + uc <= MonthlyCompute
          BY <3>0, <3>1, <3>2, <4>3, <4>9
        <5> HIDE DEF book
        <5> QED
          BY <3>2, <4>4, <4>5, <5>1, <5>2
      <4> QED
        BY <4>8, <4>9
    <3>13. book.compute \in [Account -> Nat] /\ book.booked \subseteq Account
      BY <2>3, <3>3
    <3>14. Ledger' = book
      BY <2>3 DEF Ledger
    <3> HIDE DEF book
    <3>15. Good(book, E, st, ex, new)
      BY <3>12, <3>13 DEF Good
    <3>16. LedgerInv'
      BY <2>3, <3>7, <3>9, <3>10, <3>14, <3>15, Zenon DEF LedgerInv
    <3> QED
      BY <3>6, <3>16
  <2> QED
    BY <2>4, <2>5
<1> QED
  BY <1>6, <1>7, <1>8, <1>9, LedgerSteps

\* The events of a run are counted one by one.
LEMMA EventsStep ==
  ASSUME EventsInv, [RunsNext]_runVars
  PROVE  EventsInv'
<1>0. /\ events \in [Runs -> SUBSET Seqs] /\ count \in [Runs -> Nat] /\ steps \in [Runs -> Nat]
      /\ \A r \in Runs : IsFiniteSet(events[r])
  BY DEF EventsInv
<1>1. ASSUME UNCHANGED recorded PROVE EventsInv'
  BY <1>1 DEF EventsInv, EventsCounted, recorded
<1>2. ASSUME NEW r \in Runs, NEW q \in Seqs, RecordEvent(r, q) PROVE EventsInv'
  <2>1. PICK n \in {0, 1} : n = Step(q) /\ (n = 1 <=> q \in StepSeqs)
    BY DEF Step
  <2>2. /\ q \notin events[r] /\ count[r] < RunMaxEvents /\ steps[r] + n <= RunMaxSteps
        /\ events' = [events EXCEPT ![r] = events[r] \cup {q}]
        /\ count' = [count EXCEPT ![r] = count[r] + 1]
        /\ steps' = [steps EXCEPT ![r] = steps[r] + n]
    BY <1>2, <2>1 DEF RecordEvent
  <2>3. events' \in [Runs -> SUBSET Seqs] /\ count' \in [Runs -> Nat] /\ steps' \in [Runs -> Nat]
    BY <1>0, <2>2
  <2>4. ASSUME NEW x \in Runs
        PROVE  /\ IsFiniteSet(events'[x])
               /\ count'[x] = Cardinality(events'[x]) /\ count'[x] <= RunMaxEvents
               /\ steps'[x] = Cardinality(events'[x] \cap StepSeqs) /\ steps'[x] <= RunMaxSteps
    <3>1. /\ count[x] = Cardinality(events[x]) /\ count[x] <= RunMaxEvents
          /\ steps[x] = Cardinality(events[x] \cap StepSeqs) /\ steps[x] <= RunMaxSteps
      BY DEF EventsInv, EventsCounted
    <3>2. CASE x # r
      BY <1>0, <2>2, <3>1, <3>2
    <3>3. CASE x = r
      <4>1. PICK E : E = events[x]
        OBVIOUS
      <4>2. PICK D : D = E \cap StepSeqs
        OBVIOUS
      <4>3. IsFiniteSet(E) /\ q \notin E /\ IsFiniteSet(D) /\ q \notin D
        <5>1. IsFiniteSet(E)
          BY <1>0, <4>1
        <5>2. D \subseteq E
          BY <4>2
        <5> QED
          BY <2>2, <3>3, <4>1, <5>1, <5>2, FS_Subset
      <4>4. /\ IsFiniteSet(E \cup {q}) /\ Cardinality(E \cup {q}) = Cardinality(E) + 1
            /\ Cardinality(D \cup {q}) = Cardinality(D) + 1
        BY <4>3, FS_AddElement
      <4>5. events'[x] = E \cup {q} /\ count'[x] = count[x] + 1 /\ steps'[x] = steps[x] + n
        BY <1>0, <2>2, <3>3, <4>1
      <4>6. (E \cup {q}) \cap StepSeqs = IF n = 1 THEN D \cup {q} ELSE D
        BY <2>1, <4>2
      <4>7. Cardinality((E \cup {q}) \cap StepSeqs) = Cardinality(D) + n
        <5>1. Cardinality(D) \in Nat
          BY <4>3, FS_CardinalityType
        <5>2. CASE n = 1
          BY <4>4, <4>6, <5>2
        <5>3. CASE n = 0
          <6>1. (E \cup {q}) \cap StepSeqs = D
            BY <4>6, <5>3
          <6>2. Cardinality(D) + n = Cardinality(D)
            BY <5>1, <5>3
          <6> QED
            BY <6>1, <6>2
        <5> QED
          BY <5>2, <5>3
      <4>8. count[x] \in Nat /\ count[x] + 1 <= RunMaxEvents
        BY <1>0, <2>2, <3>3, LimitsAssumption
      <4> QED
        BY <2>2, <3>1, <3>3, <4>1, <4>2, <4>4, <4>5, <4>7, <4>8
    <3> QED
      BY <3>2, <3>3
  <2> QED
    BY <2>3, <2>4 DEF EventsInv, EventsCounted
<1>3. \/ UNCHANGED recorded
      \/ \E r \in Runs, q \in Seqs : RecordEvent(r, q)
  BY DEF RunsNext, Tick, ReaperLists, ReaperFails, ReapOwner, CreateRun, AdmitRun, CreateTerminalRun,
     Heartbeat, CompleteRun, UpdateRunCAS, Finish, RecordUsage, ChargeUsage, Debit, runVars
<1> QED
  BY <1>1, <1>2, <1>3

LEMMA MeteredStart == RunsInit => MeteredInv
<1> SUFFICES ASSUME RunsInit PROVE MeteredInv
  OBVIOUS
<1> USE LimitsAssumption DEF RunsInit
<1>0. debit \in [UsageEvents -> Months \cup {NoMonth}] /\ \A a : UsedIn(a) = {}
  BY DEF UsedIn
<1>1. Usage = [a \in Account |-> 0]
  BY <1>0, SumEmpty DEF Usage
<1>2. ASSUME NEW a \in Account, NEW st, NEW ex PROVE Due(a, {}, st, ex, Usage) = 0
  <2>1. EndedIn(a, {}, ex) = {}
    BY DEF EndedIn
  <2>2. SumFunctionOnSet(Time(st, ex), {}) = 0
    BY SumEmpty
  <2> QED
    BY <1>1, <2>1, <2>2 DEF Due
<1>3. 0 <= Max({MonthlyCompute, RunWall})
  <2>1. MonthlyCompute \in Int /\ RunWall \in Int
    OBVIOUS
  <2> QED
    BY <2>1, MaxOfTwo
<1>4. LedgerInv
  BY <1>2, <1>3 DEF LedgerInv, Good, Ledger
<1>5. TokensInv
  BY <1>0, SumEmpty DEF TokensInv
<1>6. EventsInv
  <2>1. {} \cap StepSeqs = {}
    OBVIOUS
  <2> QED
    BY <2>1, FS_EmptySet DEF EventsInv, EventsCounted
<1> QED
  BY <1>4, <1>5, <1>6, LeaseStart DEF MeteredInv

LEMMA MeteredStep == MeteredInv /\ [RunsNext]_runVars => MeteredInv'
<1> SUFFICES ASSUME MeteredInv, [RunsNext]_runVars PROVE MeteredInv'
  OBVIOUS
<1>1. LeaseInv' /\ LedgerInv' /\ TokensInv' /\ EventsInv'
  BY LeaseStep, LedgerStep, EventsStep DEF MeteredInv
<1>2. row' \subseteq Runs
  BY DEF MeteredInv, RunsNext, Tick, ReaperLists, ReaperFails, ReapOwner, CreateRun, AdmitRun,
     CreateTerminalRun, Heartbeat, CompleteRun, UpdateRunCAS, Finish, RecordEvent, RecordUsage,
     ChargeUsage, Debit, runVars
<1>3. listed' \subseteq Workspaces
  <2>1. \A r \in Expired : Home[r] \in Workspaces
    BY HomeAssumption DEF Expired, MeteredInv, LeaseInv
  <2> QED
    BY <2>1 DEF MeteredInv, RunsNext, Tick, ReaperLists, ReaperFails, ReapOwner, CreateRun, AdmitRun,
       CreateTerminalRun, Heartbeat, CompleteRun, UpdateRunCAS, Finish, RecordEvent, RecordUsage,
       ChargeUsage, Debit, runVars
<1> QED
  BY <1>1, <1>2, <1>3 DEF MeteredInv

LEMMA MeteredRuns == MeteredInv => RunsInv
<1> SUFFICES ASSUME MeteredInv PROVE RunsInv
  OBVIOUS
<1>0. LeaseInv /\ LedgerInv /\ TokensInv /\ EventsInv
  BY DEF MeteredInv
<1>1. RunsTypeOK
  BY <1>0 DEF MeteredInv, LeaseInv, LedgerInv, Good, Ledger, TokensInv, EventsInv, RunsTypeOK
<1>2. ASSUME NEW a \in Account
      PROVE  LET due == SumFunction([r \in EndedIn(a, released, expires) |-> Metered(started[r], expires[r])])
                        + SumFunctionOnSet(UsageCompute, UsedIn(a))
             IN /\ compute[a] <= due
                /\ due <= MonthlyCompute => compute[a] = due
  <2> DEFINE T == EndedIn(a, released, expires)
             f == [r \in T |-> Metered(started[r], expires[r])]
  <2>1. /\ started \in [Runs -> Int] /\ expires \in [Runs -> Int] /\ released \subseteq Runs
    BY <1>0, LimitsAssumption DEF LeaseInv, Times
  <2>2. IsFiniteSet(T) /\ T \subseteq Runs
    BY <2>1, EndedFinite
  <2>3. \A r \in T : /\ Time(started, expires)[r] \in Int
                     /\ Time(started, expires)[r] = f[r]
    BY <2>1, <2>2, TimeNat
  <2>4. DOMAIN f = T
    OBVIOUS
  <2> HIDE DEF T, f
  <2>5. SumFunctionOnSet(Time(started, expires), T) = SumFunctionOnSet(f, T)
    BY <2>2, <2>3, SumAgree
  <2>6. SumFunction(f) = SumFunctionOnSet(f, T)
    BY <2>4 DEF SumFunction
  <2>7. Due(a, released, started, expires, Usage) = SumFunction(f) + SumFunctionOnSet(UsageCompute, UsedIn(a))
    BY <2>5, <2>6 DEF Due, Usage, T
  <2>8. /\ compute[a] <= Due(a, released, started, expires, Usage)
        /\ Due(a, released, started, expires, Usage) <= MonthlyCompute
             => compute[a] = Due(a, released, started, expires, Usage)
    BY <1>0 DEF LedgerInv, Good, Ledger
  <2> QED
    BY <2>7, <2>8 DEF f, T
<1>3. LedgerAccounts
  BY <1>0, <1>2 DEF LedgerAccounts, TokensInv, EndedIn, UsedIn
<1>4. LedgerCapped
  BY <1>0 DEF LedgerCapped, TokensInv, LedgerInv, Good, Ledger
<1> QED
  BY <1>0, <1>1, <1>3, <1>4 DEF RunsInv, LeaseInv, EventsInv

\* workbenchusage/manager.go: for any runs, leases, limits and usage, the ledgers account
\* for every run that ended and every event once, up to the cap, in whatever order
\* the expired leases are settled; the event budget counts what is stored.
THEOREM RunsCorrect == RunsSpec => []RunsInv
  BY MeteredStart, MeteredStep, MeteredRuns, PTL DEF RunsSpec

-----------------------------------------------------------------------------
(***************************************************************************)
(* Artifacts.  Handlers of one artifact share its reservation: while it is *)
(* not released nobody undoes anything, and once it is, somebody who will  *)
(* undo what is there is on the way.                                       *)
(***************************************************************************)
Works(a, L) == \E s \in Stores : holds[s] = a /\ step[s] \in L

Shared(a) ==
  /\ quota[a] = "none" => a \notin meta \cup objects
  /\ quota[a] # "released" => ~ Works(a, {"unmeta", "unmade", "unstore"})
  /\ quota[a] \in {"reserved", "committed"} =>
       \A s \in Stores : holds[s] = a =>
         /\ step[s] \in {"insert", "commit", "confirm"} => a \in objects
         /\ step[s] \in {"commit", "confirm"} => a \in meta
  /\ quota[a] = "committed" => a \in meta \cap objects
  /\ quota[a] = "reserved" => Works(a, {"upload", "insert", "commit", "confirm", "release"})
  /\ quota[a] \in {"reserved", "released"} =>
       /\ a \in meta => Works(a, {"commit", "unmeta"})
       /\ a \in objects => Works(a, {"insert", "commit", "unmeta", "unmade", "unstore"})

SharedInv == faults = 0 => \A a \in Artifacts : Shared(a)

\* What is stored was reserved once.
Known == \A a \in meta : quota[a] # "none"

StoredInv == ArtifactsTypeOK /\ StorageHolds /\ SharedInv /\ Known

\* The artifacts of S that count, and what they weigh.
Live(S) == {a \in S : quota[a] \notin {"none", "released"}}
SameRun(a) == {b \in Ids : ArtifactRun[b] = ArtifactRun[a]}

LEMMA ArtifactNumbers ==
  /\ Artifacts # {} /\ Artifacts \cap Remote = {} /\ IsFiniteSet(Ids)
  /\ Size \in [Ids -> Nat] /\ \A a \in Ids : Size[a] \in Nat
  /\ ArtifactTotal \in Nat /\ ArtifactSingle \in Nat /\ StorageBytes \in Nat /\ MaxFaults \in Nat
  BY ArtifactsAssumption DEF Ids

\* Fewer artifacts, no more bytes.
LEMMA FewerBytes ==
  ASSUME NEW R, R \subseteq Ids, NEW T, T \subseteq R
  PROVE  /\ SumFunctionOnSet(Size, T) \in Int /\ SumFunctionOnSet(Size, R) \in Int
         /\ SumFunctionOnSet(Size, T) <= SumFunctionOnSet(Size, R)
<1> USE ArtifactNumbers
<1> DEFINE D == R \ T
           zero == [a \in D |-> 0]
<1>1. IsFiniteSet(R) /\ IsFiniteSet(T) /\ IsFiniteSet(D)
  <2>1. IsFiniteSet(R)
    BY FS_Subset
  <2> QED
    BY <2>1, FS_Subset
<1>2. T \cap D = {} /\ T \cup D = R
  OBVIOUS
<1>3. \A a \in R : Size[a] \in Int
  OBVIOUS
<1>4. \A a \in D : zero[a] = 0 /\ zero[a] \in Int /\ Size[a] \in Int /\ zero[a] <= Size[a]
  OBVIOUS
<1> HIDE DEF D, zero
<1>5. SumFunctionOnSet(zero, D) = 0
  BY <1>1, <1>4, SumZeros
<1>6. SumFunctionOnSet(zero, D) <= SumFunctionOnSet(Size, D)
  BY <1>1, <1>4, SumMonotone
<1>7. SumFunctionOnSet(Size, T \cup D) = SumFunctionOnSet(Size, T) + SumFunctionOnSet(Size, D)
  BY <1>1, <1>2, <1>3, SumUnion
<1>8. /\ SumFunctionOnSet(Size, T) \in Int /\ SumFunctionOnSet(Size, D) \in Int
      /\ SumFunctionOnSet(Size, R) \in Int
  BY <1>1, <1>2, <1>3, SumInt
<1>9. PICK t, d, r \in Int : /\ t = SumFunctionOnSet(Size, T) /\ d = SumFunctionOnSet(Size, D)
                             /\ r = SumFunctionOnSet(Size, R)
  BY <1>8
<1>10. 0 <= d
  BY <1>5, <1>6, <1>9
<1>11. r = t + d
  BY <1>2, <1>7, <1>9
<1>12. t <= r
  BY <1>10, <1>11
<1> QED
  BY <1>9, <1>12

\* Nothing more is reserved.
LEMMA NoMoreBytes ==
  ASSUME StorageHolds,
         \A a \in Ids : quota[a] \in {"none", "released"} => quota'[a] \in {"none", "released"}
  PROVE  StorageHolds'
<1>1. ASSUME NEW S, S \subseteq Ids
      PROVE  LET new == {a \in S : quota'[a] \notin {"none", "released"}} IN
             /\ SumFunctionOnSet(Size, new) \in Int /\ SumFunctionOnSet(Size, Live(S)) \in Int
             /\ SumFunctionOnSet(Size, new) <= SumFunctionOnSet(Size, Live(S))
  <2> DEFINE new == {a \in S : quota'[a] \notin {"none", "released"}}
  <2>1. new \subseteq Live(S) /\ Live(S) \subseteq Ids
    BY <1>1 DEF Live
  <2> HIDE DEF new
  <2>2. /\ SumFunctionOnSet(Size, new) \in Int /\ SumFunctionOnSet(Size, Live(S)) \in Int
        /\ SumFunctionOnSet(Size, new) <= SumFunctionOnSet(Size, Live(S))
    BY <2>1, FewerBytes
  <2> QED
    BY <2>2 DEF new
<1>2. Bytes(Ids)' <= StorageBytes
  <2>1. SumFunctionOnSet(Size, Live(Ids)) <= StorageBytes
    BY DEF StorageHolds, Bytes, Live
  <2> QED
    BY <1>1, <2>1, ArtifactNumbers DEF Bytes
<1>3. ASSUME NEW a \in Ids PROVE Bytes(SameRun(a))' <= ArtifactTotal
  <2>1. SumFunctionOnSet(Size, Live(SameRun(a))) <= ArtifactTotal
    BY DEF StorageHolds, Bytes, Live, SameRun
  <2>2. SameRun(a) \subseteq Ids
    BY DEF SameRun
  <2>3. SameRun(a)' = SameRun(a)
    BY DEF SameRun
  <2> QED
    BY <1>1, <2>1, <2>2, <2>3, ArtifactNumbers DEF Bytes
<1> QED
  BY <1>2, <1>3 DEF StorageHolds, SameRun

\* One artifact more, for which there was room.
LEMMA OneMore ==
  ASSUME StorageHolds, NEW a \in Ids, quota \in [Ids -> Quotas], quota[a] = "none", Fits(a),
         quota' = [quota EXCEPT ![a] = "reserved"]
  PROVE  StorageHolds'
<1> USE ArtifactNumbers
<1>0. Size[a] \in Nat /\ \A b \in Ids : quota'[b] = IF b = a THEN "reserved" ELSE quota[b]
  OBVIOUS
<1>1. ASSUME NEW S, S \subseteq Ids, a \in S
      PROVE  SumFunctionOnSet(Size, {b \in S : quota'[b] \notin {"none", "released"}})
               = Size[a] + SumFunctionOnSet(Size, Live(S))
  <2>1. {b \in S : quota'[b] \notin {"none", "released"}} = Live(S) \cup {a}
    BY <1>0, <1>1 DEF Live
  <2>2. IsFiniteSet(Live(S)) /\ a \notin Live(S) /\ \A b \in Live(S) : Size[b] \in Int
    <3>1. Live(S) \subseteq Ids
      BY <1>1 DEF Live
    <3> QED
      BY <3>1, FS_Subset DEF Live
  <2>3. SumFunctionOnSet(Size, Live(S) \cup {a}) = Size[a] + SumFunctionOnSet(Size, Live(S))
    <3>1. PICK L : L = Live(S)
      OBVIOUS
    <3>2. Size[a] \in Int
      BY <1>0
    <3>3. IsFiniteSet(L) /\ a \notin L /\ \A b \in L : Size[b] \in Int
      BY <2>2, <3>1
    <3>4. SumFunctionOnSet(Size, L \cup {a}) = Size[a] + SumFunctionOnSet(Size, L)
      BY <3>2, <3>3, SumAdd
    <3> QED
      BY <3>1, <3>4
  <2> QED
    BY <2>1, <2>3
<1>2. ASSUME NEW S, S \subseteq Ids, a \notin S
      PROVE  {b \in S : quota'[b] \notin {"none", "released"}} = Live(S)
  BY <1>0, <1>2 DEF Live
<1>3. ASSUME NEW S, S \subseteq Ids PROVE SumFunctionOnSet(Size, Live(S)) \in Int
  <2>1. Live(S) \subseteq Ids
    BY <1>3 DEF Live
  <2> QED
    BY <2>1, FewerBytes
<1>4. Bytes(Ids)' <= StorageBytes
  <2>1. SumFunctionOnSet(Size, Live(Ids)) + Size[a] <= StorageBytes
    BY DEF Fits, Bytes, Live
  <2>2. Bytes(Ids)' = Size[a] + SumFunctionOnSet(Size, Live(Ids))
    BY <1>1 DEF Bytes
  <2>3. SumFunctionOnSet(Size, Live(Ids)) \in Int
    BY <1>3
  <2> QED
    BY <1>0, <2>1, <2>2, <2>3
<1>5. ASSUME NEW b \in Ids PROVE Bytes(SameRun(b))' <= ArtifactTotal
  <2>0. SameRun(b) \subseteq Ids /\ SameRun(b)' = SameRun(b)
    BY DEF SameRun
  <2>1. SumFunctionOnSet(Size, Live(SameRun(b))) <= ArtifactTotal
    BY DEF StorageHolds, Bytes, Live, SameRun
  <2>2. CASE a \in SameRun(b)
    <3>1. SameRun(a) = SameRun(b)
      BY <2>2 DEF SameRun
    <3>2. SumFunctionOnSet(Size, Live(SameRun(b))) + Size[a] <= ArtifactTotal
      BY <3>1 DEF Fits, Bytes, Live, SameRun
    <3>3. Bytes(SameRun(b))' = Size[a] + SumFunctionOnSet(Size, Live(SameRun(b)))
      BY <1>1, <2>0, <2>2 DEF Bytes
    <3>4. SumFunctionOnSet(Size, Live(SameRun(b))) \in Int
      BY <1>3, <2>0
    <3> QED
      BY <1>0, <3>2, <3>3, <3>4
  <2>3. CASE a \notin SameRun(b)
    BY <1>2, <2>0, <2>1, <2>3 DEF Bytes
  <2> QED
    BY <2>2, <2>3
<1> QED
  BY <1>4, <1>5 DEF StorageHolds, SameRun

\* Nothing is stored at first.
LEMMA ArtifactsStart == ArtifactsInit => StoredInv
<1> SUFFICES ASSUME ArtifactsInit PROVE StoredInv
  OBVIOUS
<1> USE ArtifactNumbers DEF ArtifactsInit
<1>1. ArtifactsTypeOK
  BY DEF ArtifactsTypeOK, Quotas, Steps
<1>2. ASSUME NEW S, S \subseteq Ids PROVE Bytes(S) = 0
  <2>1. {a \in S : quota[a] \notin {"none", "released"}} = {}
    BY <1>2
  <2> QED
    BY <2>1, SumEmpty DEF Bytes
<1>3. StorageHolds
  BY <1>2 DEF StorageHolds
<1>4. SharedInv
  BY DEF SharedInv, Shared, Works, Ids
<1> QED
  BY <1>1, <1>3, <1>4 DEF StoredInv, Known

\* The artifacts a step does not concern.
LEMMA OthersShared ==
  ASSUME NEW a, Shared(a), quota'[a] = quota[a],
         a \in meta' <=> a \in meta, a \in objects' <=> a \in objects,
         \A s \in Stores : holds[s] = a \/ holds'[s] = a =>
            \/ step[s] \in {"idle", "reserve"} /\ step'[s] \in {"idle", "reserve"}
            \/ holds'[s] = holds[s] /\ step'[s] = step[s]
  PROVE  Shared(a)'
<1>1. ASSUME NEW L, L \cap {"idle", "reserve"} = {} PROVE Works(a, L)' <=> Works(a, L)
  BY <1>1 DEF Works
<1>2. /\ Works(a, {"unmeta", "unmade", "unstore"})' <=> Works(a, {"unmeta", "unmade", "unstore"})
      /\ Works(a, {"upload", "insert", "commit", "confirm", "release"})'
           <=> Works(a, {"upload", "insert", "commit", "confirm", "release"})
      /\ Works(a, {"commit", "unmeta"})' <=> Works(a, {"commit", "unmeta"})
      /\ Works(a, {"insert", "commit", "unmeta", "unmade", "unstore"})'
           <=> Works(a, {"insert", "commit", "unmeta", "unmade", "unstore"})
  BY <1>1
<1>3. quota'[a] \in {"reserved", "committed"} =>
       \A s \in Stores : holds'[s] = a =>
         /\ step'[s] \in {"insert", "commit", "confirm"} => a \in objects'
         /\ step'[s] \in {"commit", "confirm"} => a \in meta'
  BY DEF Shared
<1> QED
  BY <1>2, <1>3 DEF Shared

\* The artifact of a handler's step that takes it from one statement to another.
Moves(s, l) == /\ step' = [step EXCEPT ![s] = l] /\ UNCHANGED <<holds, faults>>

\* Every step keeps it.
LEMMA SharedStep ==
  ASSUME ArtifactsTypeOK, SharedInv, [ArtifactsNext]_artifactVars
  PROVE  SharedInv'
<1> USE ArtifactNumbers
<1>0. /\ quota \in [Ids -> Quotas] /\ step \in [Stores -> Steps] /\ holds \in [Stores -> Artifacts]
      /\ faults \in Nat /\ \A s \in Stores : holds[s] \in Ids
  BY DEF ArtifactsTypeOK, Ids
<1> SUFFICES ASSUME faults' = 0, NEW a \in Artifacts PROVE Shared(a)'
  BY DEF SharedInv
<1>a. ASSUME faults = 0 PROVE Shared(a)
  BY <1>a DEF SharedInv
<1>b. ASSUME NEW s \in Stores, StatementFails(s) \/ Crash(s) PROVE FALSE
  BY <1>0, <1>b DEF StatementFails, Crash
\* A handler's step, seen from its artifact and from the others.
<1>c. ASSUME NEW s \in Stores, NEW l, Moves(s, l), NEW h, h = holds[s],
             \A b \in Artifacts \ {h} : /\ quota'[b] = quota[b]
                                        /\ b \in meta' <=> b \in meta
                                        /\ b \in objects' <=> b \in objects,
             a = h => Shared(h)'
      PROVE  Shared(a)'
  <2>1. CASE a = h
    BY <1>c, <2>1
  <2>2. CASE a # h
    <3>1. \A t \in Stores : holds[t] = a \/ holds'[t] = a => holds'[t] = holds[t] /\ step'[t] = step[t]
      BY <1>0, <1>c, <2>2 DEF Moves
    <3>2. Shared(a) /\ quota'[a] = quota[a]
      BY <1>a, <1>c, <2>2 DEF Moves
    <3> QED
      BY <1>c, <2>2, <3>1, <3>2, OthersShared
  <2> QED
    BY <2>1, <2>2
<1>1. ASSUME NEW s \in Stores, NEW b \in Artifacts, StoreArtifact(s, b) PROVE Shared(a)'
  <2>1. Shared(a)
    BY <1>1, <1>a DEF StoreArtifact
  <2>2. \A t \in Stores : \/ step[t] \in {"idle", "reserve"} /\ step'[t] \in {"idle", "reserve"}
                          \/ holds'[t] = holds[t] /\ step'[t] = step[t]
    BY <1>0, <1>1 DEF StoreArtifact, Doing, Go
  <2> QED
    BY <1>1, <2>1, <2>2, OthersShared DEF StoreArtifact
<1>2. ASSUME NEW b \in Remote, RemoteQuota(b) PROVE Shared(a)'
  <2>1. Shared(a) /\ b # a /\ b \in Ids /\ a \in Ids
    BY <1>2, <1>a DEF RemoteQuota, Ids
  <2>2. quota'[a] = quota[a]
    BY <1>0, <1>2, <2>1 DEF RemoteQuota, Granted, ArtifactState
  <2> QED
    BY <1>2, <2>1, <2>2, OthersShared DEF RemoteQuota
<1>3. CASE UNCHANGED artifactVars
  <2>1. Shared(a)
    BY <1>3, <1>a DEF artifactVars
  <2> QED
    BY <1>3, <2>1, OthersShared DEF artifactVars
<1>d. ASSUME NEW s \in Stores, NEW l, Moves(s, l), l \in Steps
      PROVE  /\ step'[s] = l /\ \A t \in Stores : holds'[t] = holds[t] /\ (t # s => step'[t] = step[t])
             /\ faults = 0 /\ holds[s] \in Artifacts /\ holds[s] \in Ids /\ Shared(holds[s])
  BY <1>0, <1>d, <1>a DEF Moves, SharedInv
<1>4. ASSUME NEW s \in Stores, ReserveArtifact(s) PROVE Shared(a)'
  <2>1. PICK h : h = holds[s]
    OBVIOUS
  <2>2. CASE Granted(h) /\ Moves(s, "upload")
    <3>1. /\ step'[s] = "upload" /\ \A t \in Stores : holds'[t] = holds[t] /\ (t # s => step'[t] = step[t])
          /\ h \in Artifacts /\ h \in Ids /\ Shared(h)
      BY <1>d, <2>1, <2>2 DEF Steps
    <3>2. CASE UNCHANGED quota
      <4>1. Shared(h)'
        BY <1>4, <2>1, <3>1, <3>2 DEF Shared, Works, ReserveArtifact, Doing
      <4> QED
        BY <1>4, <1>c, <2>1, <2>2, <3>2, <4>1 DEF ReserveArtifact
    <3>3. CASE quota[h] = "none" /\ quota' = [quota EXCEPT ![h] = "reserved"]
      <4>1. quota'[h] = "reserved" /\ \A b \in Artifacts \ {h} : quota'[b] = quota[b]
        BY <1>0, <3>1, <3>3 DEF Ids
      <4>2. Shared(h)'
        BY <1>4, <2>1, <3>1, <3>3, <4>1 DEF Shared, Works, ReserveArtifact, Doing, ArtifactsTypeOK
      <4> QED
        BY <1>4, <1>c, <2>1, <2>2, <4>1, <4>2 DEF ReserveArtifact
    <3> QED
      BY <2>2, <3>2, <3>3 DEF Granted
  <2>3. CASE Moves(s, "idle") /\ UNCHANGED quota
    <3>1. \A t \in Stores : \/ step[t] \in {"idle", "reserve"} /\ step'[t] \in {"idle", "reserve"}
                            \/ holds'[t] = holds[t] /\ step'[t] = step[t]
      BY <1>0, <1>4, <2>3 DEF ReserveArtifact, Doing, Moves
    <3> QED
      BY <1>4, <1>a, <2>3, <3>1, OthersShared DEF ReserveArtifact, Moves
  <2> QED
    BY <1>4, <2>1, <2>2, <2>3 DEF ReserveArtifact, Go, Moves
<1>5. ASSUME NEW s \in Stores, Upload(s) PROVE Shared(a)'
  <2>1. PICK h : h = holds[s]
    OBVIOUS
  <2>2. /\ \/ Moves(s, "insert") /\ objects' = objects \cup {h}
           \/ Moves(s, "release") /\ UNCHANGED objects
        /\ UNCHANGED <<quota, meta>> /\ step[s] = "upload"
    BY <1>5, <2>1 DEF Upload, Go, Moves, Doing
  <2>3. /\ step'[s] \in {"insert", "release"}
        /\ \A t \in Stores : holds'[t] = holds[t] /\ (t # s => step'[t] = step[t])
        /\ h \in Artifacts /\ Shared(h) /\ quota[h] # "none"
    BY <1>d, <2>1, <2>2 DEF Steps, ArtifactsTypeOK
  <2>4. Shared(h)'
    BY <1>0, <2>1, <2>2, <2>3 DEF Shared, Works, Moves
  <2> QED
    BY <1>c, <2>1, <2>2, <2>4
<1>6. ASSUME NEW s \in Stores, InsertArtifact(s) PROVE Shared(a)'
  <2>1. PICK h : h = holds[s]
    OBVIOUS
  <2>2. /\ \/ Moves(s, "confirm") /\ h \in meta
           \/ Moves(s, "commit") /\ h \notin meta
        /\ meta' = meta \cup {h} /\ UNCHANGED <<quota, objects>> /\ step[s] = "insert"
    BY <1>6, <2>1 DEF InsertArtifact, Go, Moves, Doing
  <2>3. /\ step'[s] = (IF h \in meta THEN "confirm" ELSE "commit")
        /\ \A t \in Stores : holds'[t] = holds[t] /\ (t # s => step'[t] = step[t])
        /\ h \in Artifacts /\ Shared(h) /\ quota[h] # "none" /\ quota[h] \in Quotas
    BY <1>0, <1>d, <2>1, <2>2 DEF Steps, ArtifactsTypeOK
  <2>4. Shared(h)'
    BY <2>1, <2>2, <2>3 DEF Shared, Works
  <2> QED
    BY <1>c, <2>1, <2>2, <2>4
<1>7. ASSUME NEW s \in Stores, Commit(s) \/ Confirm(s) PROVE Shared(a)'
  <2>1. PICK h : h = holds[s]
    OBVIOUS
  <2>2. /\ \/ /\ Moves(s, "idle") /\ quota[h] \in {"reserved", "committed"}
              /\ quota' = [quota EXCEPT ![h] = "committed"]
           \/ /\ quota[h] \in {"none", "released"} /\ UNCHANGED quota
              /\ \/ Moves(s, "unmeta") /\ step[s] = "commit"
                 \/ Moves(s, "release") /\ step[s] = "confirm"
        /\ UNCHANGED <<meta, objects>> /\ step[s] \in {"commit", "confirm"}
    BY <1>7, <2>1 DEF Commit, Confirm, ArtifactState, Go, Moves, Doing
  <2>3. /\ step'[s] \in {"idle", "unmeta", "release"}
        /\ \A t \in Stores : holds'[t] = holds[t] /\ (t # s => step'[t] = step[t])
        /\ h \in Artifacts /\ h \in Ids /\ Shared(h) /\ quota[h] # "none"
    BY <1>d, <2>1, <2>2 DEF Steps, ArtifactsTypeOK
  <2>4. CASE quota[h] \in {"reserved", "committed"}
    <3>1. quota'[h] = "committed" /\ \A b \in Artifacts \ {h} : quota'[b] = quota[b]
      BY <1>0, <2>2, <2>3, <2>4 DEF Ids
    <3>2. step'[s] = "idle"
      BY <1>d, <2>2, <2>4 DEF Steps
    <3>3. Shared(h)'
      BY <2>1, <2>2, <2>3, <2>4, <3>1, <3>2 DEF Shared, Works
    <3> QED
      BY <1>c, <2>1, <2>2, <3>1, <3>3
  <2>5. CASE quota[h] = "released"
    <3>1. step[s] = "commit" => step'[s] = "unmeta"
      BY <1>0, <2>2, <2>5 DEF Moves
    <3>2. Shared(h)'
      BY <2>1, <2>2, <2>3, <2>5, <3>1 DEF Shared, Works
    <3> QED
      BY <1>c, <2>1, <2>2, <2>5, <3>2
  <2> QED
    BY <1>0, <2>3, <2>4, <2>5 DEF Quotas
<1>8. ASSUME NEW s \in Stores, Unmeta(s) PROVE Shared(a)'
  <2>1. PICK h : h = holds[s]
    OBVIOUS
  <2>2. /\ \/ Moves(s, "unstore") \/ Moves(s, "unmade")
        /\ meta' = meta \ {h} /\ UNCHANGED <<quota, objects>> /\ step[s] = "unmeta"
    BY <1>8, <2>1 DEF Unmeta, Go, Moves, Doing
  <2>3. /\ step'[s] \in {"unstore", "unmade"}
        /\ \A t \in Stores : holds'[t] = holds[t] /\ (t # s => step'[t] = step[t])
        /\ h \in Artifacts /\ Shared(h)
    BY <1>d, <2>1, <2>2 DEF Steps
  <2>4. quota[h] = "released"
    BY <2>1, <2>2, <2>3 DEF Shared, Works
  <2>5. Shared(h)'
    BY <2>1, <2>2, <2>3, <2>4 DEF Shared, Works
  <2> QED
    BY <1>c, <2>1, <2>2, <2>5
<1>9. ASSUME NEW s \in Stores, Unstore(s) PROVE Shared(a)'
  <2>1. PICK h : h = holds[s]
    OBVIOUS
  <2>2. /\ \/ Moves(s, "release") \/ Moves(s, "idle")
        /\ objects' = objects \ {h} /\ UNCHANGED <<quota, meta>> /\ step[s] \in {"unstore", "unmade"}
    BY <1>9, <2>1 DEF Unstore, Go, Moves, Doing
  <2>3. /\ step'[s] \in {"release", "idle"}
        /\ \A t \in Stores : holds'[t] = holds[t] /\ (t # s => step'[t] = step[t])
        /\ h \in Artifacts /\ Shared(h)
    BY <1>d, <2>1, <2>2 DEF Steps
  <2>4. quota[h] = "released"
    BY <2>1, <2>2, <2>3 DEF Shared, Works
  <2>5. Shared(h)'
    BY <2>1, <2>2, <2>3, <2>4 DEF Shared, Works
  <2> QED
    BY <1>c, <2>1, <2>2, <2>5
<1>10. ASSUME NEW s \in Stores, Release(s) PROVE Shared(a)'
  <2>1. PICK h : h = holds[s]
    OBVIOUS
  <2>2. /\ Moves(s, "idle") /\ UNCHANGED <<meta, objects>> /\ step[s] = "release"
        /\ quota' = [quota EXCEPT ![h] = IF quota[h] = "reserved" THEN "released" ELSE quota[h]]
    BY <1>10, <2>1 DEF Release, Go, Moves, Doing
  <2>3. /\ step'[s] = "idle"
        /\ \A t \in Stores : holds'[t] = holds[t] /\ (t # s => step'[t] = step[t])
        /\ h \in Artifacts /\ h \in Ids /\ Shared(h)
    BY <1>d, <2>1, <2>2 DEF Steps
  <2>4. /\ quota'[h] = (IF quota[h] = "reserved" THEN "released" ELSE quota[h])
        /\ \A b \in Artifacts \ {h} : quota'[b] = quota[b]
    BY <1>0, <2>2, <2>3 DEF Ids
  <2>5. Shared(h)'
    BY <2>1, <2>2, <2>3, <2>4 DEF Shared, Works
  <2> QED
    BY <1>c, <2>1, <2>2, <2>4, <2>5
<1> QED
  BY <1>b, <1>1, <1>2, <1>3, <1>4, <1>5, <1>6, <1>7, <1>8, <1>9, <1>10 DEF ArtifactsNext

LEMMA ArtifactsTyped ==
  ASSUME ArtifactsTypeOK, Known, [ArtifactsNext]_artifactVars
  PROVE  ArtifactsTypeOK' /\ Known'
<1> USE ArtifactNumbers
<1>0. /\ quota \in [Ids -> Quotas] /\ meta \subseteq Artifacts /\ objects \subseteq Artifacts
      /\ step \in [Stores -> Steps] /\ holds \in [Stores -> Artifacts] /\ faults \in 0 .. MaxFaults
      /\ \A s \in Stores : step[s] \notin {"idle", "reserve"} => quota[holds[s]] # "none"
      /\ \A s \in Stores : holds[s] \in Ids
  BY DEF ArtifactsTypeOK, Ids
\* A quota only moves on.
<1>1. \A b \in Ids : quota[b] # "none" => quota'[b] # "none"
  <2>1. ASSUME NEW b \in Ids, Granted(b) \/ \E to \in {"committed", "released"} : ArtifactState(b, to)
        PROVE  \A c \in Ids : quota[c] # "none" => quota'[c] # "none"
    BY <1>0, <2>1 DEF Granted, ArtifactState
  <2>2. ASSUME NEW s \in Stores, ReserveArtifact(s) PROVE \A c \in Ids : quota[c] # "none" => quota'[c] # "none"
    BY <1>0, <2>1, <2>2 DEF ReserveArtifact
  <2>3. ASSUME NEW s \in Stores, Commit(s) \/ Confirm(s)
        PROVE  \A c \in Ids : quota[c] # "none" => quota'[c] # "none"
    BY <1>0, <2>3 DEF Commit, Confirm, ArtifactState
  <2>4. ASSUME NEW s \in Stores, Release(s) PROVE \A c \in Ids : quota[c] # "none" => quota'[c] # "none"
    BY <1>0, <2>4 DEF Release
  <2>5. ASSUME NEW c \in Remote, RemoteQuota(c) PROVE \A b \in Ids : quota[b] # "none" => quota'[b] # "none"
    BY <2>1, <2>5 DEF RemoteQuota, Ids
  <2> QED
    BY <2>2, <2>3, <2>4, <2>5 DEF ArtifactsNext, StoreArtifact, Upload, InsertArtifact, Unmeta, Unstore,
       StatementFails, Crash, artifactVars
<1>2. quota' \in [Ids -> Quotas]
  <2>1. ASSUME NEW b \in Ids, NEW q \in Quotas, quota' = [quota EXCEPT ![b] = q] PROVE quota' \in [Ids -> Quotas]
    BY <1>0, <2>1
  <2>2. {"reserved", "committed", "released"} \subseteq Quotas
    BY DEF Quotas
  <2>3. ASSUME NEW b \in Ids, Granted(b) \/ \E to \in {"committed", "released"} : ArtifactState(b, to)
        PROVE  quota' \in [Ids -> Quotas]
    BY <1>0, <2>1, <2>2, <2>3 DEF Granted, ArtifactState
  <2>4. ASSUME NEW s \in Stores, ReserveArtifact(s) PROVE quota' \in [Ids -> Quotas]
    BY <1>0, <2>3, <2>4 DEF ReserveArtifact
  <2>5. ASSUME NEW s \in Stores, Commit(s) \/ Confirm(s) PROVE quota' \in [Ids -> Quotas]
    BY <1>0, <2>3, <2>5 DEF Commit, Confirm
  <2>6. ASSUME NEW s \in Stores, Release(s) PROVE quota' \in [Ids -> Quotas]
    BY <1>0, <2>2, <2>6 DEF Release
  <2>7. ASSUME NEW c \in Remote, RemoteQuota(c) PROVE quota' \in [Ids -> Quotas]
    BY <1>0, <2>3, <2>7 DEF RemoteQuota, Ids
  <2>8. CASE UNCHANGED quota
    BY <1>0, <2>8
  <2> QED
    BY <2>4, <2>5, <2>6, <2>7, <2>8 DEF ArtifactsNext, StoreArtifact, Upload, InsertArtifact, Unmeta, Unstore,
       StatementFails, Crash, artifactVars
<1>3. ASSUME NEW s \in Stores, NEW l \in Steps, Moves(s, l), meta' \subseteq Artifacts,
             objects' \subseteq Artifacts, l \in {"idle", "reserve"} \/ quota'[holds[s]] # "none"
      PROVE  ArtifactsTypeOK'
  <2>1. step' \in [Stores -> Steps] /\ holds' = holds /\ faults' = faults
    BY <1>0, <1>3 DEF Moves
  <2>2. ASSUME NEW t \in Stores, step'[t] \notin {"idle", "reserve"} PROVE quota'[holds'[t]] # "none"
    BY <1>0, <1>1, <1>3, <2>1, <2>2 DEF Moves
  <2> QED
    BY <1>0, <1>2, <1>3, <2>1, <2>2 DEF ArtifactsTypeOK
<1>4. ASSUME NEW s \in Stores, ReserveArtifact(s) PROVE ArtifactsTypeOK'
  <2>1. PICK h : h = holds[s]
    OBVIOUS
  <2>2. CASE Granted(h) /\ Moves(s, "upload")
    <3>1. quota'[h] # "none"
      <4>1. h \in Ids
        BY <1>0, <2>1
      <4>2. CASE UNCHANGED quota /\ (quota[h] \in {"reserved", "committed"} \/ h \in meta)
        BY <4>1, <4>2, <1>0 DEF Known
      <4>3. CASE quota' = [quota EXCEPT ![h] = "reserved"]
        BY <1>0, <4>1, <4>3
      <4> QED
        BY <2>2, <4>2, <4>3 DEF Granted
    <3> QED
      BY <1>0, <1>3, <1>4, <2>1, <2>2, <3>1 DEF ReserveArtifact, Steps
  <2>3. CASE Moves(s, "idle")
    BY <1>0, <1>3, <1>4, <2>3 DEF ReserveArtifact, Steps
  <2> QED
    BY <1>4, <2>1, <2>2, <2>3 DEF ReserveArtifact, Go, Moves
<1>5. ASSUME NEW s \in Stores, step[s] \notin {"idle", "reserve"}, NEW l \in Steps, Moves(s, l),
             meta' \subseteq Artifacts, objects' \subseteq Artifacts
      PROVE  ArtifactsTypeOK'
  <2>1. quota'[holds[s]] # "none"
    BY <1>0, <1>1, <1>5
  <2> QED
    BY <1>3, <1>5, <2>1
<1>6. ASSUME NEW s \in Stores, \/ Upload(s) \/ InsertArtifact(s) \/ Commit(s) \/ Confirm(s)
                               \/ Unmeta(s) \/ Unstore(s) \/ Release(s)
      PROVE  ArtifactsTypeOK'
  <2>1. step[s] \notin {"idle", "reserve"}
    BY <1>6 DEF Upload, InsertArtifact, Commit, Confirm, Unmeta, Unstore, Release, Doing
  <2>2. \E l \in Steps : Moves(s, l)
    BY <1>6 DEF Upload, InsertArtifact, Commit, Confirm, Unmeta, Unstore, Release, Go, Moves, Steps
  <2>3. meta' \subseteq Artifacts /\ objects' \subseteq Artifacts
    BY <1>0, <1>6 DEF Upload, InsertArtifact, Commit, Confirm, Unmeta, Unstore, Release
  <2> QED
    BY <1>5, <2>1, <2>2, <2>3
<1>7. ASSUME NEW s \in Stores, NEW a \in Artifacts, StoreArtifact(s, a) PROVE ArtifactsTypeOK'
  <2>1. step' \in [Stores -> Steps] /\ holds' \in [Stores -> Artifacts]
    BY <1>0, <1>7 DEF StoreArtifact, Go, Steps
  <2>2. ASSUME NEW t \in Stores, step'[t] \notin {"idle", "reserve"} PROVE quota'[holds'[t]] # "none"
    BY <1>0, <1>7, <2>2 DEF StoreArtifact, Go
  <2> QED
    BY <1>0, <1>2, <1>7, <2>1, <2>2 DEF ArtifactsTypeOK, StoreArtifact
<1>8. ASSUME NEW s \in Stores, StatementFails(s) \/ Crash(s) PROVE ArtifactsTypeOK'
  <2>1. PICK l \in Steps : step' = [step EXCEPT ![s] = l] /\ (l = "idle" \/ step[s] \notin {"idle", "reserve"})
    BY <1>8 DEF StatementFails, Crash, Go, Doing, Steps
  <2>2. step' \in [Stores -> Steps] /\ faults' \in 0 .. MaxFaults
    BY <1>0, <1>8, <2>1 DEF StatementFails, Crash
  <2>3. UNCHANGED <<quota, meta, objects, holds>>
    BY <1>8 DEF StatementFails, Crash
  <2>4. ASSUME NEW t \in Stores, step'[t] \notin {"idle", "reserve"} PROVE quota'[holds'[t]] # "none"
    BY <1>0, <2>1, <2>3, <2>4
  <2> QED
    BY <1>0, <2>2, <2>3, <2>4 DEF ArtifactsTypeOK
<1>9. ASSUME NEW b \in Remote, RemoteQuota(b) PROVE ArtifactsTypeOK'
  BY <1>0, <1>1, <1>2, <1>9 DEF RemoteQuota, ArtifactsTypeOK
<1>10. ASSUME UNCHANGED artifactVars PROVE ArtifactsTypeOK'
  BY <1>10 DEF artifactVars, ArtifactsTypeOK
<1>11. ArtifactsTypeOK'
  BY <1>4, <1>6, <1>7, <1>8, <1>9, <1>10 DEF ArtifactsNext
<1>12. ASSUME NEW a \in meta' PROVE quota'[a] # "none"
  <2>1. CASE a \in meta
    <3>1. a \in Ids /\ quota[a] # "none"
      BY <1>0, <2>1 DEF Known, Ids
    <3> QED
      BY <1>1, <3>1
  <2>2. CASE a \notin meta
    <3>1. PICK s \in Stores : InsertArtifact(s)
      BY <1>12, <2>2 DEF ArtifactsNext, RemoteQuota, StoreArtifact, ReserveArtifact, Upload, Commit, Confirm,
         Unmeta, Unstore, Release, StatementFails, Crash, artifactVars
    <3>2. a = holds[s] /\ step[s] \notin {"idle", "reserve"}
      BY <1>12, <2>2, <3>1 DEF InsertArtifact, Doing
    <3> QED
      BY <1>0, <1>1, <3>2
  <2> QED
    BY <2>1, <2>2
<1> QED
  BY <1>11, <1>12 DEF Known

LEMMA StoredStep == StoredInv /\ [ArtifactsNext]_artifactVars => StoredInv'
<1> SUFFICES ASSUME StoredInv, [ArtifactsNext]_artifactVars PROVE StoredInv'
  OBVIOUS
<1> USE ArtifactNumbers
<1>0. /\ quota \in [Ids -> Quotas] /\ \A s \in Stores : holds[s] \in Ids
      /\ ArtifactsTypeOK /\ SharedInv /\ StorageHolds /\ Known
  BY DEF StoredInv, ArtifactsTypeOK, Ids
<1>1. ASSUME NEW a \in Ids, Granted(a) \/ \E to \in {"committed", "released"} : ArtifactState(a, to)
      PROVE  StorageHolds'
  <2>1. CASE quota[a] = "none" /\ Fits(a) /\ quota' = [quota EXCEPT ![a] = "reserved"]
    BY <1>0, <2>1, OneMore
  <2>2. CASE \A b \in Ids : quota[b] \in {"none", "released"} => quota'[b] \in {"none", "released"}
    BY <1>0, <2>2, NoMoreBytes
  <2>3. CASE UNCHANGED quota
    BY <2>2, <2>3
  <2>4. ASSUME NEW to \in {"committed", "released"}, ArtifactState(a, to) PROVE StorageHolds'
    <3>1. \A b \in Ids : quota[b] \in {"none", "released"} => quota'[b] \in {"none", "released"}
      BY <1>0, <2>4 DEF ArtifactState
    <3> QED
      BY <2>2, <3>1
  <2> QED
    BY <1>1, <2>1, <2>3, <2>4 DEF Granted
<1>2. ASSUME UNCHANGED quota PROVE StorageHolds'
  <2>1. \A b \in Ids : quota[b] \in {"none", "released"} => quota'[b] \in {"none", "released"}
    BY <1>2
  <2> QED
    BY <1>0, <2>1, NoMoreBytes
<1>3. ASSUME NEW s \in Stores, ReserveArtifact(s) PROVE StorageHolds'
  <2>1. Granted(holds[s]) \/ UNCHANGED quota
    BY <1>3 DEF ReserveArtifact
  <2> QED
    BY <1>0, <1>1, <1>2, <2>1, Zenon
<1>4. ASSUME NEW s \in Stores, Commit(s) \/ Confirm(s) PROVE StorageHolds'
  <2>1. ArtifactState(holds[s], "committed") \/ UNCHANGED quota
    BY <1>4, Zenon DEF Commit, Confirm
  <2>2. "committed" \in {"committed", "released"}
    OBVIOUS
  <2> QED
    BY <1>0, <1>1, <1>2, <2>1, <2>2, Zenon
<1>5. ASSUME NEW s \in Stores, Release(s) PROVE StorageHolds'
  <2>1. \A b \in Ids : quota[b] \in {"none", "released"} => quota'[b] \in {"none", "released"}
    BY <1>0, <1>5 DEF Release
  <2> QED
    BY <1>0, <2>1, NoMoreBytes
<1>6. ASSUME NEW b \in Remote, RemoteQuota(b) PROVE StorageHolds'
  BY <1>1, <1>6 DEF RemoteQuota, Ids
<1>7. StorageHolds'
  <2>1. \/ \E s \in Stores : ReserveArtifact(s) \/ Commit(s) \/ Confirm(s) \/ Release(s)
        \/ \E b \in Remote : RemoteQuota(b)
        \/ UNCHANGED quota
    BY DEF ArtifactsNext, StoreArtifact, Upload, InsertArtifact, Unmeta, Unstore,
       StatementFails, Crash, artifactVars
  <2> QED
    BY <1>2, <1>3, <1>4, <1>5, <1>6, <2>1, Zenon
<1>8. SharedInv' /\ ArtifactsTypeOK' /\ Known'
  BY <1>0, SharedStep, ArtifactsTyped
<1> QED
  BY <1>7, <1>8 DEF StoredInv

LEMMA StoredWhole == StoredInv => ArtifactsInv
<1> SUFFICES ASSUME StoredInv PROVE ArtifactsInv
  OBVIOUS
<1>0. ArtifactsTypeOK /\ StorageHolds /\ SharedInv /\ quota \in [Ids -> Quotas]
      /\ holds \in [Stores -> Artifacts]
  BY DEF StoredInv, ArtifactsTypeOK
<1>1. WholeOrAbsent
  <2> SUFFICES ASSUME faults = 0, NEW a \in Artifacts, \A s \in Stores : step[s] = "idle" \/ holds[s] # a
               PROVE  IF a \in meta THEN a \in objects /\ quota[a] = "committed"
                      ELSE a \notin objects /\ quota[a] \in {"none", "released"}
    BY DEF WholeOrAbsent, Doing
  <2>1. Shared(a) /\ quota[a] \in Quotas
    BY <1>0 DEF SharedInv, Ids
  <2>2. ASSUME NEW L, "idle" \notin L PROVE ~ Works(a, L)
    BY <2>2 DEF Works
  <2>3. /\ ~ Works(a, {"upload", "insert", "commit", "confirm", "release"})
        /\ ~ Works(a, {"commit", "unmeta"})
        /\ ~ Works(a, {"insert", "commit", "unmeta", "unmade", "unstore"})
    BY <2>2
  <2> QED
    BY <2>1, <2>3 DEF Shared, Quotas
<1>2. NotUndone
  BY <1>0 DEF NotUndone, SharedInv, Shared, Doing
<1> QED
  BY <1>0, <1>1, <1>2 DEF ArtifactsInv

\* workbenchusage/manager.go ReserveArtifact and workbench's StoreArtifact: for any
\* handlers and artifacts, the bytes stay within a run's and the workspace's quota;
\* while nothing fails but uploads, an artifact at rest is whole or absent, and what
\* a handler is about to commit is not undone by another.
THEOREM ArtifactsCorrect == ArtifactsSpec => []ArtifactsInv
  BY ArtifactsStart, StoredStep, StoredWhole, PTL DEF ArtifactsSpec
=============================================================================
