--------------------------- MODULE WorkbenchRuns ---------------------------
(***************************************************************************)
(* The run quotas of one workbench account: reservations with a lease, the *)
(* monthly ledgers they and the usage events are metered into, and the     *)
(* event budget of a run.  Every mutation is one transaction that first    *)
(* takes the account's advisory lock (policy), so each is one action; the  *)
(* reaper's listing is outside any transaction.  Accounts share nothing.   *)
(***************************************************************************)
EXTENDS Integers, FiniteSetsExt

CONSTANTS
  Workspaces,   \* the account's workspaces
  Runs,         \* run ids
  Home,         \* the workspace of a run
  UsageEvents,  \* usage events: (run, event id) pairs
  UsageRun,     \* the run an event is of
  UsageTokens, UsageCompute,   \* what it meters
  Seqs, StepSeqs,              \* events of a run, by seq; the steps among them
  UserConcurrent, WorkspaceConcurrent, MonthlyTokens, MonthlyCompute,
  RunWall, RunMaxEvents, RunMaxSteps,
  Lease,        \* LeaseDuration
  MonthLength, MaxTime,        \* bound: time
  Skew          \* bound: how far a client's timestamp lags

ASSUME HomeAssumption == Home \in [Runs -> Workspaces]
ASSUME RunsAssumption == IsFiniteSet(Runs)
ASSUME UsageAssumption == /\ IsFiniteSet(UsageEvents)
                          /\ UsageRun \in [UsageEvents -> Runs]
                          /\ UsageTokens \in [UsageEvents -> Nat]
                          /\ UsageCompute \in [UsageEvents -> Nat]
ASSUME LimitsAssumption ==
  /\ UserConcurrent \in Nat /\ WorkspaceConcurrent \in Nat
  /\ MonthlyTokens \in Nat /\ MonthlyCompute \in Nat
  /\ RunWall \in Nat \ {0} /\ RunMaxEvents \in Nat /\ RunMaxSteps \in Nat
  /\ Lease \in Nat \ {0} /\ MonthLength \in Nat \ {0} /\ MaxTime \in Nat /\ Skew \in Nat

VARIABLES
  now,
  row,          \* run ids with a workbench_runs row
  active, released,            \* run ids by workbench_run_reservations.state
  started, expires,            \* their started_at, expires_at
  events, count, steps,        \* workbench_events seqs, event_count, step_count
  booked,       \* (workspace, month) pairs with a workbench_monthly_ledgers row
  tokens, compute,             \* its columns
  debit,        \* workbench_usage_debits: the month an event is debited to
  listed        \* the owners the reapers have read and not reconciled yet

reservations == <<active, released, started, expires>>
recorded == <<events, count, steps>>
ledger  == <<booked, tokens, compute>>
runVars == <<now, row, reservations, recorded, ledger, debit, listed>>

Month(t) == t \div MonthLength
Months   == 0 .. Month(MaxTime)
Account  == Workspaces \X Months
NoMonth  == -1
Times    == 0 .. MaxTime + Lease
\* The timestamps a client may send: its clock's, or those of a request in flight.
Stamps   == {t \in Times : now - Skew <= t /\ t <= now}

RunsInit ==
  /\ now = 0
  /\ row = {} /\ active = {} /\ released = {}
  /\ started = [r \in Runs |-> 0] /\ expires = [r \in Runs |-> 0]
  /\ events = [r \in Runs |-> {}] /\ count = [r \in Runs |-> 0]
  /\ steps = [r \in Runs |-> 0]
  /\ booked = {} /\ tokens = [a \in Account |-> 0] /\ compute = [a \in Account |-> 0]
  /\ debit = [u \in UsageEvents |-> NoMonth]
  /\ listed = {}

Tick == /\ now < MaxTime
        /\ now' = now + 1
        /\ UNCHANGED <<row, reservations, recorded, ledger, debit, listed>>

-----------------------------------------------------------------------------
(***************************************************************************)
(* settleReservationTx and reconcileExpiredTx.                             *)
(***************************************************************************)
\* What a run from s to t is metered.
Metered(s, t) == Min({RunWall, Max({0, t - s})})

\* Mutant: the upsert's conflict branch adds without the cap.
Uncapped(book, a, used) ==
  [booked |-> book.booked \cup {a}, compute |-> [book.compute EXCEPT ![a] = @ + used]]

\* The ledger's upsert: only an addition to an existing row is capped.
Book(book, a, used) ==
  [booked  |-> book.booked \cup {a},
   compute |-> [book.compute EXCEPT ![a] =
                  IF a \in book.booked
                  THEN @ + Min({used, Max({0, MonthlyCompute - @})})
                  ELSE used]]

Ledger == [booked |-> booked, compute |-> compute]
Settled(book, r, t) == Book(book, <<Home[r], Month(t)>>, Metered(started[r], t))

Expired == {r \in active : expires[r] <= now}

\* What the ledger may be after some reservations are settled, in any order.
Reconciled ==
  LET after[S \in SUBSET Expired] ==
        IF S = {} THEN {Ledger}
        ELSE UNION {{Settled(book, r, expires[r]) : book \in after[S \ {r}]} : r \in S}
  IN  after[Expired]

Booked(book) == booked' = book.booked /\ compute' = book.compute /\ UNCHANGED tokens

\* The reservations left active by reconcileExpiredTx.
Kept == active \ Expired

-----------------------------------------------------------------------------
(***************************************************************************)
(* ReserveRunTx, by way of CreateRun or AdmitRun.  A refusal rolls back    *)
(* the reconciliation with it.  The storage check, of WorkbenchArtifacts'  *)
(* state, may refuse at any time.                                          *)
(***************************************************************************)
Within(r) ==
  LET a == <<Home[r], Month(now)>> IN
  \E book \in Reconciled :
    /\ tokens[a] < MonthlyTokens /\ book.compute[a] < MonthlyCompute
    /\ Booked(book)

Concurrent(r) ==
  /\ Cardinality(Kept) < UserConcurrent
  /\ Cardinality({q \in Kept : Home[q] = Home[r]}) < WorkspaceConcurrent

Reserve(r, s) ==
  /\ r \notin active \cup released
  /\ Within(r) /\ Concurrent(r)
  /\ active' = Kept \cup {r}
  /\ released' = released \cup Expired
  /\ started' = [started EXCEPT ![r] = s]
  /\ expires' = [expires EXCEPT ![r] = now + Lease]

\* The reservation is there: only the reconciliation is committed.
Reserved(r) ==
  /\ r \in Kept
  /\ \E book \in Reconciled : Booked(book)
  /\ active' = Kept /\ released' = released \cup Expired
  /\ UNCHANGED <<started, expires>>

ReserveRun(r, s) == Reserve(r, s) \/ Reserved(r)

\* A row that says the run is over is inserted without a reservation.
CreateTerminalRun(r) == /\ r \notin row
                        /\ row' = row \cup {r}
                        /\ UNCHANGED <<now, reservations, recorded, ledger, debit, listed>>

CreateRun(r, s) == /\ ReserveRun(r, s)
                   /\ row' = row \cup {r}
                   /\ UNCHANGED <<now, recorded, debit, listed>>

AdmitRun(r, s) == /\ ReserveRun(r, s)
                  /\ UNCHANGED <<now, row, recorded, debit, listed>>

\* Renewing an expired lease fails, and the failure rolls back.
Heartbeat(r) ==
  /\ r \in Kept
  /\ \E book \in Reconciled : Booked(book)
  /\ active' = Kept /\ released' = released \cup Expired
  /\ expires' = [expires EXCEPT ![r] = now + Lease]
  /\ UNCHANGED <<now, row, started, recorded, debit, listed>>

-----------------------------------------------------------------------------
(***************************************************************************)
(* FinishRunTx, by way of CompleteRun (with the runtime's timestamp) or of *)
(* UpdateRunCAS to a terminal status (with the server's).                  *)
(***************************************************************************)
\* Mutant: a released reservation is settled again.
FinishAgain(r, t) ==
  /\ r \in active \cup released
  /\ Booked(Settled(Ledger, r, t))
  /\ active' = active \ {r} /\ released' = released \cup {r}
  /\ expires' = [expires EXCEPT ![r] = t]
  /\ UNCHANGED <<now, row, started, recorded, debit, listed>>

Finish(r, t) ==
  /\ r \in active
  /\ Booked(Settled(Ledger, r, t))
  /\ active' = active \ {r} /\ released' = released \cup {r}
  /\ expires' = [expires EXCEPT ![r] = t]
  /\ UNCHANGED <<now, row, started, recorded, debit, listed>>

CompleteRun(r) == \E t \in Stamps : Finish(r, t)
UpdateRunCAS(r) == r \in row /\ Finish(r, now)

-----------------------------------------------------------------------------
(***************************************************************************)
(* The reapers of all replicas: the owners with an expired lease, then a   *)
(* transaction each, which reconciles the owner's whole account.           *)
(***************************************************************************)
ReaperLists == /\ Expired # {}
               /\ listed' = listed \cup {Home[r] : r \in Expired}
               /\ UNCHANGED <<now, row, reservations, recorded, ledger, debit>>

ReapOwner(w) == /\ w \in listed
                /\ \E book \in Reconciled : Booked(book)
                /\ active' = Kept /\ released' = released \cup Expired
                /\ listed' = listed \ {w}
                /\ UNCHANGED <<now, row, started, expires, recorded, debit>>

\* A transaction fails or the process stops: the owners left are not reconciled.
ReaperFails == /\ listed # {} /\ listed' = {}
               /\ UNCHANGED <<now, row, reservations, recorded, ledger, debit>>

-----------------------------------------------------------------------------
(***************************************************************************)
(* RecordEvent and RecordUsage, each of which may be repeated.             *)
(***************************************************************************)
\* CheckRunWallTx: the reservation may be active or released.
InWall(r) == r \in active \cup released /\ now - started[r] <= RunWall

Step(q) == IF q \in StepSeqs THEN 1 ELSE 0

\* An event that is stored already is acknowledged and changes nothing.
RecordEvent(r, q) ==
  /\ InWall(r) /\ r \in row /\ q \notin events[r]
  /\ count[r] < RunMaxEvents /\ steps[r] + Step(q) <= RunMaxSteps
  /\ events' = [events EXCEPT ![r] = @ \cup {q}]
  /\ count'  = [count  EXCEPT ![r] = @ + 1]
  /\ steps'  = [steps  EXCEPT ![r] = @ + Step(q)]
  /\ UNCHANGED <<now, row, reservations, ledger, debit, listed>>

\* The ledger row is made before anything is refused, and stays only if nothing is.
Debit(u, m) ==
  LET a == <<Home[UsageRun[u]], m>> IN
  /\ booked' = booked \cup {a}
  /\ IF debit[u] # NoMonth THEN UNCHANGED <<debit, tokens, compute>>
     ELSE /\ tokens[a] + UsageTokens[u] <= MonthlyTokens
          /\ compute[a] + UsageCompute[u] <= MonthlyCompute
          /\ debit'   = [debit EXCEPT ![u] = m]
          /\ tokens'  = [tokens  EXCEPT ![a] = @ + UsageTokens[u]]
          /\ compute' = [compute EXCEPT ![a] = @ + UsageCompute[u]]
  /\ UNCHANGED <<now, row, reservations, recorded, listed>>

\* workbench_usage refers to the run's row; the debit alone does not.
RecordUsage(u) == UsageRun[u] \in row /\ \E t \in Stamps : Debit(u, Month(t))
ChargeUsage(u) == \E t \in Stamps : Debit(u, Month(t))

RunsNext ==
  \/ Tick \/ ReaperLists \/ ReaperFails
  \/ \E w \in Workspaces : ReapOwner(w)
  \/ \E r \in Runs : \/ \E s \in Stamps : CreateRun(r, s) \/ AdmitRun(r, s)
                     \/ CreateTerminalRun(r) \/ Heartbeat(r)
                     \/ CompleteRun(r) \/ UpdateRunCAS(r)
  \/ \E r \in Runs, q \in Seqs : RecordEvent(r, q)
  \/ \E u \in UsageEvents : RecordUsage(u) \/ ChargeUsage(u)

RunsSpec == RunsInit /\ [][RunsNext]_runVars

-----------------------------------------------------------------------------
(***************************************************************************)
(* Properties.                                                             *)
(***************************************************************************)
\* Every variable has its type, and no reservation is active and released.
RunsTypeOK ==
  /\ now \in 0 .. MaxTime
  /\ row \subseteq Runs /\ active \subseteq Runs /\ released \subseteq Runs
  /\ active \cap released = {}
  /\ started \in [Runs -> Times] /\ expires \in [Runs -> Times]
  /\ events \in [Runs -> SUBSET Seqs] /\ count \in [Runs -> Nat] /\ steps \in [Runs -> Nat]
  /\ booked \subseteq Account
  /\ tokens \in [Account -> Nat] /\ compute \in [Account -> Nat]
  /\ debit \in [UsageEvents -> Months \cup {NoMonth}]
  /\ listed \subseteq Workspaces

\* Admissions of any number of clients in any workspaces never oversell the
\* account's or a workspace's concurrent runs, whatever leases have run out.
NeverOversold ==
  /\ Cardinality(active) <= UserConcurrent
  /\ \A w \in Workspaces : Cardinality({r \in active : Home[r] = w}) <= WorkspaceConcurrent

\* Every run that ended, by completion, by an update, by its lease or by the
\* reaper, is metered into the ledger of the month it ended in exactly once, every
\* usage event once, and nothing else is: below the cap the ledger says what ran.
LedgerAccounts ==
  \A a \in Account :
    LET ended == {r \in released : <<Home[r], Month(expires[r])>> = a}
        used  == {u \in UsageEvents : debit[u] # NoMonth /\ <<Home[UsageRun[u]], debit[u]>> = a}
        due   == SumFunction([r \in ended |-> Metered(started[r], expires[r])])
                 + SumFunctionOnSet(UsageCompute, used)
    IN /\ compute[a] <= due
       /\ due <= MonthlyCompute => compute[a] = due
       /\ tokens[a] = SumFunctionOnSet(UsageTokens, used)

\* The monthly quotas hold; only a ledger opened by a single run's settlement may
\* pass the compute quota, by less than one run's wall time.
LedgerCapped ==
  \A a \in Account : /\ tokens[a] <= MonthlyTokens
                     /\ compute[a] <= Max({MonthlyCompute, RunWall})

\* A run's event budget counts each stored event once, over retries and after its
\* lease is gone.
EventsCounted ==
  \A r \in Runs : /\ count[r] = Cardinality(events[r]) /\ count[r] <= RunMaxEvents
                  /\ steps[r] = Cardinality(events[r] \cap StepSeqs) /\ steps[r] <= RunMaxSteps

\* A reservation, once released, stays released, and the interval it was metered
\* for is never rewritten by a late completion, heartbeat or reaper.
ReleaseFinal ==
  [][\A r \in released : /\ r \in released'
                         /\ started'[r] = started[r] /\ expires'[r] = expires[r]]_runVars

\* What admissions, leases and metering owe the accounts, together.
RunsInv == RunsTypeOK /\ NeverOversold /\ LedgerAccounts /\ LedgerCapped /\ EventsCounted
=============================================================================
