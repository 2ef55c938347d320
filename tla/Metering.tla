------------------------------ MODULE Metering ------------------------------
(***************************************************************************)
(* The two meters of the verification product: the monthly quota of an API *)
(* key under the plan Stripe's webhooks set (apikey/repo.go,               *)
(* billing/service.go), and the fixed-window rate limiter                  *)
(* (platform/ratelimit, platform/middleware/ratelimit.go).                 *)
(***************************************************************************)
EXTENDS Integers, FiniteSets

CONSTANTS
    Keys,           \* API keys of one account
    MonthlyQuota,   \* a plan's scans a month, by plan
    PlanOf,         \* the plan each subscription event asks for, in Stripe's order
    Scans,          \* concurrent scans
    LastMonth, MaxScans,            \* bounds
    WindowLimit, WindowTicks,       \* the limiter's limit and window, in ticks
    TicksPerSecond, LastTick        \* a second in ticks, and a bound

Plans  == DOMAIN MonthlyQuota
Events == DOMAIN PlanOf
Calendar == 1 .. LastMonth

ASSUME MeteringConstants ==
    /\ "free" \in Plans /\ \A p \in Plans : MonthlyQuota[p] \in Nat \ {0}
    /\ \E p \in Plans : \A q \in Plans : MonthlyQuota[q] <= MonthlyQuota[p]
    /\ \A e \in Events : e \in Nat /\ PlanOf[e] \in Plans
    /\ {WindowLimit, WindowTicks, TicksPerSecond, LastMonth, LastTick} \subseteq Nat \ {0}

VARIABLES
    month,      \* the calendar month
    key,        \* api_keys rows
    scan,       \* the month a scan took from the clock, and its key
    served,     \* scans let through, by key and the month they were dated
    turned,     \* keys metered by a scan dated before the row's month, and how often
    sent,       \* subscription events Stripe has made
    applied,    \* the last event applied
    reordered,  \* an event was applied after a later one
    issued      \* the last event applied when the key was issued

meterVars == <<month, key, scan, served, turned, sent, applied, reordered, issued>>

NoKey  == [state |-> "none"]
NotScanning == [dated |-> 0]

KeysTypeOK ==
    /\ month \in Calendar
    /\ key \in [Keys -> {NoKey} \cup [state: {"active", "revoked"}, plan: Plans,
                                      month: 0 .. LastMonth, count: Nat]]
    /\ scan \in [Scans -> {NotScanning} \cup [dated: Calendar, of: Keys]]
    /\ served \in [Keys -> [Calendar -> Nat]]
    /\ turned \in [Keys -> Nat]
    /\ sent \subseteq Events /\ applied \in Events \cup {0} /\ issued \in [Keys -> Events \cup {0}]
    /\ reordered \in BOOLEAN

KeysInit ==
    /\ month = 1 /\ sent = {} /\ applied = 0 /\ reordered = FALSE
    /\ key = [k \in Keys |-> NoKey]
    /\ scan = [s \in Scans |-> NotScanning]
    /\ served = [k \in Keys |-> [m \in Calendar |-> 0]]
    /\ turned = [k \in Keys |-> 0]
    /\ issued = [k \in Keys |-> 0]

-----------------------------------------------------------------------------
\* Issue: the plan is the caller's choice, unknown ones are free.
IssueKey(k, plan) ==
    /\ key[k] = NoKey
    /\ key' = [key EXCEPT ![k] = [state |-> "active", plan |-> plan, month |-> 0, count |-> 0]]
    /\ issued' = [issued EXCEPT ![k] = applied]
    /\ UNCHANGED <<month, scan, served, turned, sent, applied, reordered>>

RevokeKey(k) ==
    /\ key[k].state = "active"
    /\ key' = [key EXCEPT ![k].state = "revoked"]
    /\ UNCHANGED <<month, scan, served, turned, sent, applied, reordered, issued>>

\* Authenticate: CurrentMonth is read before the row is locked ...
DateScan(s, k) ==
    /\ scan[s] = NotScanning /\ key[k] # NoKey
    /\ \A m \in Calendar : served[k][m] < MaxScans
    /\ scan' = [scan EXCEPT ![s] = [dated |-> month, of |-> k]]
    /\ UNCHANGED <<month, key, served, turned, sent, applied, reordered, issued>>

\* Mutant: the quota is compared before the scan is counted.
OverQuota(row) == row.count <= MonthlyQuota[row.plan]

WithinQuota(row) == row.count < MonthlyQuota[row.plan]

\* ... AuthenticateAndMeter, under the row's lock: a scan dated otherwise than the row
\* starts the count again.
AuthenticateAndMeter(s) ==
    LET k == scan[s].of  m == scan[s].dated  row == key[k] IN
    /\ scan[s] # NotScanning
    /\ scan' = [scan EXCEPT ![s] = NotScanning]
    /\ IF row.state = "active" /\ (row.month = m => WithinQuota(row))
       THEN /\ key' = [key EXCEPT ![k].month = m,
                                  ![k].count = IF row.month = m THEN @ + 1 ELSE 1]
            /\ served' = [served EXCEPT ![k][m] = @ + 1]
            /\ turned' = [turned EXCEPT ![k] = IF m < row.month THEN @ + 1 ELSE @]
       ELSE UNCHANGED <<key, served, turned>>
    /\ UNCHANGED <<month, sent, applied, reordered, issued>>

MonthEnds ==
    /\ month < LastMonth /\ month' = month + 1
    /\ UNCHANGED <<key, scan, served, turned, sent, applied, reordered, issued>>

\* Stripe makes its events in order, and may deliver them late, twice or out of order.
MakeEvent(e) ==
    /\ e \notin sent /\ \A f \in Events : f < e => f \in sent
    /\ sent' = sent \cup {e}
    /\ UNCHANGED <<month, key, scan, served, turned, applied, reordered, issued>>

\* applyVerifiedEvent: the plan of every active key, whichever event came before.
SetAccountTier(e) ==
    /\ e \in sent
    /\ key' = [k \in Keys |-> IF key[k].state = "active"
                              THEN [key[k] EXCEPT !.plan = PlanOf[e]] ELSE key[k]]
    /\ applied' = e
    /\ reordered' = (reordered \/ e < applied)
    /\ UNCHANGED <<month, scan, served, turned, sent, issued>>

KeysNext ==
    \/ \E k \in Keys : RevokeKey(k) \/ \E p \in Plans : IssueKey(k, p)
    \/ \E s \in Scans : AuthenticateAndMeter(s) \/ \E k \in Keys : DateScan(s, k)
    \/ \E e \in Events : MakeEvent(e) \/ SetAccountTier(e)
    \/ MonthEnds

-----------------------------------------------------------------------------
\* The largest plan's.
MostScans == MonthlyQuota[CHOOSE p \in Plans : \A q \in Plans : MonthlyQuota[q] <= MonthlyQuota[p]]

\* No key is served more than its plan's scans in a month, and its row counts them,
\* except that a scan dated in the month before can start the count again
\* (apikey/repo.go: "concurrent calls can't overspend").
QuotaKept ==
    \A k \in Keys :
        /\ \A m \in Calendar : served[k][m] <= MostScans * (1 + turned[k])
        /\ turned[k] = 0 /\ key[k] # NoKey /\ key[k].month # 0 =>
              key[k].count = served[k][key[k].month]

\* With the events in order, the keys issued before the last one are on its plan
\* (billing/service.go applyVerifiedEvent).
PlanFollows ==
    ~reordered => \A k \in Keys :
        key[k].state = "active" /\ issued[k] < applied => key[k].plan = PlanOf[applied]

-----------------------------------------------------------------------------
VARIABLES
    tick,       \* the clock
    window,     \* the limiter's counter of one key
    allowed,    \* calls let through, by tick
    retries     \* when each refused caller may come back, and the window it met

limiterVars == <<tick, window, allowed, retries>>

LimiterInit ==
    /\ tick = 1
    /\ window = [count |-> 0, resetAt |-> 0]
    /\ allowed = [t \in 1 .. LastTick |-> 0]
    /\ retries = {}

\* now.After(resetAt)
Ended(t) == t > window.resetAt

\* Allow, and the header a refused caller gets: whole seconds, and one more.
Allow ==
    /\ window' = IF Ended(tick) THEN [count |-> 1, resetAt |-> tick + WindowTicks]
                                ELSE [window EXCEPT !.count = @ + 1]
    /\ Ended(tick) \/ window.count <= WindowLimit     \* bound: one refusal a window
    /\ IF window'.count <= WindowLimit
       THEN allowed' = [allowed EXCEPT ![tick] = @ + 1] /\ UNCHANGED retries
       ELSE /\ retries' = retries \cup
                 {[at |-> tick + TicksPerSecond * (1 + (window.resetAt - tick) \div TicksPerSecond),
                   reset |-> window.resetAt]}
            /\ UNCHANGED allowed
    /\ UNCHANGED tick

\* The janitor forgets a window that is over.
Evict ==
    /\ window.count > 0 /\ Ended(tick)
    /\ window' = [count |-> 0, resetAt |-> 0]
    /\ UNCHANGED <<tick, allowed, retries>>

TickPasses ==
    /\ tick < LastTick /\ tick' = tick + 1
    /\ UNCHANGED <<window, allowed, retries>>

LimiterNext == Allow \/ Evict \/ TickPasses

\* Neither meter touches the other's rows.
MeteringSpec == KeysInit /\ [][KeysNext]_meterVars /\ LimiterInit /\ [][LimiterNext]_limiterVars

\* The calls let through in a span of one window's length, by tick.
CallsWithin(t) ==
    UNION {{u} \X (1 .. allowed[u]) : u \in {v \in 1 .. LastTick : t <= v /\ v <= t + WindowTicks}}

\* No span of one window's length lets more than two windows' calls through, and a caller
\* that waits as told finds another window (platform/ratelimit/inmemory.go).
RateHeld ==
    /\ \A t \in 1 .. LastTick : Cardinality(CallsWithin(t)) <= 2 * WindowLimit
    /\ \A r \in retries : r.at > r.reset

\* The three together, on well-formed states.
MeterInv == KeysTypeOK /\ QuotaKept /\ PlanFollows /\ RateHeld
=============================================================================
