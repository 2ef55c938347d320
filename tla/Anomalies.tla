------------------------------ MODULE Anomalies ------------------------------
(***************************************************************************)
(* The audit-log scanners: every process runs the detection rules over the *)
(* last hour, keeps one open anomaly per actor and action, alerts when the *)
(* row is new, and the ops acknowledge or resolve it (anomaly/service.go,  *)
(* anomaly/rules.go, anomaly/repo.go, anomaly/alerter.go).                 *)
(***************************************************************************)
EXTENDS Naturals, FiniteSets

CONSTANTS
    Scanners,       \* processes with a scanner
    Threshold,      \* actions of one actor that make an anomaly
    MaxActions,     \* bound on audit rows of one actor in an hour
    RowIds          \* audit_anomalies rows of one key, over time

ASSUME AnomalyConstants ==
    Threshold \in Nat \ {0} /\ MaxActions \in Nat /\ IsFiniteSet(Scanners)

VARIABLES
    recent,      \* audit rows of the actor's action in the last hour
    rows,        \* audit_anomalies rows of the key
    scanner,     \* how far each scan has come
    alerts,      \* alerts sent for each row
    scanRace     \* rows another scan was storing while they were inserted

anomalyVars == <<recent, rows, scanner, alerts, scanRace>>

NoScan == [stage |-> "idle"]
NoAnomaly == [status |-> "none"]

AnomaliesTypeOK ==
    /\ recent \in 0 .. MaxActions
    /\ rows \in [RowIds -> {NoAnomaly} \cup
                 [status: {"open", "acknowledged", "resolved"}, count: 1 .. MaxActions]]
    /\ scanner \in [Scanners -> {NoScan} \cup
          [stage: {"detected", "counted"}, count: 1 .. MaxActions, new: {"no", "yes"}]
          \cup [stage: {"alerting"}, row: RowIds]]
    /\ alerts \in [RowIds -> 0 .. Cardinality(Scanners)]
    /\ scanRace \subseteq RowIds

AnomaliesInit ==
    /\ recent = 0 /\ scanRace = {}
    /\ rows = [i \in RowIds |-> NoAnomaly]
    /\ scanner = [s \in Scanners |-> NoScan]
    /\ alerts = [i \in RowIds |-> 0]

-----------------------------------------------------------------------------
\* The audit log: the actor acts, and old rows leave the hour.
Act ==
    /\ recent < MaxActions
    /\ recent' = recent + 1
    /\ UNCHANGED <<rows, scanner, alerts, scanRace>>

HourPasses ==
    /\ recent > 0
    /\ recent' \in 0 .. recent - 1
    /\ UNCHANGED <<rows, scanner, alerts, scanRace>>

-----------------------------------------------------------------------------
Open == {i \in RowIds : rows[i].status = "open"}
Fresh == {i \in RowIds : rows[i] = NoAnomaly}

\* HAVING COUNT(*) >= the rule's threshold.
Detected == recent >= Threshold

Detect(s) ==
    /\ scanner[s] = NoScan /\ Detected
    /\ scanner' = [scanner EXCEPT ![s] = [stage |-> "detected", count |-> recent, new |-> "no"]]
    /\ UNCHANGED <<recent, rows, alerts, scanRace>>

\* UpsertReturningIsNew counts the open rows ...
CountOpen(s) ==
    /\ scanner[s].stage = "detected"
    /\ scanner' = [scanner EXCEPT ![s].stage = "counted",
                                  ![s].new = IF Open = {} THEN "yes" ELSE "no"]
    /\ UNCHANGED <<recent, rows, alerts, scanRace>>

\* ... then inserts one, or updates the open one, under the partial unique index.
UpsertRow(s, i) ==
    /\ IF Open = {} THEN i \in Fresh ELSE i \in Open
    /\ rows' = [rows EXCEPT ![i] = [status |-> "open", count |-> scanner[s].count]]

\* Mutant: an alert for every scan that finds the anomaly.
UpsertAlways(s) ==
    /\ scanner[s].stage = "counted"
    /\ \E i \in Open \cup Fresh :
          /\ UpsertRow(s, i)
          /\ scanner' = [scanner EXCEPT ![s] = [stage |-> "alerting", row |-> i]]
    /\ UNCHANGED <<recent, alerts, scanRace>>

Upsert(s) ==
    /\ scanner[s].stage = "counted"
    /\ \E i \in Open \cup Fresh :
          /\ UpsertRow(s, i)
          /\ scanRace' = IF \E t \in Scanners \ {s} : scanner[t].stage \in {"counted", "alerting"}
                         THEN scanRace \cup {i} ELSE scanRace
          /\ scanner' = [scanner EXCEPT ![s] = IF scanner[s].new = "yes"
                                               THEN [stage |-> "alerting", row |-> i] ELSE NoScan]
    /\ UNCHANGED <<recent, alerts>>

\* alertNew: the webhook is called once, its failure is logged.
Alert(s) ==
    /\ scanner[s].stage = "alerting"
    /\ \/ alerts' = [alerts EXCEPT ![scanner[s].row] = @ + 1]
       \/ UNCHANGED alerts
    /\ scanner' = [scanner EXCEPT ![s] = NoScan]
    /\ UNCHANGED <<recent, rows, scanRace>>

\* A failed statement, or the end of the process: the scan stops where it is.
ScanFails(s) ==
    /\ scanner[s] # NoScan
    /\ scanner' = [scanner EXCEPT ![s] = NoScan]
    /\ UNCHANGED <<recent, rows, alerts, scanRace>>

\* Acknowledge and Resolve set the status whatever it is.
SetStatus(i, to) ==
    /\ rows[i] # NoAnomaly
    /\ rows' = [rows EXCEPT ![i].status = to]
    /\ UNCHANGED <<recent, scanner, alerts, scanRace>>

AnomaliesNext ==
    \/ Act \/ HourPasses
    \/ \E s \in Scanners :
          Detect(s) \/ CountOpen(s) \/ Upsert(s) \/ Alert(s) \/ ScanFails(s)
    \/ \E i \in RowIds, to \in {"acknowledged", "resolved"} : SetStatus(i, to)

AnomaliesSpec == AnomaliesInit /\ [][AnomaliesNext]_anomalyVars

-----------------------------------------------------------------------------
\* However many processes scan, one actor's action has one open row, and a row
\* holds a count that reached the threshold (anomaly/repo.go's partial index).
OneOpenAnomaly ==
    /\ Cardinality(Open) <= 1
    /\ \A i \in RowIds : rows[i] # NoAnomaly => rows[i].count >= Threshold

\* A row is alerted at most once unless two scans stored it together: the count
\* and the insert are two statements (anomaly/repo.go UpsertReturningIsNew).
OneAlert == \A i \in RowIds \ scanRace : alerts[i] <= 1

\* Both, on well-formed states.
AnomaliesInv == AnomaliesTypeOK /\ OneOpenAnomaly /\ OneAlert
=============================================================================
