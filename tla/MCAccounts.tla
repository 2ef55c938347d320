----------------------------- MODULE MCAccounts -----------------------------
(***************************************************************************)
(* Small instances of the account machines for TLC: sessions, second       *)
(* factor, erasure and export, API keys, rate limiter, anomaly scan,       *)
(* orders. They share no variable, so each is explored with the others at  *)
(* rest.  The sessions are explored twice, "sessions" with no login under  *)
(* way and "lockout" with the tokens as they are; so are the orders,       *)
(* "shop" on one day and "books" with the shop as it is.                   *)
(***************************************************************************)
EXTENDS Sessions, TwoFactor, Erasure, Metering, Anomalies, Orders, TLC

MCMonthlyQuota == "free" :> 1 @@ "pro" :> 2
MCPlanOf       == <<"pro", "free">>

CONSTANTS x1, x2

VARIABLE machine

Init == /\ machine \in {"sessions", "lockout", "factor", "erasure", "keys", "limiter",
                       "anomalies", "shop", "books"}
        /\ SessionsInit /\ TwoFactorInit /\ ErasureInit /\ KeysInit /\ LimiterInit /\ AnomaliesInit
        /\ OrdersInit

Next ==
    /\ UNCHANGED machine
    /\ \/ /\ machine = "sessions" /\ SessionsNext /\ login' = login
          /\ UNCHANGED <<factorVars, erasureVars, meterVars, limiterVars, anomalyVars, orderVars>>
       \/ /\ machine = "lockout" /\ SessionsNext /\ token' = token
          /\ UNCHANGED <<factorVars, erasureVars, meterVars, limiterVars, anomalyVars, orderVars>>
       \/ /\ machine = "factor" /\ TwoFactorNext
          /\ UNCHANGED <<sessionVars, erasureVars, meterVars, limiterVars, anomalyVars, orderVars>>
       \/ /\ machine = "erasure" /\ ErasureNext
          /\ UNCHANGED <<sessionVars, factorVars, meterVars, limiterVars, anomalyVars, orderVars>>
       \/ /\ machine = "keys" /\ KeysNext
          /\ UNCHANGED <<sessionVars, factorVars, erasureVars, limiterVars, anomalyVars, orderVars>>
       \/ /\ machine = "limiter" /\ LimiterNext
          /\ UNCHANGED <<sessionVars, factorVars, erasureVars, meterVars, anomalyVars, orderVars>>
       \/ /\ machine = "anomalies" /\ AnomaliesNext
          /\ UNCHANGED <<sessionVars, factorVars, erasureVars, meterVars, limiterVars, orderVars>>
       \/ /\ machine = "shop" /\ OrdersNext /\ today' = today
          /\ UNCHANGED <<sessionVars, factorVars, erasureVars, meterVars, limiterVars, anomalyVars>>
       \/ /\ machine = "books" /\ OrdersNext /\ edits' = edits
          /\ UNCHANGED <<sessionVars, factorVars, erasureVars, meterVars, limiterVars, anomalyVars>>

Spec == Init /\ [][Next]_<<machine, sessionVars, factorVars, erasureVars, meterVars,
                           limiterVars, anomalyVars, orderVars>>

\* Session calls, erasers, scanners and purchases are alike.
Symmetry == Permutations({x1, x2})
=============================================================================
