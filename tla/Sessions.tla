------------------------------ MODULE Sessions ------------------------------
(***************************************************************************)
(* The sessions of one account: password logins behind the lockout, single *)
(* use refresh tokens behind the denylist table, logout and the password   *)
(* reset (auth/service.go, auth/lockout_repo.go, auth/denylist_pg.go and   *)
(* the reset of auth/twofactor_service.go).  Calls interleave statement by *)
(* statement and may stop between two; a second is the clock's unit,       *)
(* because a JWT's issue time is cut to seconds while tokens_valid_after   *)
(* is not.                                                                 *)
(***************************************************************************)
EXTENDS Naturals, FiniteSets

CONSTANTS
    SessionCalls,       \* concurrent requests
    SessionTokens,      \* refresh tokens, each issued once
    Resets,             \* password reset tokens
    MaxLoginFailures,   \* maxLoginFailures
    LastSecond,         \* bound on the clock
    MaxSessionFaults    \* bound on failed statements

ASSUME SessionConstants ==
    /\ MaxLoginFailures \in Nat \ {0}
    /\ LastSecond \in Nat \ {0} /\ MaxSessionFaults \in Nat
    /\ IsFiniteSet(SessionCalls) /\ IsFiniteSet(Resets)

VARIABLES
    second,        \* the clock
    login,         \* login_lockouts: failures, and locked_until by now()
    passwords,     \* passwords the account has had after the first
    validAfter,    \* the second of tokens_valid_after, 0 when NULL
    reset,         \* password_reset_tokens
    token,         \* the refresh tokens issued, with what they descend from
    denied,        \* the denylist
    request,       \* how far each call has come
    stamps,        \* times tokens_valid_after was set
    unstamped,     \* the password changed and the sessions were not ended since
    uses,          \* times each token was exchanged
    excused,       \* tokens two calls exchanged at once, or whose revocation failed
    sessionFaults  \* failed statements

sessionVars == <<second, login, passwords, validAfter, reset, token, denied, request,
                 stamps, unstamped, uses, excused, sessionFaults>>
rowVars == <<login, passwords, validAfter, reset>>
history == <<stamps, unstamped, uses, excused>>

NoRequest == [stage |-> "idle"]
NoToken   == [iat |-> 0]
Fine      == UNCHANGED sessionFaults
Fault     == sessionFaults < MaxSessionFaults /\ sessionFaults' = sessionFaults + 1

SessionsTypeOK ==
    /\ second \in 1 .. LastSecond
    /\ login \in [failures: Nat, lock: {"none", "live", "over"}]
    /\ passwords \in 0 .. Cardinality(Resets) /\ stamps \in 0 .. Cardinality(Resets)
    /\ validAfter \in 0 .. LastSecond
    /\ unstamped \in BOOLEAN
    /\ reset \in [Resets -> {"none", "sent", "used"}]
    /\ DOMAIN token = SessionTokens
    /\ denied \subseteq SessionTokens /\ excused \subseteq SessionTokens
    /\ DOMAIN request = SessionCalls
    /\ uses \in [SessionTokens -> Nat]
    /\ sessionFaults \in 0 .. MaxSessionFaults

SessionsInit ==
    /\ second = 1 /\ passwords = 0 /\ validAfter = 0 /\ stamps = 0 /\ sessionFaults = 0
    /\ login = [failures |-> 0, lock |-> "none"]
    /\ unstamped = FALSE
    /\ reset = [r \in Resets |-> "none"]
    /\ token = [t \in SessionTokens |-> NoToken]
    /\ request = [c \in SessionCalls |-> NoRequest]
    /\ denied = {} /\ excused = {}
    /\ uses = [t \in SessionTokens |-> 0]

Ends(c) == request' = [request EXCEPT ![c] = NoRequest]
Goes(c, stage) == request' = [request EXCEPT ![c].stage = stage]

-----------------------------------------------------------------------------
\* Login: the account row, unless it is frozen and the call refused ...
LoginRead(c) ==
    /\ request[c] = NoRequest
    /\ request' = [request EXCEPT ![c] = [stage |-> "login", pw |-> passwords, seen |-> stamps,
                                          late |-> FALSE, from |-> {}]]
    /\ UNCHANGED <<second, rowVars, token, denied, history, sessionFaults>>

\* ... the lock, whose error lets the attempt through ...
LoginLockedUntil(c) ==
    /\ request[c].stage = "login"
    /\ \/ login.lock = "live" /\ Ends(c) /\ Fine
       \/ login.lock # "live" /\ Goes(c, "attempt") /\ Fine
       \/ Goes(c, "attempt") /\ Fault
    /\ UNCHANGED <<second, rowVars, token, denied, history>>

\* RecordLoginFailure: an expired lock restarts the count, the last failure locks.
AfterFailure(row) ==
    LET n == IF row.lock = "over" THEN 1 ELSE row.failures + 1
    IN  [failures |-> n, lock |-> IF n >= MaxLoginFailures THEN "live" ELSE "none"]

RecordLoginFailure(c) ==
    /\ request[c].stage = "attempt"
    /\ \/ login' = AfterFailure(login) /\ Fine
       \/ UNCHANGED login /\ Fault
    /\ Ends(c)
    /\ UNCHANGED <<second, passwords, validAfter, reset, token, denied, history>>

\* ClearLoginFailures, after the right password or a reset; its error is ignored.
ClearLoginFailures(c) ==
    /\ request[c].stage \in {"attempt", "consumed"}
    /\ \/ login' = [failures |-> 0, lock |-> "none"] /\ Fine
       \/ UNCHANGED login /\ Fault
    /\ Goes(c, IF request[c].stage = "attempt" THEN "issue" ELSE "cleared")
    /\ UNCHANGED <<second, passwords, validAfter, reset, token, denied, history>>

LockExpires ==
    /\ login.lock = "live"
    /\ login' = [login EXCEPT !.lock = "over"]
    /\ UNCHANGED <<second, passwords, validAfter, reset, token, denied, request,
                   history, sessionFaults>>

-----------------------------------------------------------------------------
\* Refresh: the denylist, whose error denies the call ...
Exchanging(t) == {c \in SessionCalls : request[c] # NoRequest /\ request[c].from = {t}}

IsRevoked(c, t) ==
    /\ request[c] = NoRequest /\ token[t] # NoToken /\ t \notin denied
    /\ request' = [request EXCEPT ![c] = [stage |-> "refresh", pw |-> token[t].pw, seen |-> stamps,
                                          late |-> token[t].late, from |-> {t}]]
    /\ excused' = IF Exchanging(t) = {} THEN excused ELSE excused \cup {t}
    /\ UNCHANGED <<second, rowVars, token, denied, stamps, unstamped, uses, sessionFaults>>

\* Mutant: a token of the second in which the sessions were ended is still good.
TooLate(iat) == iat >= validAfter

\* IssuedAt.Before(tokens_valid_after): the stamp's fraction puts its own second before it.
InTime(iat) == iat > validAfter

\* ... the account row, which may be frozen ...
RefreshRead(c) ==
    /\ request[c].stage = "refresh"
    /\ \E t \in request[c].from :
          \/ /\ InTime(token[t].iat)
             /\ request' = [request EXCEPT ![c].stage = "rotate", ![c].seen = stamps]
          \/ Ends(c)
    /\ UNCHANGED <<second, rowVars, token, denied, history, sessionFaults>>

\* Revoke, for a refresh and for a logout; a refresh goes on after its error.
Revoke(c) ==
    /\ request[c].stage = "rotate"
    /\ Goes(c, "issue")
    /\ \/ denied' = denied \cup request[c].from /\ UNCHANGED excused /\ Fine
       \/ excused' = excused \cup request[c].from /\ UNCHANGED denied /\ Fault
    /\ UNCHANGED <<second, rowVars, token, stamps, unstamped, uses>>

\* ... and the new pair, for a refresh as for a login without a second factor.
Issue(c) ==
    LET t == CHOOSE u \in SessionTokens : token[u] = NoToken IN
    /\ request[c].stage = "issue" /\ \E u \in SessionTokens : token[u] = NoToken
    /\ token' = [token EXCEPT ![t] = [iat |-> second, pw |-> request[c].pw,
                                      late |-> request[c].late \/ request[c].seen < stamps]]
    /\ uses' = [u \in SessionTokens |-> uses[u] + (IF u \in request[c].from THEN 1 ELSE 0)]
    /\ Ends(c)
    /\ UNCHANGED <<second, rowVars, denied, stamps, unstamped, excused, sessionFaults>>

Logout(t) ==
    /\ token[t] # NoToken
    /\ denied' = denied \cup {t}
    /\ UNCHANGED <<second, rowVars, token, request, history, sessionFaults>>

-----------------------------------------------------------------------------
RequestPasswordReset(r) ==
    /\ reset[r] = "none"
    /\ reset' = [reset EXCEPT ![r] = "sent"]
    /\ UNCHANGED <<second, login, passwords, validAfter, token, denied, request, history,
                   sessionFaults>>

\* CompletePasswordReset: one conditional update consumes the token ...
ConsumePasswordResetToken(c, r) ==
    /\ request[c] = NoRequest /\ reset[r] = "sent"
    /\ reset' = [reset EXCEPT ![r] = "used"]
    /\ request' = [request EXCEPT ![c] = [stage |-> "consumed", from |-> {}]]
    /\ UNCHANGED <<second, login, passwords, validAfter, token, denied, history,
                   sessionFaults>>

\* ... the failures are cleared (above), the password is changed ...
UpdatePassword(c) ==
    /\ request[c].stage = "cleared"
    /\ \/ Goes(c, "changed") /\ passwords' = passwords + 1 /\ unstamped' = TRUE /\ Fine
       \/ Ends(c) /\ UNCHANGED <<passwords, unstamped>> /\ Fault
    /\ UNCHANGED <<second, login, validAfter, reset, token, denied, stamps, uses, excused>>

\* ... and the sessions end, unless that statement fails after the change.
InvalidateSessions(c) ==
    /\ request[c].stage = "changed"
    /\ \/ validAfter' = second /\ stamps' = stamps + 1 /\ unstamped' = FALSE /\ Fine
       \/ UNCHANGED <<validAfter, stamps, unstamped>> /\ Fault
    /\ Ends(c)
    /\ UNCHANGED <<second, login, passwords, reset, token, denied, uses, excused>>

-----------------------------------------------------------------------------
\* A statement fails where the code returns its error, or the process ends there.
CallStops(c) ==
    /\ request[c] # NoRequest /\ Fault
    /\ Ends(c)
    /\ UNCHANGED <<second, rowVars, token, denied, history>>

\* A restart ends every call; the denylist is a table.
Restart ==
    /\ Fault
    /\ request' = [c \in SessionCalls |-> NoRequest]
    /\ UNCHANGED <<second, rowVars, token, denied, history>>

SecondPasses ==
    /\ second < LastSecond
    /\ second' = second + 1
    /\ UNCHANGED <<rowVars, token, denied, request, history, sessionFaults>>

SessionsNext ==
    \/ \E c \in SessionCalls :
          \/ LoginRead(c) \/ LoginLockedUntil(c) \/ RecordLoginFailure(c) \/ ClearLoginFailures(c)
          \/ RefreshRead(c) \/ Revoke(c) \/ Issue(c)
          \/ UpdatePassword(c) \/ InvalidateSessions(c) \/ CallStops(c)
          \/ \E t \in SessionTokens : IsRevoked(c, t)
          \/ \E r \in Resets : ConsumePasswordResetToken(c, r)
    \/ \E t \in SessionTokens : Logout(t)
    \/ \E r \in Resets : RequestPasswordReset(r)
    \/ LockExpires \/ Restart \/ SecondPasses

SessionsSpec == SessionsInit /\ [][SessionsNext]_sessionVars

-----------------------------------------------------------------------------
Refreshable(t) == token[t] # NoToken /\ t \notin denied /\ token[t].iat > validAfter

\* A session that began with an older password cannot be renewed once the sessions were
\* ended, except one whose new pair a call issued after the stamp on an account row it
\* read before it (auth/service.go Refresh, auth/twofactor_service.go CompletePasswordReset).
SessionsEnd ==
    \A t \in SessionTokens :
        Refreshable(t) /\ token[t].pw < passwords => unstamped \/ token[t].late

\* A refresh token is exchanged once, unless two calls passed the denylist before either
\* revoked it, or its revocation failed (auth/service.go, "single-use").
SingleUse == \A t \in SessionTokens \ excused : uses[t] <= 1

\* The lock is set exactly while the count stands at the limit, and only the attempts
\* already past the check, or let through by its error, go beyond it
\* (auth/lockout_repo.go).
LockHolds ==
    /\ (login.lock = "none") = (login.failures < MaxLoginFailures)
    /\ login.failures < MaxLoginFailures + Cardinality(SessionCalls) + sessionFaults

\* The three together, on well-formed states.
SessionsInv == SessionsTypeOK /\ SessionsEnd /\ SingleUse /\ LockHolds
=============================================================================
