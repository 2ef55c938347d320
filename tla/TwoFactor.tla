------------------------------ MODULE TwoFactor ------------------------------
(***************************************************************************)
(* The second factor of one account: enrolments that write a secret and a  *)
(* set of recovery codes one statement at a time, the verification that    *)
(* turns the factor on, and recovery codes redeemed for sessions           *)
(* (auth/twofactor_service.go, auth/twofactor_repo.go).  Disable2FA is not *)
(* here: its two statements in one parameterised Exec are refused by the   *)
(* driver, so it changes nothing.                                          *)
(***************************************************************************)
EXTENDS Naturals, FiniteSets

CONSTANTS
    Enrolments,      \* Enroll2FA calls, each with a secret of its own
    Verifications,   \* Verify2FAEnrollment calls
    Challenges,      \* Verify2FAChallenge calls with a recovery code
    CodesPerSecret   \* recovery codes of one enrolment

ASSUME TwoFactorConstants == CodesPerSecret \in Nat \ {0} /\ IsFiniteSet(Challenges)

VARIABLES
    enabled,    \* users.totp_enabled
    secret,     \* users.totp_secret, a set of at most one
    codes,      \* totp_recovery_codes with used_at NULL
    enrolment,  \* how far each enrolment has come, and the codes it has added
    verifying,  \* the secret each verification has read
    redeeming,  \* the code each challenge has matched
    redeemed,   \* sessions each code was exchanged for
    checked,    \* secrets whose code a verification accepted
    mixed       \* an enrolment or a verification began while another ran

factorVars == <<enabled, secret, codes, enrolment, verifying, redeeming, redeemed, checked, mixed>>

Codes == Enrolments \X (1 .. CodesPerSecret)

TwoFactorTypeOK ==
    /\ enabled \in BOOLEAN /\ mixed \in BOOLEAN
    /\ secret \subseteq Enrolments /\ checked \subseteq Enrolments /\ codes \subseteq Codes
    /\ enrolment \in [Enrolments -> [stage: {"new", "read", "secret", "codes", "done", "ended"},
                                     tried: 0 .. CodesPerSecret]]
    /\ verifying \in [Verifications -> SUBSET Enrolments]
    /\ redeeming \in [Challenges -> SUBSET Codes]
    /\ redeemed \in [Codes -> 0 .. Cardinality(Challenges)]

TwoFactorInit ==
    /\ enabled = FALSE /\ mixed = FALSE
    /\ secret = {} /\ checked = {} /\ codes = {}
    /\ enrolment = [e \in Enrolments |-> [stage |-> "new", tried |-> 0]]
    /\ verifying = [v \in Verifications |-> {}]
    /\ redeeming = [c \in Challenges |-> {}]
    /\ redeemed = [k \in Codes |-> 0]

InFlight == {e \in Enrolments : enrolment[e].stage \in {"read", "secret", "codes"}}
Verifying == {v \in Verifications : verifying[v] # {}}
Begins == mixed' = (mixed \/ InFlight # {} \/ Verifying # {})

-----------------------------------------------------------------------------
\* Enroll2FA: the account row, refused once the factor is on ...
EnrollRead(e) ==
    /\ enrolment[e].stage = "new" /\ ~enabled
    /\ enrolment' = [enrolment EXCEPT ![e].stage = "read"]
    /\ Begins
    /\ UNCHANGED <<enabled, secret, codes, verifying, redeeming, redeemed, checked>>

\* ... SetTOTPSecret ...
SetTOTPSecret(e) ==
    /\ enrolment[e].stage = "read"
    /\ secret' = {e}
    /\ enrolment' = [enrolment EXCEPT ![e].stage = "secret"]
    /\ UNCHANGED <<enabled, codes, verifying, redeeming, redeemed, checked, mixed>>

\* Mutant: the codes of an abandoned enrolment stay.
KeepRecoveryCodes(e) ==
    /\ enrolment[e].stage = "secret"
    /\ enrolment' = [enrolment EXCEPT ![e].stage = "codes"]
    /\ UNCHANGED <<enabled, secret, codes, verifying, redeeming, redeemed, checked, mixed>>

\* ... ClearRecoveryCodes ...
ClearRecoveryCodes(e) ==
    /\ enrolment[e].stage = "secret"
    /\ codes' = {}
    /\ enrolment' = [enrolment EXCEPT ![e].stage = "codes"]
    /\ UNCHANGED <<enabled, secret, verifying, redeeming, redeemed, checked, mixed>>

\* ... and one AddRecoveryCode after another; one that fails is left out.
AddRecoveryCode(e) ==
    /\ enrolment[e].stage = "codes" /\ enrolment[e].tried < CodesPerSecret
    /\ \E added \in SUBSET {<<e, enrolment[e].tried + 1>>} : codes' = codes \cup added
    /\ enrolment' = [enrolment EXCEPT ![e].tried = @ + 1]
    /\ UNCHANGED <<enabled, secret, verifying, redeeming, redeemed, checked, mixed>>

\* The secret is shown with the codes that were stored; with none the call fails.
EnrollReturns(e) ==
    /\ enrolment[e].stage = "codes" /\ enrolment[e].tried = CodesPerSecret
    /\ enrolment' = [enrolment EXCEPT ![e].stage =
                        IF \E k \in codes : k[1] = e THEN "done" ELSE "ended"]
    /\ UNCHANGED <<enabled, secret, codes, verifying, redeeming, redeemed, checked, mixed>>

EnrollStops(e) ==
    /\ e \in InFlight
    /\ enrolment' = [enrolment EXCEPT ![e].stage = "ended"]
    /\ UNCHANGED <<enabled, secret, codes, verifying, redeeming, redeemed, checked, mixed>>

-----------------------------------------------------------------------------
\* Verify2FAEnrollment: a code of the stored secret, which the user must have been shown ...
VerifyRead(v) ==
    /\ verifying[v] = {} /\ ~enabled
    /\ \E e \in secret : enrolment[e].stage = "done"
    /\ verifying' = [verifying EXCEPT ![v] = secret]
    /\ checked' = checked \cup secret
    /\ Begins
    /\ UNCHANGED <<enabled, secret, codes, enrolment, redeeming, redeemed>>

\* ... and EnableTOTP, whatever the secret is by then; or the call stops.
EnableTOTP(v) ==
    /\ verifying[v] # {}
    /\ verifying' = [verifying EXCEPT ![v] = {}]
    /\ enabled' \in {TRUE, enabled}
    /\ UNCHANGED <<secret, codes, enrolment, redeeming, redeemed, checked, mixed>>

-----------------------------------------------------------------------------
\* ConsumeRecoveryCode: an unused code matches ...
MatchCode(c, k) ==
    /\ enabled /\ redeeming[c] = {} /\ k \in codes
    /\ redeeming' = [redeeming EXCEPT ![c] = {k}]
    /\ UNCHANGED <<enabled, secret, codes, enrolment, verifying, redeemed, checked, mixed>>

\* ... and one conditional update uses it; the call that loses gets no session.
UseCode(c) ==
    /\ redeeming[c] # {}
    /\ codes' = codes \ redeeming[c]
    /\ redeemed' = [k \in Codes |-> redeemed[k] + (IF k \in redeeming[c] \cap codes THEN 1 ELSE 0)]
    /\ redeeming' = [redeeming EXCEPT ![c] = {}]
    /\ UNCHANGED <<enabled, secret, enrolment, verifying, checked, mixed>>

TwoFactorNext ==
    \/ \E e \in Enrolments : \/ EnrollRead(e) \/ SetTOTPSecret(e) \/ ClearRecoveryCodes(e)
                             \/ AddRecoveryCode(e) \/ EnrollReturns(e) \/ EnrollStops(e)
    \/ \E v \in Verifications : VerifyRead(v) \/ EnableTOTP(v)
    \/ \E c \in Challenges : UseCode(c) \/ \E k \in Codes : MatchCode(c, k)

TwoFactorSpec == TwoFactorInit /\ [][TwoFactorNext]_factorVars

-----------------------------------------------------------------------------
\* Unless two of the calls overlapped, the factor that is on has the secret the user
\* proved, and only the codes shown with it (auth/twofactor_service.go: an abandoned
\* enrolment's codes do not stay valid alongside the new ones).
FactorWhole ==
    enabled /\ ~mixed => /\ secret # {} /\ secret \subseteq checked
                         /\ \A k \in codes : k[1] \in secret

\* A code yields one session however many challenges match it at once
\* (auth/twofactor_repo.go ConsumeRecoveryCode).
CodeOnce == \A k \in Codes : redeemed[k] <= 1 /\ (redeemed[k] = 1 => k \notin codes)

\* The two together, on well-formed states.
TwoFactorInv == TwoFactorTypeOK /\ FactorWhole /\ CodeOnce
=============================================================================
