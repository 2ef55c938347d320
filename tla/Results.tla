-------------------------------- MODULE Results --------------------------------
(***************************************************************************)
(* What leaves the platform of a computation: the output of a job, the     *)
(* internal partial of a federated sub-job, the joint model, and the       *)
(* screen of an uploaded file; who may read the output, its certificate    *)
(* and its attestation, and what the public registry of certificates says  *)
(* (compute/service.go, federated.go, worker.go, certificate.go,           *)
(* screen_adhoc.go).                                                       *)
(*                                                                         *)
(* An output is its bytes, which stand for their own SHA-256: an output    *)
(* download hands the bytes, a certificate, a report or a row the          *)
(* fingerprint.  The worker stores the object, then the report, then moves *)
(* the row, then registers; a reader reads the row, then opens the object. *)
(* A worker whose lease ended works on, and stores under the same key.     *)
(* One result is followed at a time.                                       *)
(***************************************************************************)
EXTENDS FiniteSets

CONSTANTS
    Readers,             \* requests of users
    Viewers,             \* users
    Owner, DataOwner,    \* the buyer of the job, and the seller of its dataset
    Operator,            \* who reviews outputs
    Bytes, NoBytes       \* outputs a run may produce

ASSUME ResultConstants == {Owner, DataOwner, Operator} \subseteq Viewers /\ NoBytes \notin Bytes

VARIABLES
    result,       \* which kind of result this is
    state,        \* the status of its row
    made,         \* what the run produced
    object,       \* the object at its key
    pointed,      \* whether the row names the object
    attested,     \* the output named by the row's attestation report, or NoBytes
    registering,  \* whether its registration is the next step of whoever released it
    certificates, \* the public registry: the bytes certified for this result
    reader,       \* how far each reader has come
    late,         \* how far the worker that lost its lease has come
    overwritten,  \* history: it has stored an output or a report of its own
    shown         \* history: what each reader was handed last, <<user, what, bytes>>

workers    == <<late, overwritten>>
row        == <<state, pointed, attested, registering>>
resultVars == <<result, state, made, object, pointed, attested, registering, certificates, reader,
                late, overwritten, shown>>

\* A job's, the internal one of a federated sub-job, the joint one, the screen of a file.
Results == {"job", "partial", "joint", "screen"}
States  == {"running", "output_reviewing", "released", "rejected", "failed"}
Resting == [at |-> "idle"]
Nothing == <<Owner, "row", NoBytes>>   \* tells as little as no answer
ReaderStages == {Resting} \cup [at : {"output", "certificate"}, user : Viewers]

ResultsInit ==
    /\ result \in Results /\ state = "running" /\ made = NoBytes /\ object = NoBytes
    /\ pointed = "no" /\ attested = NoBytes /\ registering = "no"
    /\ certificates = {} /\ late = "no" /\ overwritten = FALSE
    /\ reader = [k \in Readers |-> Resting] /\ shown = [k \in Readers |-> Nothing]

-----------------------------------------------------------------------------
(***************************************************************************)
(* The worker, the aggregation and the reviewer.                           *)
(***************************************************************************)
Internal == UNCHANGED <<result, reader, workers, shown>>

\* The run ends with an output that passes the gate, or with none; a confidential run
\* brings a report.
RunEnds ==
    /\ state = "running" /\ made = NoBytes
    /\ \/ made' \in Bytes /\ UNCHANGED state
       \/ state' \in {"failed", "rejected"} /\ UNCHANGED made
    /\ UNCHANGED <<object, pointed, attested, registering, certificates>> /\ Internal

\* uploadOutput: the object is there before any row says so.
uploadOutput ==
    /\ state = "running" /\ made # NoBytes /\ object # made
    /\ \/ object' = made /\ UNCHANGED state
       \/ state' = "failed" /\ UNCHANGED object
    /\ UNCHANGED <<made, pointed, attested, registering, certificates>> /\ Internal

\* Before the row moves; when it fails the job goes on without a report.
SetAttestation ==
    /\ result \in {"job", "partial"} /\ state = "running" /\ object # NoBytes /\ attested = NoBytes
    /\ attested' = made
    /\ UNCHANGED <<state, made, object, pointed, registering, certificates>> /\ Internal

Settle(from, to) == /\ state \in from /\ object # NoBytes
                    /\ state' = to
                    /\ UNCHANGED <<made, object, attested, certificates>> /\ Internal

\* A sub-job is released internally: no review, no certificate.
ReleaseResult ==
    /\ result # "screen" /\ Settle({"running", "output_reviewing"}, "released")
    /\ pointed' = "yes"
    /\ registering' = IF result = "partial" THEN "no" ELSE "yes"

ParkResult == /\ result = "job" /\ Settle({"running"}, "output_reviewing")
              /\ pointed' = "yes" /\ UNCHANGED registering

\* Over the privacy budget, without a ledger, or refused by the reviewer: the row keeps
\* its report.
RefuseResult == /\ result # "screen"
                /\ \/ Settle({"running", "output_reviewing"}, "rejected")
                   \/ Settle({"running"}, "failed")
                /\ UNCHANGED <<pointed, registering>>

\* ReclaimStaleLeases: the job goes to another worker, or fails after its last attempt;
\* whoever had it works on.
ReclaimLease ==
    /\ result \in {"job", "partial"} /\ state = "running" /\ late = "no"
    /\ late' = "runs" /\ state' \in {"running", "failed"}
    /\ UNCHANGED <<result, made, object, pointed, attested, registering, certificates, reader,
                   overwritten, shown>>

\* Neither the upload nor SetAttestation asks for the job's status.
LateOutput ==
    /\ overwritten' = TRUE
    /\ \/ /\ late = "runs" /\ late' = "stored" /\ object' \in Bytes /\ UNCHANGED attested
       \/ /\ late = "stored" /\ late' = "over" /\ attested' \in Bytes /\ UNCHANGED object
    /\ UNCHANGED <<result, state, made, pointed, registering, certificates, reader, shown>>

\* Mutant: the job is registered when its output is stored.
registerAnyCert ==
    /\ object # NoBytes
    /\ certificates' = certificates \cup {object}
    /\ registering' = "no"
    /\ UNCHANGED <<state, made, object, pointed, attested>> /\ Internal

\* The registration is best effort: it may fail.
Register(b) ==
    /\ registering = "yes" /\ registering' = "no"
    /\ \/ certificates' = certificates \cup {b}
       \/ UNCHANGED certificates
    /\ UNCHANGED <<state, made, object, pointed, attested>> /\ Internal

\* A job's object is opened again and hashed; the joint bytes are at hand.
registerResultCert          == result = "job" /\ Register(object)
registerFederatedResultCert == result = "joint" /\ Register(made)

\* ScreenAdhoc registers what it stored and answers; when the registration fails,
\* whether it was made or not, the request fails and the object stays.
RegisterScreen ==
    /\ result = "screen" /\ state = "running" /\ object # NoBytes
    /\ \/ state' = "released" /\ certificates' = {object}
       \/ state' = "failed" /\ certificates' \in {{}, {object}}
    /\ UNCHANGED <<made, object, pointed, attested, registering>> /\ Internal

-----------------------------------------------------------------------------
(***************************************************************************)
(* Readers: first the row, then the object.                                *)
(***************************************************************************)
Reading == UNCHANGED <<result, row, made, object, certificates, workers>>

Hand(k, user, what, b) == /\ shown' = [shown EXCEPT ![k] = <<user, what, b>>]
                          /\ reader' = [reader EXCEPT ![k] = Resting]
                          /\ Reading

Look(k, user, what) == /\ reader' = [reader EXCEPT ![k] = [at |-> what, user |-> user]]
                       /\ UNCHANGED shown /\ Reading

Free(k) == reader[k] = Resting
Ready   == state = "released" /\ pointed = "yes"

\* A sub-job's row is an ordinary job's: the federated job it names refuses it.
OpenOutput(k, user) ==
    /\ Free(k) /\ result = "job" /\ user = Owner /\ Ready
    /\ Look(k, user, "output")

OpenFederatedOutput(k, user) ==
    /\ Free(k) /\ result = "joint" /\ user = Owner /\ Ready
    /\ Look(k, user, "output")

\* What is not released yet has a pending certificate, without a fingerprint.
GetJobCertificate(k, user) ==
    /\ Free(k) /\ result = "job" /\ user = Owner
    /\ IF Ready THEN Look(k, user, "certificate") ELSE Hand(k, user, "certificate", NoBytes)

GetFederatedCertificate(k, user) ==
    /\ Free(k) /\ result = "joint" /\ user = Owner
    /\ IF Ready THEN Look(k, user, "certificate") ELSE Hand(k, user, "certificate", NoBytes)

ReadObject(k) == ~Free(k) /\ Hand(k, reader[k].user, reader[k].at, object)

\* The report of a job, whatever its status, for its buyer and for its dataset's seller.
GetAttestation(k, user) ==
    /\ Free(k) /\ result = "job" /\ attested # NoBytes /\ user \in {Owner, DataOwner}
    /\ Hand(k, user, "attestation", attested)

\* A row carries its report.  The buyer lists all his jobs, those of a federated one
\* too, and sees these again with their parent.
ListJobs(k, user) ==
    /\ Free(k) /\ result \in {"job", "partial"} /\ user = Owner
    /\ Hand(k, user, "row", attested)

GetJob(k, user) ==
    /\ Free(k) /\ result = "job" /\ user = Owner
    /\ Hand(k, user, "row", attested)

GetFederatedJob(k, user) ==
    /\ Free(k) /\ result = "partial" /\ user = Owner
    /\ Hand(k, user, "row", attested)

\* The rows an operator has to review.
ListReviews(k, user) ==
    /\ Free(k) /\ result = "job" /\ user = Operator /\ state = "output_reviewing"
    /\ Hand(k, user, "row", attested)

ResultsNext ==
    \/ RunEnds \/ uploadOutput \/ SetAttestation \/ ReleaseResult \/ ParkResult \/ RefuseResult
    \/ registerResultCert \/ registerFederatedResultCert \/ RegisterScreen
    \/ ReclaimLease \/ LateOutput
    \/ \E k \in Readers : ReadObject(k) \/ \E user \in Viewers :
          \/ OpenOutput(k, user) \/ OpenFederatedOutput(k, user) \/ GetAttestation(k, user)
          \/ GetJobCertificate(k, user) \/ GetFederatedCertificate(k, user)
          \/ ListJobs(k, user) \/ GetJob(k, user) \/ GetFederatedJob(k, user)
          \/ ListReviews(k, user)

ResultsSpec == ResultsInit /\ [][ResultsNext]_resultVars

-----------------------------------------------------------------------------
Certified == {"output", "certificate"}   \* read from the object of a released row
Reported  == {"attestation", "row"}      \* read from the row's report

\* Every variable has its type.
ResultsTypeOK ==
    /\ result \in Results /\ state \in States
    /\ {made, object, attested} \subseteq Bytes \cup {NoBytes}
    /\ {pointed, registering} \subseteq {"no", "yes"} /\ certificates \subseteq Bytes
    /\ late \in {"no", "runs", "stored", "over"} /\ overwritten \in BOOLEAN
    /\ reader \in [Readers -> ReaderStages]
    /\ shown \in [Readers -> Viewers \X (Certified \cup Reported) \X (Bytes \cup {NoBytes})]

\* worker.go:393, federated.go:158: no bytes of a result that was not released, and no
\* certificate of it, reach anyone; nobody but the buyer gets those of one that was, and
\* nobody those of a partial, whatever moves between the row and the object.
OnlyReleasedShown ==
    \A k \in Readers : shown[k][2] \in Certified =>
        /\ result \in {"job", "joint"} /\ shown[k][1] = Owner
        /\ shown[k][3] # NoBytes => state = "released"

\* service.go:709: the report does tell the fingerprint of an output that is under
\* review, or was refused, but to the buyer, the reviewer and the dataset's seller only,
\* a partial's to the buyer only, and of no output but the one the run made.
ReportsKept ==
    \A k \in Readers : shown[k][2] \in Reported =>
        /\ shown[k][1] \in {Owner, DataOwner, Operator}
        /\ shown[k][3] # NoBytes =>
              /\ result \in {"job", "partial"} /\ (result = "partial" => shown[k][1] = Owner)
              /\ shown[k][3] = made \/ overwritten

\* certificate.go:18: the fingerprint the buyer is certified, the bytes he downloads and
\* the registered certificate agree, unless a worker without a lease overwrote the
\* object; the registry holds nothing of what was withheld or is internal, and a screen
\* that was answered is registered.
CertificateBinds ==
    /\ certificates # {} => result # "partial" /\ (state = "released" \/ result = "screen")
    /\ result = "screen" /\ state = "released" => certificates = {object}
    /\ ~overwritten => /\ certificates \subseteq {object}
                       /\ \A k \in Readers : shown[k][2] \in Certified =>
                                              shown[k][3] \in {NoBytes, object}

\* What the worker and a reader between the row and the object can rely on: the object
\* and its report are what the run made, and a row once ready stays so.
Established ==
    /\ ~overwritten => object \in {NoBytes, made} /\ attested \in {NoBytes, made}
    /\ overwritten \/ late # "no" => result \in {"job", "partial"}
    /\ pointed = "yes" => object # NoBytes
    /\ registering = "yes" => result \in {"job", "joint"} /\ Ready
    /\ \A k \in Readers :
          ~Free(k) => result \in {"job", "joint"} /\ reader[k].user = Owner /\ Ready

\* What is shown, what is registered and what makes them so, together: inductive.
ResultsInv == ResultsTypeOK /\ OnlyReleasedShown /\ ReportsKept /\ CertificateBinds /\ Established
=============================================================================
