------------------------------- MODULE Erasure -------------------------------
(***************************************************************************)
(* One account's identity records, data exports and deletion: an export is *)
(* written by a background job, the deletion cools, is approved, purges    *)
(* the archives, scrubs the account and is marked done, each a statement   *)
(* of its own (compliance/*.go, auth/kyc.go).                              *)
(***************************************************************************)
EXTENDS Naturals, FiniteSets

CONSTANTS
    MaxExports,         \* bound on export jobs
    MaxDeletions,       \* bound on deletion requests
    KYCRecords,         \* identity submissions
    Requesters,         \* concurrent RequestExport calls
    Erasers,         \* concurrent Execute calls
    MaxErasureFaults    \* bound on failed statements and crashes

ASSUME ErasureConstants == MaxExports \in Nat /\ MaxDeletions \in Nat /\ MaxErasureFaults \in Nat

Exports   == 1 .. MaxExports
Deletions == 1 .. MaxDeletions

VARIABLES
    scrubbed,       \* the users row holds no personal data
    identity,       \* users.kyc_status
    kyc,            \* kyc_records.verify_status
    deletion,       \* account_deletion_requests.status
    cooled,         \* requests whose cooling_until is past
    job,            \* data_export_jobs.status, "none" for no row
    keyed,          \* jobs whose object_key is set
    archive,        \* the stored zips: what each holds
    generator,      \* how far each generateJob has come
    asking,         \* RequestExport calls that found no job in progress
    erasing,      \* how far each Execute has come
    strays,         \* archives whose row is gone or never got its key
    erasureFaults

erasureVars == <<scrubbed, identity, kyc, deletion, cooled, job, keyed, archive, generator,
                 asking, erasing, strays, erasureFaults>>
accountRows == <<scrubbed, identity, kyc, deletion, cooled>>
exportState == <<job, keyed, archive, generator, asking, strays>>

Steady == UNCHANGED erasureFaults
Fails  == erasureFaults < MaxErasureFaults /\ erasureFaults' = erasureFaults + 1
NotErasing == [stage |-> "idle", request |-> 0, keys |-> {}]
Contents == {"none", "personal", "scrubbed"}

ErasureTypeOK ==
    /\ scrubbed \in BOOLEAN
    /\ identity \in {"none", "pending", "verified", "rejected"}
    /\ kyc \in [KYCRecords -> {"none", "pending", "verified", "rejected"}]
    /\ deletion \in [Deletions -> {"none", "cooling", "approved", "rejected", "cancelled", "deleted"}]
    /\ cooled \subseteq Deletions
    /\ job \in [Exports -> {"new", "none", "pending", "generating", "ready", "failed", "expired"}]
    /\ keyed \subseteq Exports /\ strays \subseteq Exports
    /\ archive \in [Exports -> Contents]
    /\ generator \in [Exports -> [stage: {"idle", "started", "generating", "collected", "stored"},
                                  holds: Contents]]
    /\ asking \subseteq Requesters
    /\ erasing \in [Erasers -> [stage: {"idle", "approved", "purged", "scrub", "scrubbed"},
                                     request: 0 .. MaxDeletions, keys: SUBSET Exports]]
    /\ erasureFaults \in 0 .. MaxErasureFaults

ErasureInit ==
    /\ scrubbed = FALSE /\ identity = "none" /\ erasureFaults = 0
    /\ kyc = [k \in KYCRecords |-> "none"]
    /\ deletion = [d \in Deletions |-> "none"]
    /\ job = [j \in Exports |-> "new"]
    /\ archive = [j \in Exports |-> "none"]
    /\ generator = [j \in Exports |-> [stage |-> "idle", holds |-> "none"]]
    /\ erasing = [e \in Erasers |-> NotErasing]
    /\ cooled = {} /\ keyed = {} /\ asking = {} /\ strays = {}

-----------------------------------------------------------------------------
\* The row and the user's status in one transaction.
SubmitKYC(k) ==
    /\ kyc[k] = "none"
    /\ kyc' = [kyc EXCEPT ![k] = "pending"]
    /\ identity' = "pending"
    /\ UNCHANGED <<scrubbed, deletion, cooled, exportState, erasing, erasureFaults>>

\* Whatever the record's status is, and whichever record it is; the verifier's verdict too.
ReviewKYC(k, verdict) ==
    /\ kyc[k] # "none"
    /\ kyc' = [kyc EXCEPT ![k] = verdict]
    /\ identity' = verdict
    /\ UNCHANGED <<scrubbed, deletion, cooled, exportState, erasing, erasureFaults>>

-----------------------------------------------------------------------------
Latest == {j \in Exports : job[j] \notin {"new", "none"} /\
                           \A i \in Exports : i > j => job[i] \in {"new", "none"}}

\* RequestExport: no row, or the latest one failed or expired ...
FindRecent(r) ==
    /\ r \notin asking
    /\ \A j \in Latest : job[j] \in {"failed", "expired"}
    /\ asking' = asking \cup {r}
    /\ UNCHANGED <<accountRows, job, keyed, archive, generator, erasing, strays, erasureFaults>>

\* ... then a new row and a goroutine.
CreateExport(r, j) ==
    /\ r \in asking /\ asking' = asking \ {r}
    /\ job[j] = "new" /\ \A i \in 1 .. j - 1 : job[i] # "new"
    /\ job' = [job EXCEPT ![j] = "pending"]
    /\ generator' = [generator EXCEPT ![j].stage = "started"]
    /\ UNCHANGED <<accountRows, keyed, archive, erasing, strays, erasureFaults>>

\* SET status WHERE id: nothing happens when the row is gone.
SetExport(j, status) == job' = [job EXCEPT ![j] = IF @ = "none" THEN "none" ELSE status]

\* generateJob: SetGenerating, its error ignored ...
SetGenerating(j) ==
    /\ generator[j].stage = "started"
    /\ \/ SetExport(j, "generating") /\ Steady
       \/ UNCHANGED job /\ Fails
    /\ generator' = [generator EXCEPT ![j].stage = "generating"]
    /\ UNCHANGED <<accountRows, keyed, archive, asking, erasing, strays>>

\* ... the user's data is collected, or the job has failed ...
Collect(j) ==
    /\ generator[j].stage = "generating"
    /\ \/ /\ generator' = [generator EXCEPT ![j] =
                [stage |-> "collected", holds |-> IF scrubbed THEN "scrubbed" ELSE "personal"]]
          /\ UNCHANGED job /\ Steady
       \/ /\ generator' = [generator EXCEPT ![j].stage = "idle"]
          /\ SetExport(j, "failed") /\ Fails
    /\ UNCHANGED <<accountRows, keyed, archive, asking, erasing, strays>>

\* ... the zip goes to the store, or to the cache when the store refuses it ...
StoreArchive(j) ==
    /\ generator[j].stage = "collected"
    /\ archive' = [archive EXCEPT ![j] = generator[j].holds]
    /\ generator' = [generator EXCEPT ![j] = [stage |-> "stored", holds |-> "none"]]
    /\ UNCHANGED <<accountRows, job, keyed, asking, erasing, strays, erasureFaults>>

\* ... and SetReady records its key, on a row that may be gone.
SetReady(j) ==
    /\ generator[j].stage = "stored"
    /\ generator' = [generator EXCEPT ![j].stage = "idle"]
    /\ \/ SetExport(j, "ready") /\ Steady
          /\ IF job[j] = "none" THEN keyed' = keyed /\ strays' = strays \cup {j}
                                ELSE keyed' = keyed \cup {j} /\ strays' = strays
       \/ strays' = strays \cup {j} /\ UNCHANGED <<job, keyed>> /\ Fails
    /\ UNCHANGED <<accountRows, archive, asking, erasing>>

\* ExpireOldJobs: the row only, its archive stays until a purge.
ExpireOldJobs ==
    /\ \E j \in Exports : job[j] = "ready"
    /\ \E old \in SUBSET {j \in Exports : job[j] = "ready"} :
          old # {} /\ job' = [j \in Exports |-> IF j \in old THEN "expired" ELSE job[j]]
    /\ UNCHANGED <<accountRows, keyed, archive, generator, asking, erasing, strays, erasureFaults>>

-----------------------------------------------------------------------------
\* One active request a user, by the partial unique index.
RequestDeletion(d) ==
    /\ deletion[d] = "none"
    /\ \A e \in Deletions : deletion[e] \notin {"cooling", "approved"}
    /\ deletion' = [deletion EXCEPT ![d] = "cooling"]
    /\ UNCHANGED <<scrubbed, identity, kyc, cooled, exportState, erasing, erasureFaults>>

CoolingEnds(d) ==
    /\ deletion[d] # "none" /\ d \notin cooled
    /\ cooled' = cooled \cup {d}
    /\ UNCHANGED <<scrubbed, identity, kyc, deletion, exportState, erasing, erasureFaults>>

\* Mutant: approval does not wait for the end of the cooling.
ApproveEarly(d, to) == deletion[d] = "cooling"

\* Transition is conditional on the status each of these has read; only an approval waits.
MayDecide(d, to) == deletion[d] = "cooling" /\ (to = "approved" => d \in cooled)

Decide(d, to) ==
    /\ MayDecide(d, to)
    /\ deletion' = [deletion EXCEPT ![d] = to]
    /\ UNCHANGED <<scrubbed, identity, kyc, cooled, exportState, erasing, erasureFaults>>

\* Execute: an approved request ...
ExecuteRead(e, d) ==
    /\ erasing[e] = NotErasing /\ deletion[d] = "approved"
    /\ erasing' = [erasing EXCEPT ![e] = [stage |-> "approved", request |-> d, keys |-> {}]]
    /\ UNCHANGED <<accountRows, exportState, erasureFaults>>

\* ... PurgeByUser deletes the rows and returns the keys they held ...
PurgeByUser(e) ==
    /\ erasing[e].stage = "approved"
    /\ erasing' = [erasing EXCEPT ![e].stage = "purged", ![e].keys = keyed]
    /\ job' = [j \in Exports |-> IF job[j] = "new" THEN "new" ELSE "none"]
    /\ keyed' = {}
    /\ UNCHANGED <<accountRows, archive, generator, asking, strays, erasureFaults>>

\* ... then the objects, one after another; an error ends the call with the rows gone ...
DeleteObject(e) ==
    /\ erasing[e].stage = "purged"
    /\ IF erasing[e].keys = {}
       THEN /\ erasing' = [erasing EXCEPT ![e].stage = "scrub"]
            /\ UNCHANGED <<archive, strays>> /\ Steady
       ELSE \/ \E j \in erasing[e].keys :
                  /\ archive' = [archive EXCEPT ![j] = "none"]
                  /\ erasing' = [erasing EXCEPT ![e].keys = @ \ {j}]
                  /\ UNCHANGED strays /\ Steady
            \/ /\ strays' = strays \cup erasing[e].keys
               /\ erasing' = [erasing EXCEPT ![e] = NotErasing]
               /\ UNCHANGED archive /\ Fails
    /\ UNCHANGED <<accountRows, job, keyed, generator, asking>>

\* ... the account is scrubbed in one transaction ...
ExecuteDeletion(e) ==
    /\ erasing[e].stage = "scrub"
    /\ scrubbed' = TRUE /\ identity' = "rejected"
    /\ erasing' = [erasing EXCEPT ![e].stage = "scrubbed"]
    /\ UNCHANGED <<kyc, deletion, cooled, exportState, erasureFaults>>

\* ... and the request is marked, whatever it is by then.
SetDeleted(e) ==
    /\ erasing[e].stage = "scrubbed"
    /\ deletion' = [deletion EXCEPT ![erasing[e].request] = "deleted"]
    /\ erasing' = [erasing EXCEPT ![e] = NotErasing]
    /\ UNCHANGED <<scrubbed, identity, kyc, cooled, exportState, erasureFaults>>

-----------------------------------------------------------------------------
\* A failed statement returned as an error, or the end of the process.
ExecuteStops(e) ==
    /\ erasing[e] # NotErasing /\ Fails
    /\ strays' = strays \cup erasing[e].keys
    /\ erasing' = [erasing EXCEPT ![e] = NotErasing]
    /\ UNCHANGED <<accountRows, job, keyed, archive, generator, asking>>

GeneratorStops(j) ==
    /\ generator[j].stage # "idle" /\ Fails
    /\ strays' = IF generator[j].stage = "stored" THEN strays \cup {j} ELSE strays
    /\ generator' = [generator EXCEPT ![j] = [stage |-> "idle", holds |-> "none"]]
    /\ UNCHANGED <<accountRows, job, keyed, archive, asking, erasing>>

ErasureNext ==
    \/ \E k \in KYCRecords : SubmitKYC(k) \/ \E v \in {"verified", "rejected"} : ReviewKYC(k, v)
    \/ \E r \in Requesters : FindRecent(r) \/ \E j \in Exports : CreateExport(r, j)
    \/ \E j \in Exports : \/ SetGenerating(j) \/ Collect(j) \/ StoreArchive(j) \/ SetReady(j)
                          \/ GeneratorStops(j)
    \/ ExpireOldJobs
    \/ \E d \in Deletions : \/ RequestDeletion(d) \/ CoolingEnds(d)
                            \/ \E to \in {"approved", "rejected", "cancelled"} : Decide(d, to)
    \/ \E e \in Erasers :
          \/ \E d \in Deletions : ExecuteRead(e, d)
          \/ PurgeByUser(e) \/ DeleteObject(e) \/ ExecuteDeletion(e) \/ SetDeleted(e)
          \/ ExecuteStops(e)

ErasureSpec == ErasureInit /\ [][ErasureNext]_erasureVars

-----------------------------------------------------------------------------
\* Every stored archive of personal data is one a purge would find: its row has the key,
\* or a generator or a purge still holds it.  The strays are those of an interrupted purge
\* or job, or of a job the purge overtook (compliance/export_service.go PurgeUser).
ArchivesFindable ==
    \A j \in Exports \ strays : archive[j] # "none" =>
        \/ j \in keyed \/ generator[j].stage = "stored"
        \/ \E e \in Erasers : j \in erasing[e].keys

\* Only a request that was left to cool and approved ever scrubs the account, and one
\* request at a time is under way (compliance/deletion_service.go).
ErasureDecided ==
    /\ scrubbed => \E d \in cooled : deletion[d] \in {"approved", "deleted"}
    /\ \A d \in Deletions : deletion[d] = "deleted" => scrubbed
    /\ Cardinality({d \in Deletions : deletion[d] \in {"cooling", "approved"}}) <= 1

\* A verified account has a verified record (auth/repo.go ReviewKYC).
IdentityBacked == identity = "verified" => \E k \in KYCRecords : kyc[k] = "verified"

\* The three together, on well-formed states.
ErasureInv == ErasureTypeOK /\ ArchivesFindable /\ ErasureDecided /\ IdentityBacked

=============================================================================
