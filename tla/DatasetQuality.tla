--------------------------- MODULE DatasetQuality ---------------------------
(***************************************************************************)
(* One dataset from its draft to the market: the seller's declaration,     *)
(* the multipart uploads that become versions, the quality queue with its  *)
(* workers, its retry row and its scanner, the ops review and the          *)
(* delisting (dataset/service.go, upload.go, review.go, repo.go).          *)
(*                                                                         *)
(* An upload session that completes becomes one version, so a version is   *)
(* named by its upload.  Every SetStatus of the code is unconditional:     *)
(* what was read before it is kept in the actor that read it.              *)
(***************************************************************************)
EXTENDS Naturals, Sequences, FiniteSets

CONSTANTS
    Uploads,        \* upload sessions, and the versions they become
    NoUpload,       \* no current version yet
    Names,          \* sanitized file names
    NameOf,         \* the file name each session uploads under
    Clean,          \* the uploads without personal data
    QWorkers,       \* goroutines of the worker pool
    Operators,      \* ops staff
    QueueCap,       \* capacity of the quality channel
    MaxAttempts,    \* attempts a retry row allows
    QFaults         \* bound on crashes and failed calls

ASSUME DatasetConstants ==
    /\ NoUpload \notin Uploads
    /\ NameOf \in [Uploads -> Names]
    /\ Clean \subseteq Uploads
    /\ QueueCap \in Nat \ {0} /\ MaxAttempts \in Nat \ {0} /\ QFaults \in Nat

VARIABLES
    status,      \* datasets.status
    signed,      \* datasets.source_signed_at is set
    declared,    \* source_declaration.contains_pii
    current,     \* datasets.current_version_id
    object,      \* whose bytes each object key holds
    up,          \* how far each upload session has come
    checks,      \* the quality_checks rows of each version
    queue,       \* the quality channel
    row,         \* the dataset's quality_retries row
    qworker,     \* what each worker is doing
    listed,      \* the due row the scanner has read and not yet re-enqueued
    ops,         \* what each operator has read and not yet written
    sold,        \* versions some order has pinned
    approved,    \* the version the last approval was given for
    overlap,     \* a version was added, or the declaration edited, over open work
    stranded,    \* the dataset's quality job was lost in a known way
    qfaults

qvars == <<status, signed, declared, current, object, up, checks, queue, row, qworker,
           listed, ops, sold, approved, overlap, stranded, qfaults>>

Statuses == {"draft", "uploading", "checking", "reviewing", "published", "rejected", "delisted"}
Flags == {"no", "yes"}
Job == [version: Uploads]
Idle == [stage |-> "idle"]
NoRow == [attempts |-> MaxAttempts + QFaults + 1]
NoCheck == [result |-> "none"]

DatasetTypeOK ==
    /\ status \in Statuses
    /\ signed \in Flags /\ declared \in Flags /\ overlap \in Flags /\ stranded \in Flags
    /\ current \in Uploads \cup {NoUpload} /\ approved \in Uploads \cup {NoUpload}
    /\ object \in [Names -> Uploads \cup {NoUpload}]
    /\ up \in [Uploads -> {"none", "starting", "open", "assembled", "added", "persisted",
                           "done", "dead"}]
    /\ checks \in [Uploads -> {NoCheck} \cup [bytes: Uploads, result: {"pass", "fail"}]]
    /\ queue \in Seq(Uploads) /\ Len(queue) <= QueueCap
    /\ row \in {NoRow} \cup [version: Uploads, attempts: 0 .. MaxAttempts + QFaults]
    /\ qworker \in [QWorkers ->
            {Idle} \cup [stage: {"read", "saved", "set"}, version: Uploads, bytes: Uploads,
                         result: {"pass", "fail"}]]
    /\ listed \in Uploads \cup {NoUpload}
    /\ ops \in [Operators -> {Idle} \cup [stage: {"review", "delist"}, version: Uploads]]
    /\ sold \subseteq Uploads
    /\ qfaults \in 0 .. QFaults

DatasetInit ==
    /\ status = "draft" /\ signed = "no" /\ declared \in Flags
    /\ current = NoUpload /\ approved = NoUpload
    /\ object = [n \in Names |-> NoUpload]
    /\ up = [u \in Uploads |-> "none"]
    /\ checks = [u \in Uploads |-> NoCheck]
    /\ queue = <<>> /\ row = NoRow
    /\ qworker = [w \in QWorkers |-> Idle]
    /\ listed = NoUpload
    /\ ops = [o \in Operators |-> Idle]
    /\ sold = {} /\ overlap = "no" /\ stranded = "no" /\ qfaults = 0

-----------------------------------------------------------------------------
\* What the seller may edit, and what carries the dataset out of "checking".

Editable == status \in {"draft", "rejected"}
Uploadable == Editable \/ status = "uploading"

RowUsable == row # NoRow /\ row.attempts < MaxAttempts

Working == \E w \in QWorkers : qworker[w].stage \in {"read", "saved"}

Completing == {u \in Uploads : up[u] \in {"assembled", "added", "persisted"}}

Carried == \/ \E u \in Uploads : up[u] \in {"added", "persisted"}
           \/ queue # <<>> \/ Working \/ RowUsable \/ listed # NoUpload

\* Work that a new version, or an edited declaration, can overtake.
InFlight(u) == \/ Completing \ {u} # {}
               \/ queue # <<>> \/ row # NoRow \/ listed # NoUpload
               \/ \E w \in QWorkers : qworker[w] # Idle
               \/ \E o \in Operators : ops[o] # Idle

NoteOverlap(u) == overlap' = IF InFlight(u) THEN "yes" ELSE overlap

\* EnqueueQualityRetry: one row per dataset, its attempts start again.
Persisted(u) == [version |-> u, attempts |-> 0]

\* enqueueQuality: to the channel, or to the retry row when the channel is full.
EnqueueQuality(u) ==
    IF Len(queue) < QueueCap
    THEN queue' = Append(queue, u) /\ UNCHANGED row
    ELSE row' = Persisted(u) /\ UNCHANGED queue

-----------------------------------------------------------------------------
\* The seller: Update, SignSource, InitUpload, CompleteUpload.

Update ==
    /\ Editable
    /\ declared' \in Flags \ {declared}
    /\ NoteOverlap(NoUpload)
    /\ UNCHANGED <<status, signed, current, object, up, checks, queue, row, qworker, listed,
                   ops, sold, approved, stranded, qfaults>>

SignSource ==
    /\ signed = "no"
    /\ signed' = "yes"
    /\ UNCHANGED <<status, declared, current, object, up, checks, queue, row, qworker, listed,
                   ops, sold, approved, overlap, stranded, qfaults>>

\* InitUpload reads the status and opens the multipart upload ...
InitUpload(u) ==
    /\ up[u] = "none" /\ Uploadable /\ signed = "yes"
    /\ up' = [up EXCEPT ![u] = "starting"]
    /\ UNCHANGED <<status, signed, declared, current, object, checks, queue, row, qworker,
                   listed, ops, sold, approved, overlap, stranded, qfaults>>

\* ... and then sets the status, whatever it has become.
MarkUploading(u) ==
    /\ up[u] = "starting"
    /\ up' = [up EXCEPT ![u] = "open"]
    /\ status' = "uploading"
    /\ UNCHANGED <<signed, declared, current, object, checks, queue, row, qworker, listed,
                   ops, sold, approved, overlap, stranded, qfaults>>

\* The storage assembles the parts under the session's key, over what is there.
Assembled(u) == [object EXCEPT ![NameOf[u]] = u]

\* CompleteUpload looks at the owner only, never at the status.
CompleteMultipart(u) ==
    /\ up[u] = "open"
    /\ up' = [up EXCEPT ![u] = "assembled"]
    /\ object' = Assembled(u)
    /\ NoteOverlap(u)
    /\ UNCHANGED <<status, signed, declared, current, checks, queue, row, qworker, listed,
                   ops, sold, approved, stranded, qfaults>>

AddVersion(u) ==
    /\ up[u] = "assembled"
    /\ up' = [up EXCEPT ![u] = "added"]
    /\ current' = u /\ status' = "checking"
    /\ NoteOverlap(u)
    /\ UNCHANGED <<signed, declared, object, checks, queue, row, qworker, listed, ops, sold,
                   approved, stranded, qfaults>>

PersistJob(u) ==
    /\ up[u] = "added"
    /\ up' = [up EXCEPT ![u] = "persisted"]
    /\ row' = Persisted(u)
    /\ UNCHANGED <<status, signed, declared, current, object, checks, queue, qworker, listed,
                   ops, sold, approved, overlap, stranded, qfaults>>

DispatchJob(u) ==
    /\ up[u] = "persisted"
    /\ up' = [up EXCEPT ![u] = "done"]
    /\ EnqueueQuality(u)
    /\ UNCHANGED <<status, signed, declared, current, object, checks, qworker, listed, ops,
                   sold, approved, overlap, stranded, qfaults>>

-----------------------------------------------------------------------------
\* The worker pool.  processQuality examines the bytes of the version that is
\* current when it runs and files the result under the job's version.

Passes(bytes) == bytes \in Clean \/ declared = "yes"

ExamineObject(w) ==
    /\ qworker[w] = Idle /\ queue # <<>> /\ current # NoUpload
    /\ LET bytes == object[NameOf[current]]
       IN qworker' = [qworker EXCEPT ![w] =
             [stage |-> "read", version |-> Head(queue), bytes |-> bytes,
              result |-> IF Passes(bytes) THEN "pass" ELSE "fail"]]
    /\ queue' = Tail(queue)
    /\ UNCHANGED <<status, signed, declared, current, object, up, checks, row, listed, ops,
                   sold, approved, overlap, stranded, qfaults>>

SaveChecks(w) ==
    /\ qworker[w].stage = "read"
    /\ checks' = [checks EXCEPT ![qworker[w].version] =
                    [bytes |-> qworker[w].bytes, result |-> qworker[w].result]]
    /\ qworker' = [qworker EXCEPT ![w].stage = "saved"]
    /\ UNCHANGED <<status, signed, declared, current, object, up, queue, row, listed, ops,
                   sold, approved, overlap, stranded, qfaults>>

\* Mutant: a failed check does not bounce the dataset.
AdvanceAnyway(w) ==
    /\ qworker[w].stage = "saved"
    /\ status' = "reviewing"
    /\ qworker' = [qworker EXCEPT ![w].stage = "set"]
    /\ UNCHANGED <<signed, declared, current, object, up, checks, queue, row, listed, ops,
                   sold, approved, overlap, stranded, qfaults>>

AdvanceStatus(w) ==
    /\ qworker[w].stage = "saved"
    /\ status' = IF qworker[w].result = "pass" THEN "reviewing" ELSE "draft"
    /\ qworker' = [qworker EXCEPT ![w].stage = "set"]
    /\ UNCHANGED <<signed, declared, current, object, up, checks, queue, row, listed, ops,
                   sold, approved, overlap, stranded, qfaults>>

\* A success deletes the dataset's row, also when a newer version waits on it.
ClearRetry(w) ==
    /\ qworker[w].stage = "set"
    /\ stranded' = IF row # NoRow /\ current # qworker[w].version THEN "yes" ELSE stranded
    /\ row' = NoRow
    /\ qworker' = [qworker EXCEPT ![w] = Idle]
    /\ UNCHANGED <<status, signed, declared, current, object, up, checks, queue, listed, ops,
                   sold, approved, overlap, qfaults>>

\* A failed read or write: every error that reaches the worker is transient.
MarkAttempt(w) ==
    /\ qworker[w].stage \in {"read", "saved"} /\ qfaults < QFaults
    /\ qfaults' = qfaults + 1
    /\ qworker' = [qworker EXCEPT ![w] = Idle]
    /\ row' = IF row = NoRow THEN row ELSE [row EXCEPT !.attempts = @ + 1]
    /\ stranded' = IF row # NoRow /\ row.attempts + 1 >= MaxAttempts THEN "yes" ELSE stranded
    /\ UNCHANGED <<status, signed, declared, current, object, up, checks, queue, listed, ops,
                   sold, approved, overlap>>

\* Mutant: the scanner leaves out a row that was tried before.
ScanFresh ==
    /\ listed = NoUpload /\ row # NoRow /\ row.attempts = 0
    /\ listed' = row.version
    /\ UNCHANGED <<status, signed, declared, current, object, up, checks, queue, row, qworker,
                   ops, sold, approved, overlap, stranded, qfaults>>

\* The scanner lists the due row; a job that is still queued or running is due too.
ScanRetries ==
    /\ listed = NoUpload /\ RowUsable
    /\ listed' = row.version
    /\ UNCHANGED <<status, signed, declared, current, object, up, checks, queue, row, qworker,
                   ops, sold, approved, overlap, stranded, qfaults>>

Reenqueue ==
    /\ listed # NoUpload
    /\ EnqueueQuality(listed)
    /\ listed' = NoUpload
    /\ UNCHANGED <<status, signed, declared, current, object, up, checks, qworker, ops, sold,
                   approved, overlap, stranded, qfaults>>

-----------------------------------------------------------------------------
\* Review and Delist: a read that checks the status, then SetStatus.

OpsReads(o) ==
    /\ ops[o] = Idle /\ status \in {"reviewing", "published"}
    /\ ops' = [ops EXCEPT ![o] =
                [stage |-> IF status = "reviewing" THEN "review" ELSE "delist",
                 version |-> current]]
    /\ UNCHANGED <<status, signed, declared, current, object, up, checks, queue, row, qworker,
                   listed, sold, approved, overlap, stranded, qfaults>>

Review(o) ==
    /\ ops[o].stage = "review"
    /\ \/ status' = "published" /\ approved' = ops[o].version
       \/ status' = "rejected" /\ UNCHANGED approved
    /\ ops' = [ops EXCEPT ![o] = Idle]
    /\ UNCHANGED <<signed, declared, current, object, up, checks, queue, row, qworker, listed,
                   sold, overlap, stranded, qfaults>>

Delist(o) ==
    /\ ops[o].stage = "delist"
    /\ status' = "delisted"
    /\ ops' = [ops EXCEPT ![o] = Idle]
    /\ UNCHANGED <<signed, declared, current, object, up, checks, queue, row, qworker, listed,
                   sold, approved, overlap, stranded, qfaults>>

\* ForPurchase: an order pins the version that is current while published.
ForPurchase ==
    /\ status = "published" /\ current \notin sold
    /\ sold' = sold \cup {current}
    /\ UNCHANGED <<status, signed, declared, current, object, up, checks, queue, row, qworker,
                   listed, ops, approved, overlap, stranded, qfaults>>

-----------------------------------------------------------------------------
\* Faults: EnqueueQualityRetry's error is ignored; the process restarts and
\* loses its handlers, its channel and its workers; the database survives.

PersistFails(u) ==
    /\ up[u] = "added" /\ qfaults < QFaults
    /\ qfaults' = qfaults + 1
    /\ up' = [up EXCEPT ![u] = "persisted"]
    /\ stranded' = "yes"
    /\ UNCHANGED <<status, signed, declared, current, object, checks, queue, row, qworker,
                   listed, ops, sold, approved, overlap>>

Restart ==
    /\ qfaults < QFaults
    /\ qfaults' = qfaults + 1
    /\ stranded' = IF \E u \in Uploads : up[u] = "added" THEN "yes" ELSE stranded
    /\ up' = [u \in Uploads |->
                IF up[u] = "starting" \/ u \in Completing THEN "dead" ELSE up[u]]
    /\ queue' = <<>> /\ listed' = NoUpload
    /\ qworker' = [w \in QWorkers |-> Idle]
    /\ ops' = [o \in Operators |-> Idle]
    /\ UNCHANGED <<status, signed, declared, current, object, checks, row, sold, approved,
                   overlap>>

-----------------------------------------------------------------------------
SellerStep(u) ==
    \/ InitUpload(u) \/ MarkUploading(u) \/ CompleteMultipart(u)
    \/ AddVersion(u) \/ PersistJob(u) \/ DispatchJob(u)

WorkerStep(w) == ExamineObject(w) \/ SaveChecks(w) \/ AdvanceStatus(w) \/ ClearRetry(w)

OpsStep(o) == OpsReads(o) \/ Review(o) \/ Delist(o)

DatasetNext ==
    \/ Update \/ SignSource \/ ForPurchase
    \/ ScanRetries \/ Reenqueue \/ Restart
    \/ \E u \in Uploads : SellerStep(u) \/ PersistFails(u)
    \/ \E w \in QWorkers : WorkerStep(w) \/ MarkAttempt(w)
    \/ \E o \in Operators : OpsStep(o)

\* The goroutines run on: a completion past AddVersion goes on to its end, the
\* workers drain the channel and the scanner ticks for ever.
DatasetFairness ==
    /\ \A u \in Uploads : WF_qvars(PersistJob(u) \/ DispatchJob(u))
    /\ \A w \in QWorkers : WF_qvars(WorkerStep(w))
    /\ WF_qvars(ScanRetries) /\ WF_qvars(Reenqueue)

DatasetSpec == DatasetInit /\ [][DatasetNext]_qvars /\ DatasetFairness

-----------------------------------------------------------------------------
\* While no version is added over unfinished work on an older one, what waits
\* for review or is on the market is a version whose own bytes were examined
\* and passed, and what is on the market is what the operator approved
\* (upload.go processQuality, review.go Review: neither write is conditional).
PublishedChecked ==
    (overlap = "no" /\ status \in {"reviewing", "published"}) =>
        /\ checks[current] = [bytes |-> current, result |-> "pass"]
        /\ status = "published" => approved = current

\* A dataset under checking has something that will take it out: a completion
\* still to enqueue, a job in the channel or a worker, or a usable retry row,
\* unless the job was lost in one of the ways the code leaves open.
NoJobLost == (status = "checking" /\ stranded = "no") => Carried

\* No other session uploads under this one's file name.
OwnName(v) == \A u \in Uploads : NameOf[u] = NameOf[v] => u = v

\* Bytes an order has pinned stay under their object key unless another session
\* uploads under the same file name (upload.go InitUpload's object key).
PinnedBytes == \A v \in sold : OwnName(v) => object[NameOf[v]] = v

\* A dataset leaves "checking", or its job was lost in a known way.
CheckingEnds == (status = "checking") ~> (status # "checking" \/ stranded = "yes")

\* What the upload, the quality queue and the review owe the buyers, together.
DatasetInv == DatasetTypeOK /\ PublishedChecked /\ NoJobLost /\ PinnedBytes
=============================================================================
