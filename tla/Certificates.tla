---------------------------- MODULE Certificates ----------------------------
(***************************************************************************)
(* The public reads of a dataset: the registration certificate, made from  *)
(* three reads of the database and filed for public lookup, and the        *)
(* preview (dataset/service.go, dataset/certificate.go, verify/repo.go,    *)
(* verify/badge.go).                                                       *)
(*                                                                         *)
(* Everybody who moves the dataset's status read something earlier and     *)
(* then sets it without looking again (review.go, upload.go): a decision   *)
(* or a quality job meant for one version may land on another.  Uploads    *)
(* are numbered, the bytes of a version are its number, and an upload      *)
(* under the version's own file name lays its bytes over them.             *)
(***************************************************************************)
EXTENDS Naturals

CONSTANTS
    Readers,        \* public requests
    LastEdition     \* bound on the dataset's versions, numbered from 1

ASSUME CertificateConstants == LastEdition \in Nat \ {0}

Editions == 1 .. LastEdition
NoEdition == 0

VARIABLES
    shelf,        \* datasets.status and current_version_id
    laid,         \* the bytes under the current version's object key
    checked,      \* the bytes each version's quality_checks rows are about
    reviewed,     \* versions an operator has read as reviewing, to decide on
    forSale,       \* versions an operator has read as published, to delist
    request,      \* how far each request has come ...
    since,        \* ... the version that was on the market when it began ...
    gotBytes, gotChecks,   \* ... and what it has read
    certificates, \* what the public was given: the bytes certified and the checks shown
    registry,     \* the certificates table
    previews,     \* the bytes samples were shown of, and to whom
    \* history
    marketed,     \* versions that have been published
    hasty,        \* versions that a job or a decision for another one moved on
    replaced,     \* versions whose object a later upload of the same name replaced
    overtaken     \* requests during which the dataset changed

requests == <<request, since, gotBytes, gotChecks, certificates, registry, previews>>
desks    == <<reviewed, forSale>>
certVars == <<shelf, laid, checked, desks, requests, marketed, hasty, replaced, overtaken>>

CertificatesTypeOK ==
    /\ shelf \in [status: {"draft", "uploading", "checking", "reviewing", "rejected", "published",
                           "delisted"}, version: Editions \cup {NoEdition}]
    /\ laid \in Editions \cup {NoEdition}
    /\ checked \in [Editions -> Editions \cup {NoEdition}]
    /\ reviewed \subseteq Editions /\ forSale \subseteq Editions
    /\ request \in [Readers -> {"idle", "found", "meta", "checks", "key", "over"}]
    /\ since \in [Readers -> Editions \cup {NoEdition}]
    /\ gotBytes \in [Readers -> Editions \cup {NoEdition}]
    /\ gotChecks \in [Readers -> Editions \cup {NoEdition}]
    /\ certificates \subseteq [by: Readers, since: Editions, bytes: Editions,
                               quality: Editions \cup {NoEdition}]
    /\ registry \subseteq Editions
    /\ previews \subseteq [by: Readers, since: Editions, bytes: Editions]
    /\ marketed \subseteq Editions /\ hasty \subseteq Editions /\ replaced \subseteq Editions
    /\ overtaken \subseteq Readers

CertificatesInit ==
    /\ shelf = [status |-> "draft", version |-> NoEdition]
    /\ laid = NoEdition
    /\ checked = [v \in Editions |-> NoEdition]
    /\ request = [r \in Readers |-> "idle"]
    /\ since = [r \in Readers |-> NoEdition]
    /\ gotBytes = [r \in Readers |-> NoEdition] /\ gotChecks = [r \in Readers |-> NoEdition]
    /\ reviewed = {} /\ forSale = {} /\ certificates = {} /\ registry = {} /\ previews = {}
    /\ marketed = {} /\ hasty = {} /\ replaced = {} /\ overtaken = {}

-----------------------------------------------------------------------------
\* The dataset changes under the requests.

Version == shelf.version
Reading == {r \in Readers : request[r] \notin {"idle", "over"}}
SetStatus(s) == shelf' = [shelf EXCEPT !.status = s] /\ overtaken' = overtaken \cup Reading

\* Whoever acts for version v moves the current one; that is hasty unless it is v.
Moves(v) == hasty' = hasty \cup ({Version} \ {v, NoEdition})

\* A seller who read an editable status, the draft's to begin with.
StartUpload ==
    /\ SetStatus("uploading")
    /\ UNCHANGED <<laid, checked, desks, requests, marketed, hasty, replaced>>

\* CompleteUpload assembles the object, here under the name of the current one ...
ReplaceObject ==
    /\ Version \in 1 .. LastEdition - 1 /\ laid = Version
    /\ laid' = Version + 1
    /\ replaced' = replaced \cup {Version}
    /\ overtaken' = overtaken \cup Reading
    /\ UNCHANGED <<shelf, checked, desks, requests, marketed, hasty>>

\* ... and adds the version, under that name or another.
AddEdition ==
    /\ Version < LastEdition
    /\ shelf' = [status |-> "checking", version |-> Version + 1]
    /\ laid' = Version + 1
    /\ overtaken' = overtaken \cup Reading
    /\ UNCHANGED <<checked, desks, requests, marketed, hasty, replaced>>

\* processQuality saves what it found in the bytes it read under the key ...
SaveQualityChecks(v) ==
    /\ v <= Version
    /\ \E b \in v .. laid : checked' = [checked EXCEPT ![v] = b]
    /\ UNCHANGED <<shelf, laid, desks, requests, marketed, hasty, replaced, overtaken>>

\* ... and then sets the status, as may a job tried again later.
FinishQuality(v) ==
    /\ checked[v] # NoEdition
    /\ \E s \in {"reviewing", "draft"} : SetStatus(s)
    /\ Moves(v)
    /\ UNCHANGED <<laid, checked, desks, requests, marketed, replaced>>

\* Review and Delist read the status ...
ReadToReview ==
    /\ shelf.status = "reviewing"
    /\ reviewed' = reviewed \cup ({Version} \ {NoEdition})
    /\ UNCHANGED <<shelf, laid, checked, forSale, requests, marketed, hasty, replaced, overtaken>>

ReadToDelist ==
    /\ shelf.status = "published"
    /\ forSale' = forSale \cup ({Version} \ {NoEdition})
    /\ UNCHANGED <<shelf, laid, checked, reviewed, requests, marketed, hasty, replaced, overtaken>>

\* ... and set it, whatever it is by then, and whichever version is current.
Publish(v) ==
    /\ v \in reviewed
    /\ SetStatus("published")
    /\ Moves(v)
    /\ marketed' = marketed \cup {Version}
    /\ UNCHANGED <<laid, checked, desks, requests, replaced>>

TakeDown(v) ==
    /\ \/ v \in reviewed /\ SetStatus("rejected")
       \/ v \in forSale /\ SetStatus("delisted")
    /\ UNCHANGED <<laid, checked, desks, requests, marketed, hasty, replaced>>

-----------------------------------------------------------------------------
\* The requests.

dataset == <<shelf, laid, checked, desks, marketed, hasty, replaced, overtaken>>
Goes(r, from, to) == request[r] = from /\ request' = [request EXCEPT ![r] = to]
Finds(r) == /\ Goes(r, "idle", "found")
            /\ since' = [since EXCEPT ![r] = Version]
            /\ UNCHANGED <<dataset, gotBytes, gotChecks, certificates, registry, previews>>

\* Mutant: a dataset is found whatever its status.
FindAny(r) == Version # NoEdition /\ Finds(r)

\* getPublished: what is not on the market is not found.
getPublished(r) == shelf.status = "published" /\ Finds(r)

\* CurrentVersionMeta: the hash in the row of the version that is current by now.
CurrentVersionMeta(r) ==
    /\ Goes(r, "found", "meta")
    /\ gotBytes' = [gotBytes EXCEPT ![r] = Version]
    /\ UNCHANGED <<dataset, since, gotChecks, certificates, registry, previews>>

\* ListQualityChecks joins on the current version.
ListQualityChecks(r) ==
    /\ Goes(r, "meta", "checks")
    /\ gotChecks' = [gotChecks EXCEPT ![r] = checked[Version]]
    /\ UNCHANGED <<dataset, since, gotBytes, certificates, registry, previews>>

BuildCertificate(r) ==
    [by |-> r, since |-> since[r], bytes |-> gotBytes[r], quality |-> gotChecks[r]]

\* Register files the id once; its error is ignored, the certificate is given.
Certificate(r) ==
    /\ Goes(r, "checks", "over")
    /\ certificates' = certificates \cup {BuildCertificate(r)}
    /\ registry' \in {registry, registry \cup {gotBytes[r]}}
    /\ UNCHANGED <<dataset, since, gotBytes, gotChecks, previews>>

\* Preview: the status, then the current object's key, then the bytes under it.
CurrentKey(r) ==
    /\ Goes(r, "found", "key")
    /\ gotBytes' = [gotBytes EXCEPT ![r] = Version]
    /\ UNCHANGED <<dataset, since, gotChecks, certificates, registry, previews>>

BytesUnder(v) == IF v = Version THEN {laid} ELSE v .. laid

Preview(r) ==
    /\ Goes(r, "key", "over")
    /\ \E b \in BytesUnder(gotBytes[r]) :
          previews' = previews \cup {[by |-> r, since |-> since[r], bytes |-> b]}
    /\ UNCHANGED <<dataset, since, gotBytes, gotChecks, certificates, registry>>

-----------------------------------------------------------------------------
CertificatesNext ==
    \/ StartUpload \/ ReplaceObject \/ AddEdition \/ ReadToReview \/ ReadToDelist
    \/ \E v \in Editions : SaveQualityChecks(v) \/ FinishQuality(v) \/ Publish(v) \/ TakeDown(v)
    \/ \E r \in Readers :
          \/ getPublished(r) \/ CurrentVersionMeta(r) \/ ListQualityChecks(r)
          \/ Certificate(r) \/ CurrentKey(r) \/ Preview(r)

CertificatesSpec == CertificatesInit /\ [][CertificatesNext]_certVars

-----------------------------------------------------------------------------
\* A request the dataset did not change under certifies the version on the
\* market, with the checks of its very bytes, unless a job or a decision meant
\* for another version put it there or its object was replaced in place; the
\* sample is of its bytes, unless replaced (dataset/service.go, review.go:35-47).
CertificateWhole ==
    /\ \A c \in certificates : c.by \notin overtaken =>
          c.bytes \in marketed /\ (c.bytes \in hasty \cup replaced \/ c.quality = c.bytes)
    /\ \A p \in previews : p.by \notin overtaken => p.since = p.bytes \/ p.since \in replaced

\* However the dataset changes between the reads of a request, it began on the
\* market and only moves forward: the bytes and the checks shown are never those
\* of a version older than the one it began with, nor the checks older than the
\* bytes they are shown with.
NothingOlder ==
    /\ \A c \in certificates : /\ c.since \in marketed /\ c.since <= c.bytes
                               /\ c.quality = NoEdition \/ c.bytes <= c.quality
    /\ \A p \in previews : p.since \in marketed /\ p.since <= p.bytes

\* Whatever happens under a request, what the register lists are bytes that were
\* the dataset's, with a certificate given out for them.
RegistryBacked ==
    \A v \in registry : v <= Version /\ \E c \in certificates : c.bytes = v

\* What a certificate or a sample says of its dataset, and the registry behind it.
CertificatesInv == CertificatesTypeOK /\ CertificateWhole /\ NothingOlder /\ RegistryBacked
=============================================================================
