------------------------- MODULE WorkbenchArtifacts -------------------------
(***************************************************************************)
(* The artifact quotas of one workspace and StoreArtifact: handlers, also  *)
(* of one artifact, reserve bytes, upload an object under a key made of    *)
(* the ids, insert the metadata and commit the reservation, or undo what   *)
(* they did.  A runtime that stores an artifact itself uses the quota      *)
(* alone.  ReserveArtifact is a transaction under the account's lock.      *)
(***************************************************************************)
EXTENDS Integers, FiniteSetsExt

CONSTANTS
  Stores,       \* handlers of StoreArtifact
  Artifacts,    \* artifact ids stored through StoreArtifact
  Remote,       \* artifact ids a runtime stores itself
  ArtifactRun, Size,   \* the run and the bytes of an artifact
  ArtifactTotal, ArtifactSingle, StorageBytes,
  MaxFaults     \* bound: failed statements and crashes

ASSUME ArtifactsAssumption ==
  /\ Artifacts # {} /\ Artifacts \cap Remote = {} /\ IsFiniteSet(Artifacts \cup Remote)
  /\ Size \in [Artifacts \cup Remote -> Nat]
  /\ ArtifactTotal \in Nat /\ ArtifactSingle \in Nat /\ StorageBytes \in Nat /\ MaxFaults \in Nat

VARIABLES
  quota,        \* workbench_artifact_reservations.state, "none" for no row
  meta,         \* ids with a workbench_artifacts row
  objects,      \* ids with an object under their key
  step, holds,  \* per handler: the next statement, the artifact
  faults

artifactVars == <<quota, meta, objects, step, holds, faults>>

Ids     == Artifacts \cup Remote
Quotas  == {"none", "reserved", "committed", "released"}
Steps   == {"idle", "reserve", "upload", "insert", "commit", "confirm", "release",
            "unmeta", "unmade", "unstore"}

ArtifactsInit ==
  /\ quota = [a \in Ids |-> "none"] /\ meta = {} /\ objects = {}
  /\ step = [s \in Stores |-> "idle"] /\ holds = [s \in Stores |-> CHOOSE a \in Artifacts : TRUE]
  /\ faults = 0

Doing(s, l) == step[s] = l
Go(s, l) == step' = [step EXCEPT ![s] = l]

-----------------------------------------------------------------------------
(***************************************************************************)
(* ReserveArtifact and ArtifactState.  The wall check of the run, whose    *)
(* time WorkbenchRuns keeps, may refuse at any time.                       *)
(***************************************************************************)
Bytes(S) == SumFunctionOnSet(Size, {a \in S : quota[a] \notin {"none", "released"}})

Fits(a) == /\ Bytes({b \in Ids : ArtifactRun[b] = ArtifactRun[a]}) + Size[a] <= ArtifactTotal
           /\ Bytes(Ids) + Size[a] <= StorageBytes

\* The outcomes of ReserveArtifact: there already, already stored, or reserved now.
Granted(a) ==
  /\ Size[a] <= ArtifactSingle
  /\ \/ quota[a] \in {"reserved", "committed"} /\ UNCHANGED quota
     \/ quota[a] = "none" /\ a \in meta /\ UNCHANGED quota
     \/ /\ quota[a] = "none" /\ a \notin meta /\ Fits(a)
        /\ quota' = [quota EXCEPT ![a] = "reserved"]

\* UPDATE .. SET state=to WHERE state='reserved'; to itself is no error.
ArtifactState(a, to) == /\ quota[a] \in {"reserved", to}
                        /\ quota' = [quota EXCEPT ![a] = to]

\* The runtime's own calls.
RemoteQuota(a) == /\ \/ Granted(a)
                     \/ \E to \in {"committed", "released"} : ArtifactState(a, to)
                  /\ UNCHANGED <<meta, objects, step, holds, faults>>

-----------------------------------------------------------------------------
(***************************************************************************)
(* StoreArtifact, statement by statement.                                  *)
(***************************************************************************)
\* GetArtifact: what is stored is returned.
StoreArtifact(s, a) ==
  /\ Doing(s, "idle") /\ a \notin meta
  /\ Go(s, "reserve") /\ holds' = [holds EXCEPT ![s] = a]
  /\ UNCHANGED <<quota, meta, objects, faults>>

\* Refused, the handler returns; the deferred release is not in place yet.
ReserveArtifact(s) ==
  /\ Doing(s, "reserve")
  /\ \/ Granted(holds[s]) /\ Go(s, "upload")
     \/ Go(s, "idle") /\ UNCHANGED quota
  /\ UNCHANGED <<meta, objects, holds, faults>>

\* InitMultipart, PutPart, CompleteMultipart; a failed upload is aborted.
Upload(s) ==
  /\ Doing(s, "upload")
  /\ \/ Go(s, "insert") /\ objects' = objects \cup {holds[s]}
     \/ Go(s, "release") /\ UNCHANGED objects
  /\ UNCHANGED <<quota, meta, holds, faults>>

\* INSERT .. ON CONFLICT DO NOTHING tells who created the row.
InsertArtifact(s) ==
  /\ Doing(s, "insert")
  /\ Go(s, IF holds[s] \in meta THEN "confirm" ELSE "commit")
  /\ meta' = meta \cup {holds[s]}
  /\ UNCHANGED <<quota, objects, holds, faults>>

\* Mutant: the creator trusts its reservation.
CommitBlind(s) ==
  /\ Doing(s, "commit")
  /\ Go(s, "idle")
  /\ quota' = [quota EXCEPT ![holds[s]] = IF @ = "reserved" THEN "committed" ELSE @]
  /\ UNCHANGED <<meta, objects, holds, faults>>

\* The creator commits the reservation, or takes everything back.
Commit(s) ==
  /\ Doing(s, "commit")
  /\ \/ ArtifactState(holds[s], "committed") /\ Go(s, "idle")
     \/ quota[holds[s]] \in {"none", "released"} /\ Go(s, "unmeta") /\ UNCHANGED quota
  /\ UNCHANGED <<meta, objects, holds, faults>>

\* The other handler confirms it, or lets go.
Confirm(s) ==
  /\ Doing(s, "confirm")
  /\ \/ ArtifactState(holds[s], "committed") /\ Go(s, "idle")
     \/ quota[holds[s]] \in {"none", "released"} /\ Go(s, "release") /\ UNCHANGED quota
  /\ UNCHANGED <<meta, objects, holds, faults>>

\* DeleteArtifact and Delete of a failed commit: the reservation is
\* released only when both succeed.
Unmeta(s) ==
  /\ Doing(s, "unmeta")
  /\ meta' = meta \ {holds[s]}
  /\ Go(s, IF holds[s] \in meta THEN "unstore" ELSE "unmade")
  /\ UNCHANGED <<quota, objects, holds, faults>>

\* Delete of the object; from an error of InsertArtifact too.
Unstore(s) ==
  /\ \/ Doing(s, "unstore") /\ Go(s, "release")
     \/ Doing(s, "unmade") /\ Go(s, "idle")
  /\ objects' = objects \ {holds[s]}
  /\ UNCHANGED <<quota, meta, holds, faults>>

Release(s) ==
  /\ Doing(s, "release")
  /\ Go(s, "idle")
  /\ quota' = [quota EXCEPT ![holds[s]] = IF @ = "reserved" THEN "released" ELSE @]
  /\ UNCHANGED <<meta, objects, holds, faults>>

\* A statement fails: what the code does next.
StatementFails(s) ==
  /\ faults < MaxFaults /\ faults' = faults + 1
  /\ \/ Doing(s, "insert")  /\ Go(s, "unstore")
     \/ Doing(s, "commit")  /\ Go(s, "unmeta")
     \/ Doing(s, "confirm") /\ Go(s, "release")
     \/ Doing(s, "unmeta")  /\ Go(s, "unmade")
     \/ step[s] \in {"reserve", "unstore", "unmade", "release"} /\ Go(s, "idle")
  /\ UNCHANGED <<quota, meta, objects, holds>>

Crash(s) == /\ ~ Doing(s, "idle")
            /\ faults < MaxFaults /\ faults' = faults + 1
            /\ Go(s, "idle")
            /\ UNCHANGED <<quota, meta, objects, holds>>

ArtifactsNext ==
  \/ \E s \in Stores, a \in Artifacts : StoreArtifact(s, a)
  \/ \E s \in Stores : \/ ReserveArtifact(s) \/ Upload(s) \/ InsertArtifact(s)
                       \/ Commit(s) \/ Confirm(s) \/ Unmeta(s) \/ Unstore(s) \/ Release(s)
                       \/ StatementFails(s) \/ Crash(s)
  \/ \E a \in Remote : RemoteQuota(a)

ArtifactsSpec == ArtifactsInit /\ [][ArtifactsNext]_artifactVars

-----------------------------------------------------------------------------
(***************************************************************************)
(* Properties.                                                             *)
(***************************************************************************)
\* Every variable has its type, and who has come past the reservation has one.
ArtifactsTypeOK ==
  /\ quota \in [Ids -> Quotas]
  /\ meta \subseteq Artifacts /\ objects \subseteq Artifacts
  /\ step \in [Stores -> Steps] /\ holds \in [Stores -> Artifacts]
  /\ faults \in 0 .. MaxFaults
  /\ \A s \in Stores : step[s] \notin {"idle", "reserve"} => quota[holds[s]] # "none"

\* Whatever handlers race, fail or die, the bytes reserved or stored never
\* exceed a run's or the workspace's quota.
StorageHolds ==
  /\ Bytes(Ids) <= StorageBytes
  /\ \A a \in Ids : Bytes({b \in Ids : ArtifactRun[b] = ArtifactRun[a]}) <= ArtifactTotal

\* Handlers storing one artifact together, uploads failing as they may, leave it
\* whole or absent: metadata, object and committed quota, or none of them.
WholeOrAbsent ==
  faults = 0 =>
    \A a \in Artifacts : (\A s \in Stores : Doing(s, "idle") \/ holds[s] # a) =>
      IF a \in meta THEN a \in objects /\ quota[a] = "committed"
                    ELSE a \notin objects /\ quota[a] \in {"none", "released"}

\* While one handler is about to commit what it created, only its undoing
\* removes the row and the object, even when others fail.
NotUndone ==
  faults = 0 => \A s \in Stores : Doing(s, "commit") /\ quota[holds[s]] \in {"reserved", "committed"}
                                   => holds[s] \in meta \cap objects

\* What storing an artifact owes the quotas and its readers, together.
ArtifactsInv == ArtifactsTypeOK /\ StorageHolds /\ WholeOrAbsent /\ NotUndone
=============================================================================
