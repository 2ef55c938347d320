------------------------------ MODULE Delivery ------------------------------
(***************************************************************************)
(* Downloading what a paid order bought: RequestDownload mints a token for *)
(* the order's one deliveries row and marks the order delivered, Download  *)
(* checks the token and the order, takes one download off the row's quota  *)
(* and hands out a link to the object of the version the order pinned.  A  *)
(* settled order can also be streamed in an archive (order/bundle.go),     *)
(* without a token: a bundle of several orders is these steps for each.    *)
(*                                                                         *)
(* A version is a row with an object key, and the key is the dataset's and *)
(* the file's name (dataset/upload.go): an upload of a name used before    *)
(* overwrites the object, of whichever versions have its key.              *)
(*                                                                         *)
(* Everything else that happens to the order meanwhile is Escrow's, which  *)
(* Settlement implements: the order may be confirmed, settled, disputed,   *)
(* released or refunded between any two statements of a handler.           *)
(***************************************************************************)
EXTENDS Integers, FiniteSets, Sequences

CONSTANTS
  Orders,
  Handlers,      \* HTTP handlers
  MaxDownloads,  \* maxDownloads of the delivery module
  MaxMints,      \* bound: tokens minted per order
  Names,         \* file names, which are the object keys of one dataset
  MaxUploads     \* bound: uploads assembled for the dataset

ASSUME HandlersAssumption == IsFiniteSet(Handlers)
ASSUME BoundsAssumption == {MaxDownloads, MaxMints, MaxUploads} \subseteq Nat \ {0}

VARIABLES
  status, holder, raced,   \* the order, see Escrow
  grant,         \* the deliveries row: generation of its token, count, not yet expired
  pinned,        \* orders.version_id, 0 for an order made before versions were pinned
  uploads,       \* the file names of the uploads assembled so far, in order
  stored,        \* the upload whose bytes lie under a name, 0 for none
  versions,      \* the uploads recorded as the dataset's versions, in order
  served,        \* history: downloads handed out
  links,         \* the object keys handed out for an order's tokens
  sent,          \* history: the uploads whose bytes were fetched over those
  bundled,       \* history: the uploads whose bytes went out in an archive
  pc, on,        \* each handler's next statement and order
  version        \* the version whose object key a handler has looked up

order == <<status, holder, raced>>
data  == <<uploads, stored, versions>>
given == <<served, links, sent, bundled>>
procs == <<pc, on, version>>
vars  == <<order, grant, pinned, data, given, procs>>

Esc == INSTANCE Escrow

Open == {"paid", "delivered", "confirmed"}
Statements == {"idle", "MarkDelivered", "Upsert", "GetSystem", "ObjectKey", "ConsumeDownload", "Serve", "BundleStream"}

Init == /\ Esc!Init
        /\ grant   = [o \in Orders |-> [gen |-> 0, count |-> 0, fresh |-> "no"]]
        /\ pinned  \in [Orders -> {0, 1}]
        /\ \E n \in Names : /\ uploads = <<n>>
                           /\ stored  = [m \in Names |-> IF m = n THEN 1 ELSE 0]
        /\ versions = <<1>>
        /\ served  = [o \in Orders |-> 0]
        /\ links   = [o \in Orders |-> {}]
        /\ sent    = [o \in Orders |-> {}]
        /\ bundled = [o \in Orders |-> {}]
        /\ pc      = [h \in Handlers |-> "idle"]
        /\ on      \in [Handlers -> Orders]
        /\ version = [h \in Handlers |-> 0]

Latest   == Len(versions)
NameOf(v) == uploads[versions[v]]

Fresh(o)   == grant[o].fresh = "yes"
At(h, l)   == pc[h] = l
Goto(h, l) == /\ pc' = [pc EXCEPT ![h] = l]
              /\ version' = [version EXCEPT ![h] = IF l = "idle" THEN 0 ELSE @]
              /\ UNCHANGED on
Begin(h, o, l) == /\ At(h, "idle")
                  /\ pc' = [pc EXCEPT ![h] = l]
                  /\ on' = [on EXCEPT ![h] = o]
                  /\ UNCHANGED version

-----------------------------------------------------------------------------
(***************************************************************************)
(* RequestDownload.                                                        *)
(***************************************************************************)
RequestDownload(h, o) ==
  /\ status[o] \in Open
  /\ Begin(h, o, IF status[o] = "paid" THEN "MarkDelivered" ELSE "Upsert")
  /\ UNCHANGED <<order, grant, pinned, data, given>>

\* Mutant: the UPDATE lacks its AND status='paid'.
MarkDeliveredAlways(h) ==
  /\ At(h, "MarkDelivered")
  /\ status' = [status EXCEPT ![on[h]] = "delivered"]
  /\ Goto(h, "Upsert")
  /\ UNCHANGED <<holder, raced, grant, pinned, data, given>>

MarkDelivered(h) ==
  /\ At(h, "MarkDelivered")
  /\ \/ Esc!Deliver(on[h]) /\ Goto(h, "Upsert")
     \/ status[on[h]] # "paid" /\ Goto(h, "idle") /\ UNCHANGED order
  /\ UNCHANGED <<grant, pinned, data, given>>

\* One row per order: a new token replaces the old one and starts a new quota.
Upsert(h) ==
  /\ At(h, "Upsert")
  /\ grant[on[h]].gen < MaxMints
  /\ grant' = [grant EXCEPT ![on[h]] = [gen |-> @.gen + 1, count |-> 0, fresh |-> "yes"]]
  /\ Goto(h, "idle")
  /\ UNCHANGED <<order, pinned, data, given>>

Expire(o) == /\ Fresh(o)
             /\ grant' = [grant EXCEPT ![o].fresh = "no"]
             /\ UNCHANGED <<order, pinned, data, given, procs>>

-----------------------------------------------------------------------------
(***************************************************************************)
(* Download.                                                               *)
(***************************************************************************)
\* The row is found by the token's hash and checked.
Download(h, o, g) == /\ g > 0 /\ grant[o].gen = g
                     /\ Fresh(o) /\ grant[o].count < MaxDownloads
                     /\ Begin(h, o, "GetSystem")
                     /\ UNCHANGED <<order, grant, pinned, data, given>>

GetSystem(h) == /\ At(h, "GetSystem")
                /\ Goto(h, IF status[on[h]] \in Open THEN "ObjectKey" ELSE "idle")
                /\ UNCHANGED <<order, grant, pinned, data, given>>

LookUp(h, v) == /\ At(h, "ObjectKey")
                /\ pc' = [pc EXCEPT ![h] = "ConsumeDownload"]
                /\ version' = [version EXCEPT ![h] = v]
                /\ UNCHANGED <<on, order, grant, pinned, data, given>>

\* Mutant: the current version is served to everybody.
ObjectKeyCurrent(h) == LookUp(h, Latest)

ObjectKey(h) == LookUp(h, IF pinned[on[h]] # 0 THEN pinned[on[h]] ELSE Latest)

\* Mutant: the quota was checked by the lookup.
ConsumeUnchecked(h) ==
  /\ At(h, "ConsumeDownload")
  /\ Fresh(on[h])
  /\ grant' = [grant EXCEPT ![on[h]].count = @ + 1]
  /\ Goto(h, "Serve")
  /\ UNCHANGED <<order, pinned, data, given>>

\* The row is found by its id: a token minted meanwhile pays for the download.
ConsumeDownload(h) ==
  LET g == grant[on[h]] IN
  /\ At(h, "ConsumeDownload")
  /\ \/ /\ g.count < MaxDownloads /\ Fresh(on[h])
        /\ grant' = [grant EXCEPT ![on[h]].count = @ + 1]
        /\ Goto(h, "Serve")
     \/ /\ ~(g.count < MaxDownloads /\ Fresh(on[h]))
        /\ Goto(h, "idle") /\ UNCHANGED grant
  /\ UNCHANGED <<order, pinned, data, given>>

\* A presigned link to the version's key is handed out, or the stream behind it.
Serve(h) == /\ At(h, "Serve")
            /\ served' = [served EXCEPT ![on[h]] = @ + 1]
            /\ links'  = [links EXCEPT ![on[h]] = @ \cup {NameOf(version[h])}]
            /\ Goto(h, "idle")
            /\ UNCHANGED <<order, grant, pinned, data, sent, bundled>>

\* The buyer gets the bytes that lie under the key by then.
Fetch(o) == /\ \E n \in links[o] : sent' = [sent EXCEPT ![o] = @ \cup {stored[n]}]
            /\ UNCHANGED <<order, grant, pinned, data, served, links, bundled, procs>>

-----------------------------------------------------------------------------
(***************************************************************************)
(* The archive of settled orders.                                          *)
(***************************************************************************)
\* The key is that of the dataset's current version.
BundlePreflight(h, o) ==
  /\ At(h, "idle") /\ status[o] = "settled"
  /\ pc' = [pc EXCEPT ![h] = "BundleStream"]
  /\ on' = [on EXCEPT ![h] = o]
  /\ version' = [version EXCEPT ![h] = Latest]
  /\ UNCHANGED <<order, grant, pinned, data, given>>

BundleStream(h) ==
  /\ At(h, "BundleStream")
  /\ bundled' = [bundled EXCEPT ![on[h]] = @ \cup {stored[NameOf(version[h])]}]
  /\ Goto(h, "idle")
  /\ UNCHANGED <<order, grant, pinned, data, served, links, sent>>

\* A statement fails, or the request ends: a download taken off is not given back.
Abort(h) == /\ pc[h] # "idle"
            /\ Goto(h, "idle")
            /\ UNCHANGED <<order, grant, pinned, data, given>>

-----------------------------------------------------------------------------
(***************************************************************************)
(* The rest of the marketplace.                                            *)
(***************************************************************************)
\* CompleteUpload: the object is assembled under its name, over what lay there ...
CompleteMultipart(n) == /\ Len(uploads) < MaxUploads
                        /\ uploads' = Append(uploads, n)
                        /\ stored'  = [stored EXCEPT ![n] = Len(uploads) + 1]
                        /\ UNCHANGED <<order, grant, pinned, versions, given, procs>>

\* ... and then recorded as a version, unless the statement fails.
AddVersion(u) == /\ \A v \in DOMAIN versions : versions[v] # u
                 /\ versions' = Append(versions, u)
                 /\ UNCHANGED <<order, grant, pinned, uploads, stored, given, procs>>

Elsewhere(o) == /\ \/ Esc!Confirm(o) \/ Esc!Settle(o) \/ Esc!Dispute(o) \/ Esc!Release(o)
                   \/ Esc!Refund(o) \/ Esc!PayOut(o) \/ Esc!ClawBack(o) \/ Esc!Return(o)
                /\ UNCHANGED <<grant, pinned, data, given, procs>>

Next == \/ \E h \in Handlers : \/ MarkDelivered(h) \/ Upsert(h) \/ GetSystem(h) \/ ObjectKey(h)
                               \/ ConsumeDownload(h) \/ Serve(h) \/ BundleStream(h) \/ Abort(h)
        \/ \E h \in Handlers, o \in Orders : RequestDownload(h, o) \/ BundlePreflight(h, o)
        \/ \E h \in Handlers, o \in Orders, g \in 1 .. MaxMints : Download(h, o, g)
        \/ \E o \in Orders : Expire(o) \/ Fetch(o) \/ Elsewhere(o)
        \/ \E n \in Names : CompleteMultipart(n)
        \/ \E u \in DOMAIN uploads : AddVersion(u)

Spec == Init /\ [][Next]_vars

-----------------------------------------------------------------------------
(***************************************************************************)
(* Properties.                                                             *)
(***************************************************************************)
\* Every variable has its type.
DataTypes ==
  /\ uploads \in Seq(Names) /\ Len(uploads) \in 1 .. MaxUploads
  /\ stored \in [Names -> 0 .. MaxUploads]
  /\ versions \in Seq(1 .. MaxUploads) /\ Len(versions) > 0
OrderTypes ==
  /\ status \in [Orders -> Esc!Statuses] /\ holder \in [Orders -> Esc!Holders]
  /\ raced \subseteq Orders
  /\ grant \in [Orders -> [gen : 0 .. MaxMints, count : 0 .. MaxDownloads, fresh : {"no", "yes"}]]
  /\ pinned \in [Orders -> {0, 1}]
  /\ served \in [Orders -> Nat]
  /\ links \in [Orders -> SUBSET Names]
  /\ sent \in [Orders -> SUBSET (1 .. MaxUploads)]
  /\ bundled \in [Orders -> SUBSET (1 .. MaxUploads)]
  /\ pc \in [Handlers -> Statements]
  /\ on \in [Handlers -> Orders]
  /\ version \in [Handlers -> Nat]
TypeOK == OrderTypes /\ DataTypes

\* Handing out tokens and bytes only moves orders along the state machine: a
\* late MarkDelivered never brings back a disputed or finished order.
KeepsEscrow == Esc!Spec

\* However downloads, retries and new tokens overlap, an order's buyer gets at
\* most MaxDownloads downloads for each token minted.
QuotaHolds == \A o \in Orders : served[o] <= MaxDownloads * grant[o].gen

\* Whoever holds a token, or has received bytes, has an order that left paid: the
\* delivery is on record before anything is handed out.  An archive is only made
\* of orders whose seller was paid.
DeliveredFirst == \A o \in Orders :
  /\ grant[o].gen > 0 \/ served[o] > 0 => status[o] # "paid"
  /\ bundled[o] # {} => status[o] = "settled" /\ (o \in raced \/ holder[o] = "seller")

\* Types, quota and record together.
DeliveryInv == TypeOK /\ QuotaHolds /\ DeliveredFirst

\* A buyer with a token gets the object of the version they bought, however many
\* versions appear and whenever they appear: its very bytes, or those of a later
\* upload that took the same file name, and no other file's and no earlier bytes.
PinnedVersionServed == \A o \in Orders : pinned[o] # 0 =>
  LET bought == versions[pinned[o]] IN
  \A u \in sent[o] : u >= bought /\ uploads[u] = uploads[bought]

\* "A seller publishing a new version after the sale must not swap the bytes under
\* a paid buyer" (delivery/service.go:123-126), whichever way the bytes leave.
BoughtVersionOnly == \A o \in Orders :
  pinned[o] # 0 => sent[o] \cup bundled[o] \subseteq {versions[pinned[o]]}
=============================================================================
