--------------------------- MODULE DeliveryProofs ---------------------------
(***************************************************************************)
(* Theorems about Delivery, for any orders, handlers, quotas and bounds:   *)
(* types, the escrow's promise, the pinned version, and the quota.         *)
(***************************************************************************)
EXTENDS Delivery, FiniteSetTheorems, TLAPS

-----------------------------------------------------------------------------
(***************************************************************************)
(* The order.                                                              *)
(***************************************************************************)
\* Orders have their types, and one whose promise stands is settled only once its
\* seller is paid.
OrderInv ==
  /\ status \in [Orders -> Esc!Statuses] /\ holder \in [Orders -> Esc!Holders]
  /\ raced \subseteq Orders
  /\ \A o \in Orders : o \notin raced =>
       holder[o] # "both" /\ (status[o] = "settled" => holder[o] = "seller")

\* What no step of the order undoes.
Onward == \A o \in Orders : /\ status[o] # "paid" => status'[o] # "paid"
                            /\ status[o] = "settled" => status'[o] = "settled"

\* A step of the escrow keeps its invariant and only moves the order onward.
LEMMA OrderStep == ASSUME OrderInv, Esc!Next PROVE OrderInv' /\ Onward
<1> USE DEF OrderInv, Onward, Esc!Statuses, Esc!Holders
<1> PICK o \in Orders : \/ Esc!Deliver(o) \/ Esc!Confirm(o) \/ Esc!Settle(o)
                        \/ Esc!Dispute(o) \/ Esc!Release(o) \/ Esc!Refund(o)
                        \/ Esc!PayOut(o) \/ Esc!ClawBack(o) \/ Esc!Return(o)
  BY DEF Esc!Next
<1>1. CASE Esc!Deliver(o) \/ Esc!Confirm(o) \/ Esc!Settle(o)
  BY <1>1 DEF Esc!Deliver, Esc!Confirm, Esc!Settle, Esc!Transition
<1>2. CASE Esc!Dispute(o)
  BY <1>2 DEF Esc!Dispute, Esc!Transition, Esc!MayRace
<1>3. CASE Esc!Release(o) \/ Esc!Refund(o)
  BY <1>3 DEF Esc!Release, Esc!Refund, Esc!Transition, Esc!MayRace
<1>4. CASE Esc!PayOut(o) \/ Esc!ClawBack(o) \/ Esc!Return(o)
  BY <1>4 DEF Esc!PayOut, Esc!ClawBack, Esc!Return, Esc!Move
<1> QED
  BY <1>1, <1>2, <1>3, <1>4

-----------------------------------------------------------------------------
(***************************************************************************)
(* The handlers.                                                           *)
(***************************************************************************)
\* What a handler has established by the time it is at a statement, and what was
\* handed out.
Positions ==
  /\ \A h \in Handlers :
       /\ pc[h] = "Upsert" => status[on[h]] # "paid"
       /\ pc[h] \in {"GetSystem", "ObjectKey", "ConsumeDownload", "Serve"} => grant[on[h]].gen > 0
       /\ pc[h] \in {"ConsumeDownload", "Serve", "BundleStream"} => version[h] \in DOMAIN versions
       /\ pc[h] \in {"ConsumeDownload", "Serve"} /\ pinned[on[h]] # 0 => version[h] = pinned[on[h]]
       /\ pc[h] = "BundleStream" => status[on[h]] = "settled"
  /\ \A o \in Orders :
       /\ grant[o].gen > 0 => status[o] # "paid"
       /\ served[o] > 0 => grant[o].gen > 0
       /\ bundled[o] # {} => status[o] = "settled"

\* Versions are recorded of assembled uploads, a name holds the latest upload that
\* took it, and what was handed out for a pinned order is the key of what it bought.
Objects ==
  /\ \A v \in DOMAIN versions : versions[v] \in DOMAIN uploads
  /\ \A o \in Orders : pinned[o] \in {0} \cup DOMAIN versions
  /\ \A n \in Names : stored[n] # 0 => stored[n] \in DOMAIN uploads /\ uploads[stored[n]] = n
  /\ \A u \in DOMAIN uploads : stored[uploads[u]] >= u
  /\ \A o \in Orders : \A n \in links[o] : \E u \in DOMAIN uploads : uploads[u] = n
  /\ \A o \in Orders : pinned[o] # 0 => \A n \in links[o] : n = NameOf(pinned[o])
  /\ \A o \in Orders : sent[o] \subseteq DOMAIN uploads

\* The invariant of the handlers and the order.
HandlersInv == OrderTypes /\ OrderInv /\ Positions

\* With the objects and what was handed out of them.
DeliveredInv == HandlersInv /\ DataTypes /\ Objects /\ PinnedVersionServed

\* It holds when nothing was requested yet.
LEMMA HandlersInit == Init => DeliveredInv
<1> SUFFICES ASSUME Init PROVE DeliveredInv
  OBVIOUS
<1> PICK n \in Names : uploads = <<n>> /\ stored = [m \in Names |-> IF m = n THEN 1 ELSE 0]
  BY DEF Init
<1>1. /\ uploads \in Seq(Names) /\ Len(uploads) = 1 /\ uploads[1] = n /\ DOMAIN uploads = {1}
      /\ versions \in Seq({1}) /\ Len(versions) = 1 /\ versions[1] = 1 /\ DOMAIN versions = {1}
  BY DEF Init
<1>2. MaxUploads \in Nat \ {0} /\ MaxMints \in Nat /\ MaxDownloads \in Nat
  BY BoundsAssumption
<1>3. OrderTypes
  BY <1>1, <1>2 DEF Init, Esc!Init, OrderTypes, Esc!Statuses, Esc!Holders, Statements
<1>6. DataTypes
  BY <1>1, <1>2 DEF DataTypes
<1>4. OrderInv /\ Positions
  BY <1>1 DEF Init, Esc!Init, OrderInv, Positions, Esc!Statuses, Esc!Holders
<1>5. Objects /\ PinnedVersionServed
  BY <1>1 DEF Init, Objects, PinnedVersionServed
<1> QED
  BY <1>3, <1>4, <1>5, <1>6 DEF DeliveredInv, HandlersInv

\* Every step keeps it.
LEMMA HandlersStep == DeliveredInv /\ [Next]_vars => HandlersInv'
<1> SUFFICES ASSUME HandlersInv, DataTypes, Objects, [Next]_vars PROVE HandlersInv'
  BY DEF DeliveredInv
<1> USE BoundsAssumption DEF HandlersInv, OrderTypes, Positions, Statements, At, Goto, order, data, given, procs
<1>1. ASSUME NEW h \in Handlers, MarkDelivered(h) PROVE HandlersInv'
  <2>1. CASE Esc!Deliver(on[h]) /\ Goto(h, "Upsert")
    <3>1. OrderInv' /\ Onward
      BY <2>1, OrderStep DEF Esc!Next
    <3>2. status'[on[h]] = "delivered"
      BY <2>1 DEF Esc!Deliver, Esc!Transition, OrderInv
    <3> QED
      BY <1>1, <2>1, <3>1, <3>2 DEF MarkDelivered, Onward, OrderInv
  <2>2. CASE Goto(h, "idle") /\ UNCHANGED order
    BY <1>1, <2>2 DEF MarkDelivered, OrderInv
  <2> QED
    BY <1>1, <2>1, <2>2 DEF MarkDelivered
<1>2. ASSUME NEW h \in Handlers, Upsert(h) PROVE HandlersInv'
  BY <1>2 DEF Upsert, OrderInv
<1>3. ASSUME NEW h \in Handlers, GetSystem(h) PROVE HandlersInv'
  BY <1>3 DEF GetSystem, OrderInv
<1>4. ASSUME NEW h \in Handlers, ObjectKey(h) PROVE HandlersInv'
  <2>1. Latest \in DOMAIN versions
    BY DEF Latest, DataTypes
  <2>2. pinned[on[h]] # 0 => pinned[on[h]] \in DOMAIN versions
    BY DEF Objects
  <2>3. DOMAIN versions \subseteq Nat
    BY DEF DataTypes
  <2> QED
    BY <1>4, <2>1, <2>2, <2>3 DEF ObjectKey, LookUp, OrderInv
<1>5. ASSUME NEW h \in Handlers, ConsumeDownload(h) PROVE HandlersInv'
  <2> DEFINE o == on[h]
  <2>1. CASE /\ grant[o].count < MaxDownloads
             /\ grant' = [grant EXCEPT ![o].count = @ + 1] /\ Goto(h, "Serve")
    <3>1. grant[o] \in [gen : 0 .. MaxMints, count : 0 .. MaxDownloads, fresh : {"no", "yes"}]
      OBVIOUS
    <3>2. /\ grant' \in [Orders -> [gen : 0 .. MaxMints, count : 0 .. MaxDownloads, fresh : {"no", "yes"}]]
          /\ \A x \in Orders : grant'[x].gen = grant[x].gen
      BY SMTT(20), <2>1, <3>1
    <3> QED
      BY <1>5, <2>1, <3>2 DEF ConsumeDownload, OrderInv
  <2>2. CASE Goto(h, "idle") /\ UNCHANGED grant
    BY <1>5, <2>2 DEF ConsumeDownload, OrderInv
  <2> QED
    BY <1>5, <2>1, <2>2 DEF ConsumeDownload
<1>6. ASSUME NEW h \in Handlers, Serve(h) PROVE HandlersInv'
  <2>1. NameOf(version[h]) \in Names
    BY <1>6 DEF Serve, NameOf, Objects, DataTypes
  <2> QED
    BY <1>6, <2>1 DEF Serve, OrderInv
<1>7. ASSUME NEW h \in Handlers, BundleStream(h) PROVE HandlersInv'
  <2>1. stored[NameOf(version[h])] \in 1 .. MaxUploads
    <3>1. version[h] \in DOMAIN versions /\ versions[version[h]] \in DOMAIN uploads
      BY <1>7 DEF BundleStream, Objects
    <3>2. stored[NameOf(version[h])] >= versions[version[h]]
      BY <3>1 DEF NameOf, Objects
    <3>3. NameOf(version[h]) \in Names
      BY <3>1 DEF NameOf, DataTypes
    <3> QED
      BY <3>1, <3>2, <3>3 DEF DataTypes
  <2> QED
    BY <1>7, <2>1 DEF BundleStream, OrderInv
<1>8. ASSUME NEW h \in Handlers, Abort(h) PROVE HandlersInv'
  BY <1>8 DEF Abort, OrderInv
<1>9. ASSUME NEW h \in Handlers, NEW o \in Orders, RequestDownload(h, o) PROVE HandlersInv'
  BY <1>9 DEF RequestDownload, Begin, Open, OrderInv
<1>10. ASSUME NEW h \in Handlers, NEW o \in Orders, BundlePreflight(h, o) PROVE HandlersInv'
  <2>1. Latest \in DOMAIN versions /\ Latest \in Nat
    BY DEF Latest, DataTypes
  <2> QED
    BY <1>10, <2>1 DEF BundlePreflight, OrderInv
<1>11. ASSUME NEW h \in Handlers, NEW o \in Orders, NEW g \in 1 .. MaxMints, Download(h, o, g)
       PROVE  HandlersInv'
  BY <1>11 DEF Download, Begin, OrderInv
<1>12. ASSUME NEW o \in Orders, Expire(o) PROVE HandlersInv'
  <2>2. /\ grant' \in [Orders -> [gen : 0 .. MaxMints, count : 0 .. MaxDownloads, fresh : {"no", "yes"}]]
        /\ \A x \in Orders : grant'[x].gen = grant[x].gen
    BY SMTT(20), <1>12 DEF Expire
  <2> QED
    BY <1>12, <2>2 DEF Expire, OrderInv
<1>13. ASSUME NEW o \in Orders, Elsewhere(o) PROVE HandlersInv'
  <2>1. OrderInv' /\ Onward
    BY <1>13, OrderStep DEF Elsewhere, Esc!Next
  <2> QED
    BY <1>13, <2>1 DEF Elsewhere, Onward, OrderInv
<1>14. ASSUME NEW n \in Names, CompleteMultipart(n) PROVE HandlersInv'
  BY <1>14 DEF CompleteMultipart, OrderInv
<1>15. ASSUME NEW u \in DOMAIN uploads, AddVersion(u) PROVE HandlersInv'
  <2>1. DOMAIN versions \subseteq DOMAIN versions'
    BY <1>15 DEF AddVersion, DataTypes
  <2> QED
    BY <1>15, <2>1 DEF AddVersion, OrderInv
<1>16. ASSUME NEW o \in Orders, Fetch(o) PROVE HandlersInv'
  <2> PICK n \in links[o] : sent' = [sent EXCEPT ![o] = @ \cup {stored[n]}]
    BY <1>16 DEF Fetch
  <2>1. stored[n] \in 1 .. MaxUploads
    BY DEF Objects, DataTypes
  <2>2. sent' \in [Orders -> SUBSET (1 .. MaxUploads)]
    BY <2>1
  <2> QED
    BY <1>16, <2>2 DEF Fetch, OrderInv
<1>17. CASE UNCHANGED vars
  BY <1>17 DEF vars, OrderInv
<1> QED
  BY <1>1, <1>2, <1>3, <1>4, <1>5, <1>6, <1>7, <1>8, <1>9, <1>10, <1>11, <1>12, <1>13, <1>14, <1>15,
     <1>16, <1>17 DEF Next

\* Every step keeps the objects, and hands out the bytes under the key of what was bought.
LEMMA ObjectsStep == DeliveredInv /\ [Next]_vars => DataTypes' /\ Objects' /\ PinnedVersionServed'
<1> SUFFICES ASSUME DeliveredInv, [Next]_vars PROVE DataTypes' /\ Objects' /\ PinnedVersionServed'
  OBVIOUS
<1>0. OrderTypes /\ DataTypes /\ Positions /\ Objects /\ PinnedVersionServed
  BY DEF DeliveredInv, HandlersInv
<1>1. ASSUME UNCHANGED <<pinned, uploads, stored, versions, links, sent>>
      PROVE  DataTypes' /\ Objects' /\ PinnedVersionServed'
  BY <1>0, <1>1 DEF DataTypes, Objects, PinnedVersionServed, NameOf
<1>2. ASSUME NEW h \in Handlers, Serve(h) PROVE DataTypes' /\ Objects' /\ PinnedVersionServed'
  <2>1. version[h] \in DOMAIN versions /\ versions[version[h]] \in DOMAIN uploads
    BY <1>0, <1>2 DEF Serve, At, Positions, Objects
  <2>2. /\ UNCHANGED <<pinned, uploads, stored, versions, sent>>
        /\ links' = [links EXCEPT ![on[h]] = @ \cup {NameOf(version[h])}]
    BY <1>2 DEF Serve, data
  <2>3. pinned[on[h]] # 0 => version[h] = pinned[on[h]]
    BY <1>0, <1>2 DEF Serve, At, Positions
  <2>4. \A o \in Orders : links'[o] \subseteq links[o] \cup (IF o = on[h] THEN {NameOf(version[h])} ELSE {})
    BY <1>0, <2>2 DEF OrderTypes
  <2> QED
    BY <1>0, <2>1, <2>2, <2>3, <2>4 DEF DataTypes, Objects, PinnedVersionServed, NameOf
<1>3. ASSUME NEW o \in Orders, Fetch(o) PROVE DataTypes' /\ Objects' /\ PinnedVersionServed'
  <2> PICK n \in links[o] : sent' = [sent EXCEPT ![o] = @ \cup {stored[n]}]
    BY <1>3 DEF Fetch
  <2>1. UNCHANGED <<pinned, uploads, stored, versions, links>>
    BY <1>3 DEF Fetch, data
  <2>2. n \in Names /\ stored[n] \in DOMAIN uploads /\ uploads[stored[n]] = n
    BY <1>0 DEF OrderTypes, DataTypes, Objects
  <2>3. pinned[o] # 0 => n = NameOf(pinned[o]) /\ stored[n] >= versions[pinned[o]]
    BY <1>0 DEF Objects, NameOf
  <2>4. \A x \in Orders : sent'[x] \subseteq sent[x] \cup (IF x = o THEN {stored[n]} ELSE {})
    BY <1>0 DEF OrderTypes
  <2> QED
    BY <1>0, <2>1, <2>2, <2>3, <2>4 DEF DataTypes, Objects, PinnedVersionServed, NameOf
<1>4. ASSUME NEW n \in Names, CompleteMultipart(n) PROVE DataTypes' /\ Objects' /\ PinnedVersionServed'
  <2> DEFINE l == Len(uploads) + 1
  <2>1. /\ uploads \in Seq(Names) /\ uploads' = Append(uploads, n)
        /\ stored' = [stored EXCEPT ![n] = l] /\ UNCHANGED <<pinned, versions, links, sent>>
    BY <1>0, <1>4 DEF CompleteMultipart, DataTypes, given
  <2>2. /\ DOMAIN uploads' = DOMAIN uploads \cup {l} /\ uploads'[l] = n
        /\ \A u \in DOMAIN uploads : uploads'[u] = uploads[u] /\ u \in Nat /\ l >= u
    BY <2>1
  <2>3. \A m \in Names : stored'[m] = IF m = n THEN l ELSE stored[m]
    BY <1>0, <2>1 DEF DataTypes
  <2>4. \A v \in DOMAIN versions : versions[v] \in DOMAIN uploads /\ NameOf(v)' = NameOf(v)
    BY <1>0, <2>1, <2>2 DEF Objects, NameOf
  <2>5. l \in Nat /\ \A u \in DOMAIN uploads : uploads[u] \in Names
    BY <2>1
  <2> HIDE DEF l
  <2>6. Objects'
    BY <1>0, <2>1, <2>2, <2>3, <2>4, <2>5 DEF Objects
  <2>7. PinnedVersionServed'
    BY <1>0, <2>1, <2>2, <2>4 DEF Objects, PinnedVersionServed
  <2>8. DataTypes'
    <3>1. l \in 1 .. MaxUploads
      BY <1>0, <1>4, BoundsAssumption DEF CompleteMultipart, DataTypes, l
    <3>2. uploads' \in Seq(Names) /\ Len(uploads') = l
      BY <2>1 DEF l
    <3>3. stored' \in [Names -> 0 .. MaxUploads]
      BY <1>0, <2>1, <3>1 DEF DataTypes
    <3> QED
      BY <1>0, <2>1, <3>1, <3>2, <3>3 DEF DataTypes
  <2> QED
    BY <2>6, <2>7, <2>8
<1>5. ASSUME NEW u \in DOMAIN uploads, AddVersion(u) PROVE DataTypes' /\ Objects' /\ PinnedVersionServed'
  <2>1. /\ versions' = Append(versions, u) /\ UNCHANGED <<pinned, uploads, stored, links, sent>>
        /\ versions \in Seq(1 .. MaxUploads)
    BY <1>0, <1>5 DEF AddVersion, DataTypes, given
  <2>2. /\ DOMAIN versions' = DOMAIN versions \cup {Len(versions) + 1}
        /\ versions'[Len(versions) + 1] = u
        /\ \A v \in DOMAIN versions : versions'[v] = versions[v]
    BY <2>1
  <2>3. \A v \in DOMAIN versions : NameOf(v)' = NameOf(v)
    BY <2>1, <2>2 DEF NameOf
  <2>4. DataTypes'
    <3>1. u \in 1 .. MaxUploads
      BY <1>0, BoundsAssumption DEF DataTypes
    <3>2. versions' \in Seq(1 .. MaxUploads) /\ Len(versions') > 0
      BY <2>1, <3>1
    <3> QED
      BY <1>0, <2>1, <3>2 DEF DataTypes
  <2> QED
    BY <1>0, <2>1, <2>2, <2>3, <2>4 DEF Objects, PinnedVersionServed
<1>6. \/ UNCHANGED <<pinned, uploads, stored, versions, links, sent>>
      \/ \E h \in Handlers : Serve(h)
      \/ \E o \in Orders : Fetch(o)
      \/ \E n \in Names : CompleteMultipart(n)
      \/ \E u \in DOMAIN uploads : AddVersion(u)
  BY DEF Next, MarkDelivered, Upsert, GetSystem, ObjectKey, LookUp, ConsumeDownload, BundleStream, Abort,
         RequestDownload, BundlePreflight, Download, Expire, Elsewhere, vars, data, given
<1> QED
  BY <1>1, <1>2, <1>3, <1>4, <1>5, <1>6

\* The invariant in every reachable state.
LEMMA HandlersCorrect == Spec => []DeliveredInv
<1>1. DeliveredInv /\ [Next]_vars => DeliveredInv'
  BY HandlersStep, ObjectsStep DEF DeliveredInv
<1> QED
  BY <1>1, HandlersInit, PTL DEF Spec

-----------------------------------------------------------------------------
(***************************************************************************)
(* The quota.                                                              *)
(***************************************************************************)
\* The handlers that took a download of o off the quota and have not handed it out.
Serving(o) == {h \in Handlers : pc[h] = "Serve" /\ on[h] = o}

\* The downloads taken off for o, over all its tokens, at most.
Taken(o) == IF grant[o].gen = 0 THEN 0 ELSE MaxDownloads * (grant[o].gen - 1) + grant[o].count

\* Every download handed out, or about to be, was taken off.
QuotaInv == \A o \in Orders : served[o] + Cardinality(Serving(o)) <= Taken(o)

\* A set within another and one element more has one more at most.
LEMMA OneMore ==
  ASSUME NEW S, IsFiniteSet(S), NEW h, NEW T, T \subseteq S \cup {h}
  PROVE  {Cardinality(S), Cardinality(T)} \subseteq Nat /\ Cardinality(T) <= Cardinality(S) + 1
<1>1. IsFiniteSet(S \cup {h}) /\ Cardinality(S \cup {h}) \in {Cardinality(S), Cardinality(S) + 1}
  BY FS_AddElement
<1>2. IsFiniteSet(T) /\ Cardinality(T) <= Cardinality(S \cup {h})
  BY <1>1, FS_Subset
<1>3. {Cardinality(S), Cardinality(T)} \subseteq Nat
  BY <1>2, FS_CardinalityType
<1> QED
  BY <1>1, <1>2, <1>3

\* Taking an element out takes one off.
LEMMA OneLess ==
  ASSUME NEW S, IsFiniteSet(S), NEW h \in S, NEW T, T \subseteq S \ {h}
  PROVE  {Cardinality(S), Cardinality(T)} \subseteq Nat /\ Cardinality(T) + 1 <= Cardinality(S)
<1>1. IsFiniteSet(S \ {h}) /\ Cardinality(S \ {h}) = Cardinality(S) - 1
  BY FS_RemoveElement
<1>2. IsFiniteSet(T) /\ Cardinality(T) <= Cardinality(S \ {h})
  BY <1>1, FS_Subset
<1>3. {Cardinality(S), Cardinality(T)} \subseteq Nat
  BY <1>2, FS_CardinalityType
<1> QED
  BY <1>1, <1>2, <1>3

\* The handlers serving an order are finitely many.
LEMMA ServingFinite == \A o : IsFiniteSet(Serving(o)) /\ Cardinality(Serving(o)) \in Nat
  BY HandlersAssumption, FS_Subset, FS_CardinalityType DEF Serving

\* What the bookkeeping of a quota needs of products.
LEMMA Products == \A m, g \in Nat : m * g \in Nat /\ m * (g + 1) = m * g + m
  OBVIOUS

\* The downloads taken off are a number, within the quota of the tokens minted.
Within == \A o \in Orders : /\ Taken(o) \in Nat /\ MaxDownloads * grant[o].gen \in Nat
                            /\ Taken(o) <= MaxDownloads * grant[o].gen

\* The row's count and generation keep it so.
LEMMA TakenBound == OrderTypes => Within
<1> SUFFICES ASSUME OrderTypes, NEW o \in Orders
             PROVE  /\ Taken(o) \in Nat /\ MaxDownloads * grant[o].gen \in Nat
                    /\ Taken(o) <= MaxDownloads * grant[o].gen
  BY DEF Within
<1> DEFINE g == grant[o].gen
<1>1. g \in Nat /\ grant[o].count \in 0 .. MaxDownloads /\ MaxDownloads \in Nat
  BY BoundsAssumption DEF OrderTypes
<1>2. CASE g = 0
  BY <1>1, <1>2, Products DEF Taken
<1>3. CASE g # 0
  <2>1. g - 1 \in Nat /\ (g - 1) + 1 = g
    BY <1>1, <1>3
  <2>2. MaxDownloads * (g - 1) \in Nat /\ MaxDownloads * g = MaxDownloads * (g - 1) + MaxDownloads
    BY <1>1, <2>1, Products
  <2>3. Taken(o) = MaxDownloads * (g - 1) + grant[o].count
    BY <1>3 DEF Taken
  <2> QED
    BY <1>1, <2>2, <2>3
<1> QED
  BY <1>2, <1>3

\* A step that hands out nothing, starts to serve nothing and takes none back keeps it.
LEMMA QuotaKept ==
  ASSUME OrderTypes, OrderTypes', QuotaInv, UNCHANGED served,
         \A o \in Orders : Serving(o)' \subseteq Serving(o) /\ Taken(o) <= Taken(o)'
  PROVE  QuotaInv'
<1> SUFFICES ASSUME NEW o \in Orders PROVE served'[o] + Cardinality(Serving(o)') <= Taken(o)'
  BY DEF QuotaInv
<1>1. /\ Cardinality(Serving(o)') <= Cardinality(Serving(o))
      /\ Cardinality(Serving(o)') \in Nat /\ Cardinality(Serving(o)) \in Nat
  BY ServingFinite, FS_Subset, FS_CardinalityType
<1>2. served'[o] = served[o] /\ served[o] \in Nat
  BY DEF OrderTypes
<1>3. Within /\ Within'
  BY TakenBound, PTL
<1> QED
  BY <1>1, <1>2, <1>3 DEF QuotaInv, Within

\* Every step keeps the bookkeeping of the quota.
LEMMA QuotaStep == HandlersInv /\ HandlersInv' /\ QuotaInv /\ [Next]_vars => QuotaInv'
<1> SUFFICES ASSUME HandlersInv, HandlersInv', QuotaInv, [Next]_vars PROVE QuotaInv'
  OBVIOUS
<1>0. OrderTypes /\ OrderTypes' /\ Within /\ Within'
  BY TakenBound, PTL DEF HandlersInv
<1> USE <1>0, BoundsAssumption DEF At, Goto, order, given, procs
<1>1. ASSUME NEW h \in Handlers, ConsumeDownload(h) PROVE QuotaInv'
  <2> DEFINE o == on[h]
  <2>1. CASE /\ grant[o].count < MaxDownloads
             /\ grant' = [grant EXCEPT ![o].count = @ + 1] /\ Goto(h, "Serve")
    <3> SUFFICES ASSUME NEW x \in Orders PROVE served'[x] + Cardinality(Serving(x)') <= Taken(x)'
      BY DEF QuotaInv
    <3>1. UNCHANGED served /\ served[x] \in Nat
      BY <1>1 DEF ConsumeDownload, OrderTypes
    <3>2. CASE x = o
      <4>1. Serving(x)' \subseteq Serving(x) \cup {h}
        BY <2>1 DEF Serving, OrderTypes
      <4>2. grant[x].gen > 0
        BY <1>1, <3>2 DEF ConsumeDownload, HandlersInv, Positions
      <4>3. grant'[x].gen = grant[x].gen /\ grant'[x].count = grant[x].count + 1
        BY <2>1, <3>2 DEF OrderTypes
      <4>4. Taken(x)' = Taken(x) + 1
        <5>1. grant[x].gen \in Nat /\ grant[x].count \in Nat /\ MaxDownloads \in Nat
          BY DEF OrderTypes
        <5>2. grant[x].gen - 1 \in Nat
          BY <4>2, <5>1
        <5>3. MaxDownloads * (grant[x].gen - 1) \in Nat
          BY <5>1, <5>2, Products
        <5> QED
          BY <4>2, <4>3, <5>1, <5>3 DEF Taken
      <4>5. /\ {Cardinality(Serving(x)), Cardinality(Serving(x)')} \subseteq Nat
            /\ Cardinality(Serving(x)') <= Cardinality(Serving(x)) + 1
        BY <4>1, ServingFinite, OneMore
      <4> QED
        BY <3>1, <4>4, <4>5 DEF QuotaInv, Within
    <3>3. CASE x # o
      <4>1. Serving(x)' = Serving(x)
        BY <2>1, <3>3 DEF Serving, OrderTypes
      <4>2. Taken(x)' = Taken(x)
        BY <2>1, <3>3 DEF Taken, OrderTypes
      <4> QED
        BY <3>1, <4>1, <4>2 DEF QuotaInv
    <3> QED
      BY <3>2, <3>3
  <2>2. CASE Goto(h, "idle") /\ UNCHANGED grant
    BY <1>1, <2>2, QuotaKept DEF ConsumeDownload, Serving, Taken, Within, OrderTypes
  <2> QED
    BY <1>1, <2>1, <2>2 DEF ConsumeDownload
<1>2. ASSUME NEW h \in Handlers, Serve(h) PROVE QuotaInv'
  <2> SUFFICES ASSUME NEW x \in Orders PROVE served'[x] + Cardinality(Serving(x)') <= Taken(x)'
    BY DEF QuotaInv
  <2>1. Taken(x)' = Taken(x) /\ served[x] \in Nat
    BY <1>2 DEF Serve, Taken, OrderTypes
  <2>2. CASE x = on[h]
    <3>1. h \in Serving(x) /\ Serving(x)' \subseteq Serving(x) \ {h}
      BY <1>2, <2>2 DEF Serve, Serving, OrderTypes
    <3>2. served'[x] = served[x] + 1
      BY <1>2, <2>2 DEF Serve, OrderTypes
    <3>3. /\ {Cardinality(Serving(x)), Cardinality(Serving(x)')} \subseteq Nat
          /\ Cardinality(Serving(x)') + 1 <= Cardinality(Serving(x))
      BY <3>1, ServingFinite, OneLess
    <3> QED
      BY <2>1, <3>2, <3>3 DEF QuotaInv, Within
  <2>3. CASE x # on[h]
    <3>1. Serving(x)' = Serving(x) /\ served'[x] = served[x]
      BY <1>2, <2>3 DEF Serve, Serving, OrderTypes
    <3> QED
      BY <2>1, <3>1 DEF QuotaInv
  <2> QED
    BY <2>2, <2>3
<1>3. ASSUME NEW h \in Handlers, Upsert(h) PROVE QuotaInv'
  <2>1. UNCHANGED served /\ \A o \in Orders : Serving(o)' \subseteq Serving(o)
    BY <1>3 DEF Upsert, Serving, OrderTypes
  <2>2. ASSUME NEW o \in Orders PROVE Taken(o) <= Taken(o)'
    <3>1. CASE o = on[h]
      <4>1. grant[o].gen \in Nat /\ grant'[o].gen = grant[o].gen + 1 /\ grant'[o].count = 0
        BY <1>3, <3>1 DEF Upsert, OrderTypes
      <4>2. Taken(o)' = MaxDownloads * grant[o].gen
        BY <4>1 DEF Taken, Within
      <4> QED
        BY <4>2 DEF Within
    <3>2. CASE o # on[h]
      BY <1>3, <3>2 DEF Upsert, Taken, OrderTypes, Within
    <3> QED
      BY <3>1, <3>2
  <2> QED
    BY <2>1, <2>2, QuotaKept
<1>4. ASSUME NEW h \in Handlers,
             \/ MarkDelivered(h) \/ GetSystem(h) \/ ObjectKey(h) \/ BundleStream(h) \/ Abort(h)
             \/ \E o \in Orders : \/ RequestDownload(h, o) \/ BundlePreflight(h, o)
                                 \/ \E g \in 1 .. MaxMints : Download(h, o, g)
      PROVE  QuotaInv'
  <2>1. UNCHANGED <<served, grant>>
    BY <1>4 DEF MarkDelivered, GetSystem, ObjectKey, LookUp, BundleStream, Abort, RequestDownload,
                BundlePreflight, Download
  <2>2. \A o \in Orders : Serving(o)' \subseteq Serving(o)
    BY <1>4 DEF MarkDelivered, GetSystem, ObjectKey, LookUp, BundleStream, Abort, RequestDownload,
                BundlePreflight, Download, Begin, Serving, OrderTypes
  <2> QED
    BY <2>1, <2>2, QuotaKept DEF Taken, Within
<1>5. ASSUME NEW o \in Orders, Expire(o) PROVE QuotaInv'
  <2>1. UNCHANGED <<served, pc, on>> /\ \A x \in Orders : UNCHANGED <<grant[x].gen, grant[x].count>>
    BY <1>5 DEF Expire, OrderTypes
  <2> QED
    BY <2>1, QuotaKept DEF Serving, Taken, Within
<1>6. ASSUME \/ UNCHANGED vars
             \/ \E o \in Orders : Elsewhere(o) \/ Fetch(o)
             \/ \E n \in Names : CompleteMultipart(n)
             \/ \E u \in DOMAIN uploads : AddVersion(u)
      PROVE  QuotaInv'
  <2>1. UNCHANGED <<served, grant, pc, on>>
    BY <1>6 DEF CompleteMultipart, AddVersion, Fetch, vars, Elsewhere
  <2> QED
    BY <2>1, QuotaKept DEF Serving, Taken, Within
<1> QED
  BY <1>1, <1>2, <1>3, <1>4, <1>5, <1>6 DEF Next

\* The bookkeeping in every reachable state.
LEMMA QuotaCorrect == Spec => []QuotaInv
<1>1. Init => QuotaInv
  <2> SUFFICES ASSUME Init, NEW o \in Orders
               PROVE  served[o] + Cardinality(Serving(o)) <= Taken(o)
    BY DEF QuotaInv
  <2>1. Serving(o) = {}
    BY DEF Init, Serving
  <2> QED
    BY <2>1, FS_EmptySet DEF Init, Taken
<1>2. HandlersInv /\ HandlersInv' /\ QuotaInv /\ [Next]_vars => QuotaInv'
  BY QuotaStep
<1> QED
  BY <1>1, <1>2, HandlersCorrect, PTL DEF Spec, DeliveredInv

-----------------------------------------------------------------------------
(***************************************************************************)
(* The theorems.                                                           *)
(***************************************************************************)
\* delivery/service.go:123 and dataset/upload.go:57: for any orders, handlers, uploads and
\* names, a token's bytes are those of the version bought, or of a later upload under its name.
THEOREM PinnedCorrect == Spec => []PinnedVersionServed
<1> QED
  BY HandlersCorrect, PTL DEF DeliveredInv

\* delivery/repo.go ConsumeDownload, service.go RequestDownload: however downloads and
\* new tokens overlap, an order's buyer gets at most its quota, after the delivery is on
\* record, and an archive holds only orders whose seller was paid.
THEOREM DeliveryCorrect == Spec => []DeliveryInv
<1>1. HandlersInv /\ QuotaInv => QuotaHolds
  <2> SUFFICES ASSUME HandlersInv, QuotaInv, NEW o \in Orders
               PROVE  served[o] <= MaxDownloads * grant[o].gen
    BY DEF QuotaHolds
  <2>1. Within
    BY TakenBound DEF HandlersInv
  <2>2. served[o] \in Nat /\ Cardinality(Serving(o)) \in Nat
    BY ServingFinite DEF HandlersInv, OrderTypes
  <2> QED
    BY <2>1, <2>2 DEF QuotaInv, Within
<1>2. DeliveredInv => TypeOK /\ DeliveredFirst
  BY DEF DeliveredInv, TypeOK, HandlersInv, OrderTypes, OrderInv, Positions, DeliveredFirst
<1> QED
  BY <1>1, <1>2, HandlersCorrect, QuotaCorrect, PTL DEF DeliveryInv, DeliveredInv

\* order/bundle.go and the delivery module move orders only along the state machine:
\* every step is a step of Escrow or a stutter.
THEOREM EscrowKept == Spec => KeepsEscrow
<1>1. Init => Esc!Init
  BY DEF Init
<1>2. HandlersInv /\ [Next]_vars => [Esc!Next]_(Esc!vars)
  <2> SUFFICES ASSUME OrderTypes, [Next]_vars PROVE Esc!Next \/ UNCHANGED Esc!vars
    BY DEF HandlersInv
  <2>0. UNCHANGED order => UNCHANGED Esc!vars
    BY DEF order, Esc!vars
  <2>1. ASSUME NEW h \in Handlers, MarkDelivered(h) PROVE Esc!Next \/ UNCHANGED Esc!vars
    <3>1. on[h] \in Orders
      BY DEF OrderTypes
    <3> QED
      BY <2>0, <2>1, <3>1 DEF MarkDelivered, Esc!Next
  <2>2. ASSUME NEW h \in Handlers,
               \/ Upsert(h) \/ GetSystem(h) \/ ObjectKey(h) \/ ConsumeDownload(h)
               \/ Serve(h) \/ BundleStream(h) \/ Abort(h)
               \/ \E o \in Orders : \/ RequestDownload(h, o) \/ BundlePreflight(h, o)
                                   \/ \E g \in 1 .. MaxMints : Download(h, o, g)
        PROVE  UNCHANGED order
    BY <2>2 DEF Upsert, GetSystem, ObjectKey, LookUp, ConsumeDownload, Serve, BundleStream, Abort,
                RequestDownload, BundlePreflight, Download
  <2>3. ASSUME NEW o \in Orders, Elsewhere(o) PROVE Esc!Next
    BY <2>3 DEF Elsewhere, Esc!Next
  <2>4. ASSUME \/ UNCHANGED vars
               \/ \E o \in Orders : Expire(o) \/ Fetch(o)
               \/ \E n \in Names : CompleteMultipart(n)
               \/ \E u \in DOMAIN uploads : AddVersion(u)
        PROVE  UNCHANGED order
    BY <2>4 DEF CompleteMultipart, AddVersion, Fetch, vars, Expire
  <2> QED
    BY <2>0, <2>1, <2>2, <2>3, <2>4 DEF Next
<1> QED
  BY <1>1, <1>2, HandlersCorrect, PTL DEF Spec, DeliveredInv, KeepsEscrow, Esc!Spec
=============================================================================
