--------------------------- MODULE DatasetsProofs ---------------------------
(***************************************************************************)
(* A dataset's way to the market and its public side, for any sessions,    *)
(* workers, requests, answers and reports; and its purchase, for any       *)
(* handlers and charges.                                                   *)
(*                                                                         *)
(* DatasetQuality: what is on the market was examined and approved, no     *)
(* quality job is lost in silence, pinned bytes stay.                      *)
(*                                                                         *)
(* Questions: one answer however many submits race, what an operator hid   *)
(* stays hidden, and resolutions are final.                                *)
(*                                                                         *)
(* Certificates: a request the dataset did not change under certifies      *)
(* bytes that are on the market, with their own checks, but where a        *)
(* decision for another version or a replaced object is named.             *)
(*                                                                         *)
(* Watchlist: one notice a version and one e-mail a watcher, but where     *)
(* announcements overlapped or a mark or a log row was not written.        *)
(*                                                                         *)
(* Purchase: one charge, and a credit only for captured money.             *)
(*                                                                         *)
(* Masking: what the scanner finds in any text, what the mask leaves of    *)
(* it, and what a second scan can find there.                              *)
(*                                                                         *)
(* Screening: which tests are called significant, what a score takes,      *)
(* and what the profile of a column says of the rows it covers.            *)
(***************************************************************************)
EXTENDS DatasetQuality, Questions, Certificates, Watchlist, Purchase, Masking, Screening, Sums

\* Every step keeps the types.
LEMMA QuestionsType == QuestionsTypeOK /\ [QuestionsNext]_questionVars => QuestionsTypeOK'
<1> SUFFICES ASSUME QuestionsTypeOK, [QuestionsNext]_questionVars PROVE QuestionsTypeOK'
  OBVIOUS
<1> USE DEF QuestionsTypeOK
<1>1. CASE ListQuestions
  BY <1>1 DEF ListQuestions
<1>2. ASSUME NEW a \in Answers, ReadQuestion(a) \/ AnswerDies(a) PROVE QuestionsTypeOK'
  BY <1>2 DEF ReadQuestion, AnswerDies
<1>3. ASSUME NEW a \in Answers, CreateAnswer(a) \/ SetQuestionStatus(a) PROVE QuestionsTypeOK'
  BY <1>3 DEF CreateAnswer, SetQuestionStatus
<1>4. ASSUME NEW f \in Filings, NEW r \in Reporters, CreateReport(r, f) PROVE QuestionsTypeOK'
  BY <1>4 DEF CreateReport
<1>5. ASSUME NEW f \in Filings, NEW d \in {"hide", "dismiss"}, Resolve(f, d)
      PROVE QuestionsTypeOK'
  BY <1>5 DEF Resolve, HideTarget
<1>6. CASE UNCHANGED questionVars
  BY <1>6 DEF questionVars
<1> QED
  BY <1>1, <1>2, <1>3, <1>4, <1>5, <1>6 DEF QuestionsNext

-----------------------------------------------------------------------------
\* The one row of dataset_answers, without counting: who created it is in it.
OneRow == /\ \A a, b \in answers : a = b
          /\ \A a \in Answers : answering[a] = "created" => a \in answers

\* What is inductive about the thread and its reports.
ThreadInv ==
    /\ QuestionsTypeOK /\ OneRow /\ HiddenStays /\ OneOpenReport
    /\ question = "answered" => answers # {}
    /\ (answers # {} /\ question = "open") =>
            \E a \in answers : answering[a] \in {"created", "dead"}

\* An open question without answers or reports is where the thread starts.
LEMMA ThreadStart == QuestionsInit => ThreadInv
  BY DEF QuestionsInit, ThreadInv, QuestionsTypeOK, OneRow, HiddenStays, OneOpenReport

\* Every step keeps it.
LEMMA ThreadStep == ThreadInv /\ [QuestionsNext]_questionVars => ThreadInv'
<1> SUFFICES ASSUME ThreadInv, [QuestionsNext]_questionVars PROVE ThreadInv'
  OBVIOUS
<1>0. QuestionsTypeOK'
  BY QuestionsType DEF ThreadInv
<1> USE <1>0 DEF ThreadInv, OneRow, HiddenStays, OneOpenReport, QuestionsTypeOK
<1>1. CASE ListQuestions
  BY <1>1 DEF ListQuestions
<1>2. ASSUME NEW a \in Answers, ReadQuestion(a) PROVE ThreadInv'
  BY <1>2 DEF ReadQuestion
<1>3. ASSUME NEW a \in Answers, AnswerDies(a) PROVE ThreadInv'
  BY <1>3 DEF AnswerDies
<1>4. ASSUME NEW a \in Answers, CreateAnswer(a) PROVE ThreadInv'
  BY <1>4 DEF CreateAnswer
<1>5. ASSUME NEW a \in Answers, SetQuestionStatus(a) PROVE ThreadInv'
  BY <1>5 DEF SetQuestionStatus
<1>6. ASSUME NEW f \in Filings, NEW r \in Reporters, CreateReport(r, f) PROVE ThreadInv'
  BY <1>6 DEF CreateReport
<1>7. ASSUME NEW f \in Filings, NEW d \in {"hide", "dismiss"}, Resolve(f, d) PROVE ThreadInv'
  BY <1>7 DEF Resolve, HideTarget
<1>8. CASE UNCHANGED questionVars
  BY <1>8 DEF questionVars
<1> QED
  BY <1>1, <1>2, <1>3, <1>4, <1>5, <1>6, <1>7, <1>8 DEF QuestionsNext

\* A set whose members are all equal has one at most.
LEMMA AtMostOne == ASSUME NEW S, \A a, b \in S : a = b PROVE Cardinality(S) <= 1
<1>1. CASE S = {}
  BY <1>1, FS_EmptySet
<1>2. CASE S # {}
  <2>1. PICK a \in S : S = {a}
    BY <1>2
  <2> QED
    BY <2>1, FS_Singleton
<1> QED
  BY <1>1, <1>2

\* qa/repo.go, moderation/repo.go: for any numbers of answers, reporters and reports,
\* one answer at most, hidden questions stay hidden, one open report of each reporter.
THEOREM QuestionsCorrect == QuestionsSpec => []QuestionsInv
<1>1. ThreadInv => QuestionsInv
  BY AtMostOne DEF ThreadInv, OneRow, QuestionsInv, OneAnswer
<1> QED
  BY <1>1, ThreadStart, ThreadStep, PTL DEF QuestionsSpec

\* moderation/repo.go: a report is resolved once, whatever else happens to the question.
THEOREM ResolutionsFinal == QuestionsSpec => ResolvedOnce
<1>1. ThreadInv /\ [QuestionsNext]_questionVars =>
        [\A f \in Filings : report[f] \in {"hide", "dismiss"} => report'[f] = report[f]]_questionVars
  <2> SUFFICES ASSUME QuestionsTypeOK, [QuestionsNext]_questionVars,
                      NEW f \in Filings, report[f] \in {"hide", "dismiss"}
               PROVE  report'[f] = report[f]
    BY DEF ThreadInv
  <2> QED
    BY DEF QuestionsTypeOK, QuestionsNext, ListQuestions, ReadQuestion, CreateAnswer,
           SetQuestionStatus, AnswerDies, CreateReport, Resolve, questionVars
<1> QED
  BY <1>1, ThreadStart, ThreadStep, PTL DEF QuestionsSpec, ResolvedOnce

-----------------------------------------------------------------------------
\* What a request has read so far, if the dataset has not changed under it.
Current(r) ==
    /\ shelf.status = "published" /\ since[r] = Version
    /\ request[r] \in {"meta", "checks", "key"} => gotBytes[r] = Version
    /\ request[r] = "checks" /\ Version \notin hasty \cup replaced => gotChecks[r] = Version

\* What any request has read is of the market, and of no older version than it began with.
Onwards(r) ==
    /\ since[r] \in marketed /\ since[r] <= Version
    /\ request[r] \in {"meta", "checks", "key"} => since[r] <= gotBytes[r] /\ gotBytes[r] <= Version
    /\ request[r] = "checks" => gotChecks[r] = NoEdition \/ gotBytes[r] <= gotChecks[r]

\* The current version's object, its checks, and why it may be on the market.
ShelfInv ==
    /\ laid = Version \/ (Version \in replaced /\ laid = Version + 1)
    /\ \A v \in Editions : checked[v] # NoEdition => v <= Version /\ v <= checked[v]
    /\ \A v \in reviewed \cup marketed : v <= Version
    /\ Version # NoEdition =>
         /\ checked[Version] \in {NoEdition, Version} \/ Version \in replaced
         /\ Version \in reviewed \/ shelf.status \in {"reviewing", "published"} =>
              Version \in hasty \/ checked[Version] # NoEdition
    /\ shelf.status = "published" => Version \in marketed

\* Each request.
RequestsInv == \A r \in Readers :
    /\ r \in Reading => Onwards(r) /\ (r \in overtaken \/ Current(r))
    /\ r \in overtaken => request[r] # "idle"

\* What was given out.
GivenInv == CertificateWhole /\ NothingOlder /\ RegistryBacked

\* CertificatesInv made inductive.
CertificatesIInv == CertificatesTypeOK /\ ShelfInv /\ RequestsInv /\ GivenInv

\* No request has read anything of the draft.
LEMMA CertificatesStart == CertificatesInit => CertificatesIInv
<1> SUFFICES ASSUME CertificatesInit PROVE CertificatesIInv
  OBVIOUS
<1> USE CertificateConstants DEF CertificatesInit, NoEdition, Editions
<1>1. CertificatesTypeOK
  BY DEF CertificatesTypeOK
<1>2. Version = NoEdition /\ laid = NoEdition /\ shelf.status = "draft" /\ Reading = {}
  BY DEF Version, Reading
<1>3. ShelfInv
  <2>1. reviewed = {} /\ marketed = {} /\ \A v \in Editions : checked[v] = NoEdition
    OBVIOUS
  <2> HIDE DEF CertificatesInit, Editions, Version
  <2> QED
    BY <1>2, <2>1 DEF ShelfInv
<1>4. RequestsInv
  BY <1>2 DEF RequestsInv
<1>5. GivenInv
  BY DEF GivenInv, CertificateWhole, NothingOlder, RegistryBacked
<1> QED
  BY <1>1, <1>3, <1>4, <1>5 DEF CertificatesIInv

\* A change of the dataset that keeps the shelf's invariant and overtakes every request under
\* way keeps the rest.
LEMMA Overtakes ==
  ASSUME CertificatesIInv, CertificatesTypeOK', ShelfInv', UNCHANGED requests,
         overtaken' = overtaken \cup Reading, Version <= Version',
         marketed \subseteq marketed', hasty \subseteq hasty', replaced \subseteq replaced'
  PROVE  CertificatesIInv'
<1>0. Version \in Nat /\ Version' \in Nat
  BY CertificateConstants DEF CertificatesIInv, CertificatesTypeOK, Version, Editions, NoEdition
<1>1. RequestsInv'
  BY <1>0 DEF CertificatesIInv, CertificatesTypeOK, RequestsInv, Reading, Onwards, requests, Editions, NoEdition
<1>2. CertificateWhole' /\ NothingOlder'
  BY DEF CertificatesIInv, GivenInv, CertificateWhole, NothingOlder, requests
<1>3. RegistryBacked'
  BY <1>0 DEF CertificatesIInv, CertificatesTypeOK, GivenInv, RegistryBacked, requests, Editions
<1> QED
  BY <1>1, <1>2, <1>3 DEF CertificatesIInv, GivenInv

\* Every step keeps the invariant.
LEMMA CertificatesStep == CertificatesIInv /\ [CertificatesNext]_certVars => CertificatesIInv'
<1> SUFFICES ASSUME CertificatesIInv, [CertificatesNext]_certVars PROVE CertificatesIInv'
  OBVIOUS
<1>0. /\ CertificatesTypeOK /\ ShelfInv /\ RequestsInv /\ GivenInv
      /\ Version \in 0 .. LastEdition /\ LastEdition \in Nat /\ LastEdition > 0
      /\ Editions = 1 .. LastEdition /\ NoEdition = 0 /\ laid \in 0 .. LastEdition
  BY CertificateConstants DEF CertificatesIInv, CertificatesTypeOK, Version, Editions, NoEdition
<1>1. CASE StartUpload
  <2>1. CertificatesTypeOK' /\ ShelfInv'
    BY <1>0, <1>1 DEF StartUpload, SetStatus, CertificatesTypeOK, ShelfInv, Version, requests, desks, Reading
  <2> QED
    BY <1>0, <1>1, <2>1, Overtakes DEF StartUpload, SetStatus, Version, CertificatesTypeOK
<1>2. CASE ReplaceObject
  <2>0. /\ Version' = Version /\ Version \in Editions /\ Version + 1 \in Editions
        /\ laid' = Version + 1 /\ replaced' = replaced \cup {Version}
        /\ UNCHANGED <<shelf, checked, desks, requests, marketed, hasty>>
        /\ overtaken' = overtaken \cup Reading
    BY <1>0, <1>2 DEF ReplaceObject, Version
  <2>1. CertificatesTypeOK' /\ ShelfInv'
    <3>1. CertificatesTypeOK'
      BY <1>0, <2>0 DEF CertificatesTypeOK, requests, desks, Reading
    <3>2. ShelfInv'
      BY <1>0, <2>0 DEF ShelfInv, desks
    <3> QED
      BY <3>1, <3>2
  <2> QED
    BY <1>0, <1>2, <2>1, Overtakes DEF ReplaceObject, Version
<1>3. CASE AddEdition
  <2>1. CertificatesTypeOK'
    BY <1>0, <1>3 DEF AddEdition, CertificatesTypeOK, Version, requests, desks, Reading
  <2>2. ShelfInv'
    <3>1. /\ Version' = Version + 1 /\ shelf'.status = "checking" /\ laid' = Version + 1
          /\ UNCHANGED <<checked, reviewed, marketed, hasty, replaced>>
      BY <1>3 DEF AddEdition, Version, desks
    <3>2. Version + 1 \in Editions
      BY <1>0, <1>3 DEF AddEdition
    <3>3. checked[Version + 1] = NoEdition /\ Version + 1 \notin reviewed
      BY <1>0, <3>2 DEF ShelfInv
    <3>4. laid' = Version'
      BY <3>1
    <3>5. \A v \in Editions : checked'[v] # NoEdition => v <= Version' /\ v <= checked'[v]
      BY <1>0, <3>1 DEF ShelfInv
    <3>6. \A v \in reviewed' \cup marketed' : v <= Version'
      BY <1>0, <3>1 DEF ShelfInv, CertificatesTypeOK
    <3>7. checked'[Version'] = NoEdition /\ Version' \notin reviewed'
      BY <3>1, <3>3
    <3> QED
      BY <3>1, <3>4, <3>5, <3>6, <3>7 DEF ShelfInv
  <2> QED
    BY <1>0, <1>3, <2>1, <2>2, Overtakes DEF AddEdition, Version
<1>4. ASSUME NEW v \in Editions, SaveQualityChecks(v) PROVE CertificatesIInv'
  <2> PICK b \in v .. laid : checked' = [checked EXCEPT ![v] = b]
    BY <1>4 DEF SaveQualityChecks
  <2>1. /\ v <= Version /\ b \in Editions /\ v <= b
        /\ UNCHANGED <<shelf, laid, desks, requests, marketed, hasty, replaced, overtaken>>
    BY <1>0, <1>4 DEF SaveQualityChecks
  <2>2. CertificatesTypeOK'
    BY <1>0, <2>1 DEF CertificatesTypeOK, desks, requests
  <2>3. ShelfInv'
    BY <1>0, <2>1 DEF CertificatesTypeOK, ShelfInv, Version, desks
  <2>4. RequestsInv'
    BY <1>0, <2>1 DEF RequestsInv, Reading, Onwards, Current, Version, requests
  <2>5. GivenInv'
    BY <1>0, <2>1 DEF GivenInv, CertificateWhole, NothingOlder, RegistryBacked, Version, requests
  <2> QED
    BY <2>2, <2>3, <2>4, <2>5 DEF CertificatesIInv
<1>5. ASSUME NEW v \in Editions, FinishQuality(v) PROVE CertificatesIInv'
  <2>1. CertificatesTypeOK'
    BY <1>0, <1>5 DEF FinishQuality, SetStatus, Moves, CertificatesTypeOK, Version, requests, desks, Reading
  <2>2. ShelfInv'
    BY <1>0, <1>5 DEF FinishQuality, SetStatus, Moves, CertificatesTypeOK, ShelfInv, Version, requests, desks
  <2> QED
    BY <1>0, <1>5, <2>1, <2>2, Overtakes DEF FinishQuality, SetStatus, Moves, Version, CertificatesTypeOK
<1>6. CASE ReadToReview \/ ReadToDelist
  <2>1. CertificatesTypeOK'
    BY <1>0, <1>6 DEF ReadToReview, ReadToDelist, CertificatesTypeOK, Version, requests
  <2>5. /\ UNCHANGED <<shelf, laid, checked, marketed, hasty, replaced>>
        /\ \/ UNCHANGED reviewed
           \/ shelf.status = "reviewing" /\ reviewed' = reviewed \cup ({Version} \ {NoEdition})
    BY <1>6 DEF ReadToReview, ReadToDelist
  <2>6. ShelfInv'
    <3>1. Version' = Version
      BY <2>5 DEF Version
    <3> QED
      BY <1>0, <2>5, <3>1 DEF ShelfInv
  <2>2. UNCHANGED <<shelf, requests, marketed, hasty, replaced, overtaken>>
    BY <1>6 DEF ReadToReview, ReadToDelist
  <2>3. RequestsInv'
    BY <1>0, <2>2 DEF RequestsInv, Reading, Onwards, Current, Version, requests
  <2>4. GivenInv'
    BY <1>0, <2>2 DEF GivenInv, CertificateWhole, NothingOlder, RegistryBacked, Version, requests
  <2> QED
    BY <2>1, <2>3, <2>4, <2>6 DEF CertificatesIInv
<1>7. ASSUME NEW v \in Editions, Publish(v) PROVE CertificatesIInv'
  <2>1. Version \in Editions
    BY <1>0, <1>7 DEF Publish, ShelfInv
  <2>2. CertificatesTypeOK'
    BY <1>0, <1>7, <2>1 DEF Publish, SetStatus, Moves, CertificatesTypeOK, Version, requests, desks, Reading
  <2>3. ShelfInv'
    BY <1>0, <1>7, <2>1 DEF Publish, SetStatus, Moves, CertificatesTypeOK, ShelfInv, Version, requests, desks
  <2> QED
    BY <1>0, <1>7, <2>2, <2>3, Overtakes DEF Publish, SetStatus, Moves, Version, CertificatesTypeOK
<1>8. ASSUME NEW v \in Editions, TakeDown(v) PROVE CertificatesIInv'
  <2>1. \E s \in {"rejected", "delisted"} : SetStatus(s)
    BY <1>8 DEF TakeDown
  <2>2. UNCHANGED <<laid, checked, desks, requests, marketed, hasty, replaced>>
    BY <1>8 DEF TakeDown
  <2>3. CertificatesTypeOK' /\ ShelfInv'
    BY <1>0, <2>1, <2>2 DEF SetStatus, CertificatesTypeOK, ShelfInv, Version, requests, desks, Reading
  <2> QED
    BY <1>0, <2>1, <2>2, <2>3, Overtakes DEF SetStatus, Version, CertificatesTypeOK
<1>9. ASSUME NEW r \in Readers,
             \/ getPublished(r) \/ CurrentVersionMeta(r) \/ ListQualityChecks(r)
             \/ Certificate(r) \/ CurrentKey(r) \/ Preview(r)
      PROVE  CertificatesIInv'
  <2>0. UNCHANGED dataset /\ ShelfInv'
    BY <1>0, <1>9 DEF getPublished, Finds, CurrentVersionMeta, ListQualityChecks, Certificate, CurrentKey,
           Preview, dataset, desks, ShelfInv, Version
  <2> USE DEF dataset, Goes, Version
  <2>1. CertificatesTypeOK' /\ RequestsInv' /\ GivenInv'
    <3>1. CASE getPublished(r)
      <4>1. /\ request[r] = "idle" /\ request' = [request EXCEPT ![r] = "found"]
            /\ since' = [since EXCEPT ![r] = Version] /\ shelf.status = "published"
            /\ UNCHANGED <<gotBytes, gotChecks, certificates, registry, previews>>
        BY <3>1 DEF getPublished, Finds
      <4>2. CertificatesTypeOK'
        BY <1>0, <2>0, <4>1 DEF CertificatesTypeOK, desks
      <4>3. RequestsInv'
        BY <1>0, <2>0, <4>1 DEF CertificatesTypeOK, RequestsInv, Reading, Onwards, Current, ShelfInv
      <4> QED
        BY <1>0, <2>0, <4>1, <4>2, <4>3 DEF GivenInv, CertificateWhole, NothingOlder, RegistryBacked
    <3>2. CASE CurrentVersionMeta(r) \/ CurrentKey(r)
      <4>1. /\ request[r] = "found"
            /\ \E to \in {"meta", "key"} : request' = [request EXCEPT ![r] = to]
            /\ gotBytes' = [gotBytes EXCEPT ![r] = Version]
            /\ UNCHANGED <<since, gotChecks, certificates, registry, previews>>
        BY <3>2 DEF CurrentVersionMeta, CurrentKey
      <4>2. CertificatesTypeOK'
        BY <1>0, <2>0, <4>1 DEF CertificatesTypeOK, desks
      <4>3. RequestsInv'
        BY <1>0, <2>0, <4>1 DEF CertificatesTypeOK, RequestsInv, Reading, Onwards, Current
      <4> QED
        BY <1>0, <2>0, <4>1, <4>2, <4>3 DEF GivenInv, CertificateWhole, NothingOlder, RegistryBacked
    <3>3. CASE ListQualityChecks(r)
      <4>1. /\ request[r] = "meta" /\ request' = [request EXCEPT ![r] = "checks"]
            /\ gotChecks' = [gotChecks EXCEPT ![r] = checked[Version]]
            /\ UNCHANGED <<since, gotBytes, certificates, registry, previews>>
        BY <3>3 DEF ListQualityChecks
      <4>2. Onwards(r) /\ since[r] >= 1 /\ Version \in Editions
        BY <1>0, <4>1 DEF RequestsInv, Reading, Onwards, CertificatesTypeOK
      <4>3. CertificatesTypeOK'
        BY <1>0, <2>0, <4>1, <4>2 DEF CertificatesTypeOK, desks
      <4>4. RequestsInv'
        BY <1>0, <2>0, <4>1, <4>2 DEF CertificatesTypeOK, RequestsInv, Reading, Onwards, Current, ShelfInv
      <4> QED
        BY <1>0, <2>0, <4>1, <4>3, <4>4 DEF GivenInv, CertificateWhole, NothingOlder, RegistryBacked
    <3>4. CASE Certificate(r)
      <4> DEFINE c == BuildCertificate(r)
      <4>1. /\ request[r] = "checks" /\ request' = [request EXCEPT ![r] = "over"]
            /\ certificates' = certificates \cup {c}
            /\ registry' \in {registry, registry \cup {gotBytes[r]}}
            /\ UNCHANGED <<since, gotBytes, gotChecks, previews>>
        BY <3>4 DEF Certificate
      <4>2. Onwards(r) /\ (r \in overtaken \/ Current(r))
        BY <1>0, <4>1 DEF RequestsInv, Reading
      <4>3. gotBytes[r] \in Editions /\ since[r] \in Editions /\ gotBytes[r] <= Version
        BY <1>0, <4>1, <4>2 DEF Onwards, CertificatesTypeOK
      <4>4. /\ c.by = r /\ c.bytes = gotBytes[r] /\ c.quality = gotChecks[r] /\ c.since = since[r]
            /\ c \in [by: Readers, since: Editions, bytes: Editions, quality: Editions \cup {NoEdition}]
        BY <1>0, <4>3 DEF BuildCertificate, CertificatesTypeOK
      <4> HIDE DEF c
      <4>5. CertificatesTypeOK'
        BY <1>0, <2>0, <4>1, <4>3, <4>4 DEF CertificatesTypeOK, desks
      <4>6. RequestsInv'
        BY <1>0, <2>0, <4>1 DEF CertificatesTypeOK, RequestsInv, Reading, Onwards, Current
      <4>7. NothingOlder'
        BY <1>0, <2>0, <4>1, <4>2, <4>4 DEF GivenInv, NothingOlder, Onwards
      <4>8. CertificateWhole'
        <5>1. r \notin overtaken => /\ c.bytes \in marketed
                                    /\ c.bytes \in hasty \cup replaced \/ c.quality = c.bytes
          BY <4>1, <4>2, <4>4 DEF Onwards, Current
        <5> QED
          BY <1>0, <2>0, <4>1, <4>4, <5>1 DEF GivenInv, CertificateWhole
      <4>9. RegistryBacked'
        <5>1. ASSUME NEW v \in registry'
              PROVE  v <= Version' /\ \E x \in certificates' : x.bytes = v
          <6>1. CASE v \in registry
            <7>1. v <= Version /\ \E x \in certificates : x.bytes = v
              BY <1>0, <6>1 DEF GivenInv, RegistryBacked
            <7> QED
              BY <2>0, <4>1, <7>1
          <6>2. CASE v = gotBytes[r]
            BY <2>0, <4>1, <4>3, <4>4, <6>2
          <6> QED
            BY <4>1, <6>1, <6>2
        <5> QED
          BY <5>1 DEF RegistryBacked
      <4> QED
        BY <4>5, <4>6, <4>7, <4>8, <4>9 DEF GivenInv
    <3>5. CASE Preview(r)
      <4> PICK b \in BytesUnder(gotBytes[r]) :
                 previews' = previews \cup {[by |-> r, since |-> since[r], bytes |-> b]}
        BY <3>5 DEF Preview
      <4> DEFINE p == [by |-> r, since |-> since[r], bytes |-> b]
      <4>1. /\ request[r] = "key" /\ request' = [request EXCEPT ![r] = "over"]
            /\ previews' = previews \cup {p}
            /\ UNCHANGED <<since, gotBytes, gotChecks, certificates, registry>>
        BY <3>5 DEF Preview
      <4>2. Onwards(r) /\ (r \in overtaken \/ Current(r)) /\ since[r] \in Editions
        BY <1>0, <4>1 DEF RequestsInv, Reading, Onwards, CertificatesTypeOK
      <4>3. gotBytes[r] \in Editions /\ since[r] <= gotBytes[r] /\ gotBytes[r] <= Version
        BY <1>0, <4>1, <4>2 DEF Onwards, CertificatesTypeOK
      <4>4. b \in Editions /\ gotBytes[r] <= b
        BY <1>0, <4>3 DEF BytesUnder, ShelfInv
      <4>5. r \notin overtaken => since[r] = b \/ since[r] \in replaced
        BY <1>0, <4>1, <4>2, <4>3 DEF BytesUnder, ShelfInv, Current
      <4>6. p.by = r /\ p.since = since[r] /\ p.bytes = b /\ p \in [by: Readers, since: Editions, bytes: Editions]
        BY <4>2, <4>4
      <4> HIDE DEF p
      <4>7. CertificatesTypeOK'
        BY <1>0, <2>0, <4>1, <4>6 DEF CertificatesTypeOK, desks
      <4>8. RequestsInv'
        BY <1>0, <2>0, <4>1 DEF CertificatesTypeOK, RequestsInv, Reading, Onwards, Current
      <4>9. CertificateWhole'
        BY <1>0, <2>0, <4>1, <4>5, <4>6 DEF GivenInv, CertificateWhole
      <4>10. NothingOlder'
        <5>1. since[r] <= b
          BY <1>0, <4>2, <4>3, <4>4
        <5> QED
          BY <1>0, <2>0, <4>1, <4>2, <4>6, <5>1 DEF GivenInv, NothingOlder, Onwards
      <4>11. RegistryBacked'
        BY <1>0, <2>0, <4>1 DEF GivenInv, RegistryBacked
      <4> QED
        BY <4>7, <4>8, <4>9, <4>10, <4>11 DEF GivenInv
    <3> QED
      BY <1>9, <3>1, <3>2, <3>3, <3>4, <3>5
  <2> QED
    BY <2>0, <2>1 DEF CertificatesIInv
<1>10. CASE UNCHANGED certVars
  <2>1. CertificatesTypeOK' /\ ShelfInv'
    BY <1>0, <1>10 DEF certVars, CertificatesTypeOK, ShelfInv, Version, desks, requests
  <2>2. RequestsInv'
    BY <1>0, <1>10 DEF certVars, RequestsInv, Reading, Onwards, Current, Version, requests
  <2>3. GivenInv'
    BY <1>0, <1>10 DEF certVars, GivenInv, CertificateWhole, NothingOlder, RegistryBacked, Version, requests
  <2> QED
    BY <2>1, <2>2, <2>3 DEF CertificatesIInv
<1> QED
  BY <1>1, <1>2, <1>3, <1>4, <1>5, <1>6, <1>7, <1>8, <1>9, <1>10 DEF CertificatesNext

\* dataset/service.go Certificate, Preview, review.go:35-47: for any requests, operators, jobs
\* and versions, a request the dataset did not change under was given the version on the
\* market with its own checks, but in the ways named, and none was given anything older.
THEOREM CertificatesCorrect == CertificatesSpec => []CertificatesInv
<1>1. CertificatesIInv => CertificatesInv
  BY DEF CertificatesIInv, GivenInv, CertificatesInv
<1> QED
  BY <1>1, CertificatesStart, CertificatesStep, PTL DEF CertificatesSpec

-----------------------------------------------------------------------------
\* A version some job is for: in the channel, in the retry row, in the scanner's
\* hand or with a worker.
JobFor(v) == \/ \E i \in 1 .. Len(queue) : queue[i] = v
             \/ row # NoRow /\ row.version = v
             \/ listed = v
             \/ \E w \in QWorkers : qworker[w] # Idle /\ qworker[w].version = v

Placed == {"added", "persisted", "done", "dead"}

\* How far the sessions have come that the rest of the state speaks of: a job or a
\* check is of a version whose row was written, and so is the current version.
VersionsInv ==
    /\ \A v \in Uploads : JobFor(v) \/ checks[v] # NoCheck => up[v] \in Placed \ {"added"}
    /\ current # NoUpload => up[current] \in Placed /\ object[NameOf[current]] # NoUpload
    /\ status \notin {"draft", "uploading"} => current # NoUpload
    /\ \A w \in QWorkers : qworker[w] # Idle => current # NoUpload
    /\ \A o \in Operators : ops[o] # Idle => current # NoUpload
    /\ row # NoRow => row.attempts <= qfaults
    /\ \A u \in Uploads : up[u] = "assembled" => object[NameOf[u]] # NoUpload

\* The bytes of a version whose name is its own, from the assembly on.
BytesInv == \A v \in Uploads :
    OwnName(v) /\ (v = current \/ v \in sold \/ up[v] \in {"assembled", "added", "persisted", "done"})
    => object[NameOf[v]] = v

\* Why no job is lost: the retry row outlives the channel, the workers and the process, and
\* what deletes it has taken its own version out of "checking" before.
RetryInv ==
    /\ status = "checking" /\ stranded = "no" => up[current] = "added" \/ RowUsable
    /\ \A w \in QWorkers : qworker[w].stage = "set" /\ qworker[w].version = current
                           => status # "checking"

\* Something is under way for a version that was added.
Busy == \/ \E u \in Uploads : up[u] \in {"added", "persisted"}
        \/ queue # <<>> \/ row # NoRow \/ listed # NoUpload
        \/ \E w \in QWorkers : qworker[w] # Idle

Verdict == IF Passes(current) THEN "pass" ELSE "fail"

Examined(r) == [bytes |-> current, result |-> r]

\* Until a version is added over open work, all of it is about the current version and its bytes,
\* examined under one declaration.  The sessions under way ...
SessionsAlone ==
    /\ \A u, v \in Completing : u = v
    /\ \A u \in Uploads : up[u] \in {"added", "persisted"} => u = current
    /\ \A u \in Uploads : up[u] = "assembled" => object[NameOf[u]] = u /\ ~Busy
    /\ \A v \in Uploads : JobFor(v) => v = current

\* ... what was examined, and what the workers hold ...
ChecksAlone ==
    /\ Busy => object[NameOf[current]] = current
    /\ Busy /\ checks[current] # NoCheck => checks[current] = Examined(Verdict)
    /\ \A w \in QWorkers : qworker[w] # Idle =>
          /\ qworker[w].bytes = current /\ qworker[w].result = Verdict
          /\ qworker[w].stage # "read" => checks[current] # NoCheck

\* ... what the operators have read, and what is on the market.
MarketAlone ==
    /\ \A o \in Operators : ops[o] # Idle =>
          /\ ops[o].version = current
          /\ ops[o].stage = "review" => checks[current] = Examined("pass")
    /\ status \in {"reviewing", "published"} => checks[current] = Examined("pass")
    /\ status = "published" => approved = current

AloneInv == overlap = "no" => SessionsAlone /\ ChecksAlone /\ MarketAlone

DatasetIInv == DatasetTypeOK /\ VersionsInv /\ BytesInv /\ RetryInv /\ AloneInv

\* What a worker that is not idle holds.
Task == [stage: {"read", "saved", "set"}, version: Uploads, bytes: Uploads, result: {"pass", "fail"}]

\* A worker that is past idle holds a job, and going on to the next stage keeps what it holds.
LEMMA Stages ==
  ASSUME DatasetTypeOK, NEW w \in QWorkers, qworker[w].stage # "idle"
  PROVE  /\ qworker[w] \in Task /\ qworker[w] # Idle
         /\ \A s \in {"saved", "set"} : qworker' = [qworker EXCEPT ![w].stage = s] =>
              /\ qworker'[w] \in Task /\ qworker'[w] # Idle /\ qworker'[w].stage = s
              /\ qworker'[w].version = qworker[w].version
              /\ qworker'[w].bytes = qworker[w].bytes /\ qworker'[w].result = qworker[w].result
              /\ \A q \in QWorkers \ {w} : qworker'[q] = qworker[q]
              /\ qworker' \in [QWorkers -> {Idle} \cup Task]
<1>1. qworker \in [QWorkers -> {Idle} \cup Task]
  BY DEF DatasetTypeOK, Task
<1>2. qworker[w] \in Task /\ qworker[w] # Idle
  BY <1>1 DEF Idle
<1>3. ASSUME NEW s \in {"saved", "set"}, qworker' = [qworker EXCEPT ![w].stage = s]
      PROVE  /\ qworker'[w] = [qworker[w] EXCEPT !.stage = s]
             /\ \A q \in QWorkers \ {w} : qworker'[q] = qworker[q]
             /\ DOMAIN qworker' = QWorkers /\ qworker' = [q \in QWorkers |-> qworker'[q]]
  BY <1>1, <1>3
<1>4. ASSUME NEW s \in {"saved", "set"}
      PROVE  LET n == [qworker[w] EXCEPT !.stage = s] IN
             /\ n \in Task /\ n.stage = s /\ n.version = qworker[w].version
             /\ n.bytes = qworker[w].bytes /\ n.result = qworker[w].result
  BY <1>2 DEF Task
<1>5. ASSUME NEW n \in Task PROVE n # Idle
  BY DEF Task, Idle
<1> QED
  BY <1>1, <1>2, <1>3, <1>4, <1>5

\* An enqueued job is in the channel or in the row.
LEMMA Enqueued ==
  ASSUME DatasetTypeOK, NEW u \in Uploads, EnqueueQuality(u)
  PROVE  /\ queue' \in Seq(Uploads) /\ Len(queue') <= QueueCap
         /\ row' \in {NoRow} \cup [version: Uploads, attempts: 0 .. MaxAttempts + QFaults]
         /\ \A i \in 1 .. Len(queue') : queue'[i] = u \/ \E j \in 1 .. Len(queue) : queue'[i] = queue[j]
         /\ \/ queue' # <<>> /\ row' = row
            \/ queue' = queue /\ row' = Persisted(u)
<1> USE DatasetConstants DEF DatasetTypeOK
<1>1. CASE Len(queue) < QueueCap
  <2>1. queue' = Append(queue, u) /\ row' = row
    BY <1>1 DEF EnqueueQuality
  <2>2. Append(queue, u) \in Seq(Uploads) /\ Len(Append(queue, u)) = Len(queue) + 1
    OBVIOUS
  <2>3. \A i \in 1 .. Len(queue) + 1 : Append(queue, u)[i] = IF i <= Len(queue) THEN queue[i] ELSE u
    OBVIOUS
  <2>4. Len(queue) \in Nat
    OBVIOUS
  <2>5. \A i \in 1 .. Len(queue') : queue'[i] = u \/ \E j \in 1 .. Len(queue) : queue'[i] = queue[j]
    BY <2>1, <2>2, <2>3, <2>4
  <2> QED
    BY <1>1, <2>1, <2>2, <2>4, <2>5
<1>2. CASE ~(Len(queue) < QueueCap)
  <2>1. Persisted(u) \in [version: Uploads, attempts: 0 .. MaxAttempts + QFaults]
    BY DEF Persisted
  <2> QED
    BY <1>2, <2>1 DEF EnqueueQuality
<1> QED
  BY <1>1, <1>2

\* A row that a job was written to is one.
LEMMA Rows ==
  ASSUME DatasetTypeOK
  PROVE  /\ row # NoRow => row.version \in Uploads /\ row.attempts \in 0 .. MaxAttempts + QFaults
         /\ \A u \in Uploads : Persisted(u) # NoRow /\ Persisted(u).version = u /\ Persisted(u).attempts = 0
         /\ row # NoRow /\ row.attempts < MaxAttempts + QFaults =>
              LET n == [row EXCEPT !.attempts = @ + 1] IN
              /\ n \in [version: Uploads, attempts: 0 .. MaxAttempts + QFaults]
              /\ n # NoRow /\ n.version = row.version /\ n.attempts = row.attempts + 1
<1> USE DatasetConstants DEF DatasetTypeOK
<1>1. row # NoRow => row \in [version: Uploads, attempts: 0 .. MaxAttempts + QFaults]
  OBVIOUS
<1>2. ASSUME NEW n \in [version: Uploads, attempts: 0 .. MaxAttempts + QFaults] PROVE n # NoRow
  BY DEF NoRow
<1>3. ASSUME NEW u \in Uploads
      PROVE  /\ Persisted(u) \in [version: Uploads, attempts: 0 .. MaxAttempts + QFaults]
             /\ Persisted(u).version = u /\ Persisted(u).attempts = 0
  BY DEF Persisted
<1>4. ASSUME row # NoRow, row.attempts < MaxAttempts + QFaults
      PROVE  LET n == [row EXCEPT !.attempts = @ + 1] IN
             /\ n \in [version: Uploads, attempts: 0 .. MaxAttempts + QFaults]
             /\ n.version = row.version /\ n.attempts = row.attempts + 1
  BY <1>1, <1>4
<1> QED
  BY <1>1, <1>2, <1>3, <1>4


\* Every step keeps the types.
LEMMA DatasetType == DatasetTypeOK /\ VersionsInv /\ [DatasetNext]_qvars => DatasetTypeOK'
<1> SUFFICES ASSUME DatasetTypeOK, VersionsInv, [DatasetNext]_qvars PROVE DatasetTypeOK'
  OBVIOUS
<1> USE DatasetConstants DEF DatasetTypeOK, VersionsInv, Idle, NoCheck, NoRow, Flags, Statuses
<1>1. CASE Update
  BY <1>1 DEF Update, NoteOverlap, InFlight
<1>2. CASE SignSource
  BY <1>2 DEF SignSource
<1>3. CASE ForPurchase
  BY <1>3 DEF ForPurchase
<1>4. CASE ScanRetries
  BY <1>4 DEF ScanRetries, RowUsable, NoRow
<1>5. CASE Reenqueue
  BY <1>5, Enqueued DEF Reenqueue
<1>6. CASE Restart
  BY <1>6 DEF Restart, Completing
<1>7. ASSUME NEW u \in Uploads, InitUpload(u) PROVE DatasetTypeOK'
  BY <1>7 DEF InitUpload
<1>8. ASSUME NEW u \in Uploads, MarkUploading(u) PROVE DatasetTypeOK'
  BY <1>8 DEF MarkUploading
<1>9. ASSUME NEW u \in Uploads, CompleteMultipart(u) PROVE DatasetTypeOK'
  BY <1>9 DEF CompleteMultipart, Assembled, NoteOverlap, InFlight, Completing
<1>10. ASSUME NEW u \in Uploads, AddVersion(u) PROVE DatasetTypeOK'
  BY <1>10 DEF AddVersion, NoteOverlap, InFlight, Completing
<1>11. ASSUME NEW u \in Uploads, PersistJob(u) PROVE DatasetTypeOK'
  BY <1>11 DEF PersistJob, Persisted, NoRow
<1>12. ASSUME NEW u \in Uploads, DispatchJob(u) PROVE DatasetTypeOK'
  BY <1>12, Enqueued DEF DispatchJob
<1>13. ASSUME NEW u \in Uploads, PersistFails(u) PROVE DatasetTypeOK'
  BY <1>13 DEF PersistFails
<1>14. ASSUME NEW w \in QWorkers, ExamineObject(w) PROVE DatasetTypeOK'
  BY <1>14 DEF ExamineObject, Passes
<1>15. ASSUME NEW w \in QWorkers, SaveChecks(w) PROVE DatasetTypeOK'
  BY <1>15, Stages DEF SaveChecks, Task
<1>16. ASSUME NEW w \in QWorkers, AdvanceStatus(w) PROVE DatasetTypeOK'
  BY <1>16, Stages DEF AdvanceStatus, Task
<1>17. ASSUME NEW w \in QWorkers, ClearRetry(w) PROVE DatasetTypeOK'
  BY <1>17 DEF ClearRetry, NoRow
<1>18. ASSUME NEW w \in QWorkers, MarkAttempt(w) PROVE DatasetTypeOK'
  BY <1>18, Rows DEF MarkAttempt
<1>19. ASSUME NEW o \in Operators, OpsReads(o) PROVE DatasetTypeOK'
  BY <1>19 DEF OpsReads
<1>20. ASSUME NEW o \in Operators, Review(o) PROVE DatasetTypeOK'
  BY <1>20 DEF Review
<1>21. ASSUME NEW o \in Operators, Delist(o) PROVE DatasetTypeOK'
  BY <1>21 DEF Delist
<1>22. CASE UNCHANGED qvars
  BY <1>22 DEF qvars
<1> QED
  BY <1>1, <1>2, <1>3, <1>4, <1>5, <1>6, <1>7, <1>8, <1>9, <1>10, <1>11, <1>12, <1>13, <1>14,
     <1>15, <1>16, <1>17, <1>18, <1>19, <1>20, <1>21, <1>22 DEF DatasetNext, SellerStep,
     WorkerStep, OpsStep


\* PersistJob or DispatchJob hands a version over to the row or the channel.
Handed(v) == \/ up[v] = "added" /\ up'[v] = "persisted"
             \/ up[v] = "persisted" /\ up'[v] = "done"
\* A step gives no job to a version but the one it hands over.
LEMMA NewJobs == DatasetTypeOK /\ [DatasetNext]_qvars => \A v \in Uploads : JobFor(v)' => JobFor(v) \/ Handed(v)
<1> SUFFICES ASSUME DatasetTypeOK, [DatasetNext]_qvars PROVE \A v \in Uploads : JobFor(v)' => JobFor(v) \/ Handed(v)
  OBVIOUS
<1> USE DEF DatasetTypeOK, JobFor, Handed
<1>1. CASE Update
  BY <1>1 DEF Update, NoteOverlap, InFlight
<1>2. CASE SignSource
  BY <1>2 DEF SignSource
<1>3. CASE ForPurchase
  BY <1>3 DEF ForPurchase
<1>4. CASE ScanRetries
  BY <1>4, Rows DEF ScanRetries, RowUsable, NoRow
<1>5. CASE Reenqueue
  <2>1. UNCHANGED qworker /\ listed \in Uploads /\ listed' = NoUpload
    BY <1>5 DEF Reenqueue
  <2>2. EnqueueQuality(listed)
    BY <1>5 DEF Reenqueue
  <2>3. /\ \A i \in 1 .. Len(queue') : queue'[i] = listed \/ \E j \in 1 .. Len(queue) : queue'[i] = queue[j]
        /\ row' = row \/ row' = Persisted(listed)
    BY <2>1, <2>2, Enqueued
  <2>4. row' # NoRow => row' = row \/ row'.version = listed
    BY <2>1, <2>3, Rows
  <2> QED
    BY <2>1, <2>3, <2>4, DatasetConstants
<1>6. CASE Restart
  <2>1. queue' = <<>> /\ row' = row /\ listed' = NoUpload /\ \A w \in QWorkers : qworker'[w] = Idle
    BY <1>6 DEF Restart
  <2>2. Len(queue') = 0
    BY <2>1
  <2> QED
    BY <2>1, <2>2, DatasetConstants
<1>7. ASSUME NEW u \in Uploads, InitUpload(u)
      PROVE \A v \in Uploads : JobFor(v)' => JobFor(v) \/ Handed(v)
  BY <1>7 DEF InitUpload
<1>8. ASSUME NEW u \in Uploads, MarkUploading(u)
      PROVE \A v \in Uploads : JobFor(v)' => JobFor(v) \/ Handed(v)
  BY <1>8 DEF MarkUploading
<1>9. ASSUME NEW u \in Uploads, CompleteMultipart(u)
      PROVE \A v \in Uploads : JobFor(v)' => JobFor(v) \/ Handed(v)
  BY <1>9 DEF CompleteMultipart, Assembled, NoteOverlap, InFlight, Completing
<1>10. ASSUME NEW u \in Uploads, AddVersion(u)
       PROVE \A v \in Uploads : JobFor(v)' => JobFor(v) \/ Handed(v)
  BY <1>10 DEF AddVersion, NoteOverlap, InFlight, Completing
<1>11. ASSUME NEW u \in Uploads, PersistJob(u)
       PROVE \A v \in Uploads : JobFor(v)' => JobFor(v) \/ Handed(v)
  <2>1. UNCHANGED <<queue, qworker, listed>> /\ row' = Persisted(u)
    BY <1>11 DEF PersistJob
  <2>2. up[u] = "added" /\ up'[u] = "persisted"
    BY <1>11 DEF PersistJob
  <2>3. row'.version = u
    BY <2>1, Rows
  <2>4. ASSUME NEW v \in Uploads, v # u, JobFor(v)' PROVE JobFor(v)
    BY <2>1, <2>3, <2>4
  <2>5. Handed(u)
    BY <2>2
  <2> QED
    BY <2>4, <2>5
<1>12. ASSUME NEW u \in Uploads, DispatchJob(u)
       PROVE \A v \in Uploads : JobFor(v)' => JobFor(v) \/ Handed(v)
  BY <1>12, Enqueued, Rows DEF DispatchJob
<1>13. ASSUME NEW u \in Uploads, PersistFails(u)
       PROVE \A v \in Uploads : JobFor(v)' => JobFor(v) \/ Handed(v)
  BY <1>13 DEF PersistFails
<1>14. ASSUME NEW w \in QWorkers, ExamineObject(w)
       PROVE \A v \in Uploads : JobFor(v)' => JobFor(v) \/ Handed(v)
  BY <1>14 DEF ExamineObject, Passes
<1>15. ASSUME NEW w \in QWorkers, SaveChecks(w)
       PROVE \A v \in Uploads : JobFor(v)' => JobFor(v) \/ Handed(v)
  <2>1. UNCHANGED <<queue, row, listed>>
    BY <1>15 DEF SaveChecks
  <2>2. \A q \in QWorkers : qworker'[q] # Idle => qworker[q] # Idle /\ qworker'[q].version = qworker[q].version
    BY <1>15, Stages DEF SaveChecks
  <2> QED
    BY <2>1, <2>2
<1>16. ASSUME NEW w \in QWorkers, AdvanceStatus(w)
       PROVE \A v \in Uploads : JobFor(v)' => JobFor(v) \/ Handed(v)
  <2>1. UNCHANGED <<queue, row, listed>>
    BY <1>16 DEF AdvanceStatus
  <2>2. \A q \in QWorkers : qworker'[q] # Idle => qworker[q] # Idle /\ qworker'[q].version = qworker[q].version
    BY <1>16, Stages DEF AdvanceStatus
  <2> QED
    BY <2>1, <2>2
<1>17. ASSUME NEW w \in QWorkers, ClearRetry(w)
       PROVE \A v \in Uploads : JobFor(v)' => JobFor(v) \/ Handed(v)
  BY <1>17 DEF ClearRetry, NoRow
<1>18. ASSUME NEW w \in QWorkers, MarkAttempt(w)
       PROVE \A v \in Uploads : JobFor(v)' => JobFor(v) \/ Handed(v)
  BY <1>18, Rows DEF MarkAttempt
<1>19. ASSUME NEW o \in Operators, OpsReads(o)
       PROVE \A v \in Uploads : JobFor(v)' => JobFor(v) \/ Handed(v)
  BY <1>19 DEF OpsReads
<1>20. ASSUME NEW o \in Operators, Review(o)
       PROVE \A v \in Uploads : JobFor(v)' => JobFor(v) \/ Handed(v)
  BY <1>20 DEF Review
<1>21. ASSUME NEW o \in Operators, Delist(o)
       PROVE \A v \in Uploads : JobFor(v)' => JobFor(v) \/ Handed(v)
  BY <1>21 DEF Delist
<1>22. CASE UNCHANGED qvars
  BY <1>22 DEF qvars, RowUsable, Busy, Completing, Verdict, Passes, Examined
<1> QED
  BY <1>1, <1>2, <1>3, <1>4, <1>5, <1>6, <1>7, <1>8, <1>9, <1>10, <1>11, <1>12, <1>13, <1>14,
     <1>15, <1>16, <1>17, <1>18, <1>19, <1>20, <1>21, <1>22 DEF DatasetNext, SellerStep,
     WorkerStep, OpsStep

\* Every step keeps how far the sessions have come.
LEMMA VersionsStep == DatasetTypeOK /\ VersionsInv /\ [DatasetNext]_qvars => VersionsInv'
<1> SUFFICES ASSUME DatasetTypeOK, VersionsInv, [DatasetNext]_qvars PROVE VersionsInv'
  OBVIOUS
<1>0. \A v \in Uploads : JobFor(v)' => JobFor(v) \/ Handed(v)
  BY NewJobs
<1> USE DatasetConstants DEF DatasetTypeOK, VersionsInv, Handed, Placed
<1>1. CASE Update
  BY <1>1, <1>0 DEF Update, NoteOverlap, InFlight
<1>2. CASE SignSource
  BY <1>2, <1>0 DEF SignSource
<1>3. CASE ForPurchase
  BY <1>3, <1>0 DEF ForPurchase
<1>4. CASE ScanRetries
  BY <1>4, <1>0, Rows DEF ScanRetries, RowUsable, NoRow
<1>5. CASE Reenqueue
  <2>1. UNCHANGED <<status, current, object, up, checks, qworker, ops, qfaults>> /\ listed \in Uploads
    BY <1>5 DEF Reenqueue
  <2>2. row' = row \/ row' = Persisted(listed)
    BY <1>5, <2>1, Enqueued DEF Reenqueue
  <2>3. row' # NoRow => row'.attempts <= qfaults
    BY <2>1, <2>2, Rows
  <2> QED
    BY <1>0, <2>1, <2>3
<1>6. CASE Restart
  BY <1>6, <1>0 DEF Restart, Completing
<1>7. ASSUME NEW u \in Uploads, InitUpload(u) PROVE VersionsInv'
  BY <1>7, <1>0 DEF InitUpload
<1>8. ASSUME NEW u \in Uploads, MarkUploading(u) PROVE VersionsInv'
  BY <1>8, <1>0 DEF MarkUploading
<1>9. ASSUME NEW u \in Uploads, CompleteMultipart(u) PROVE VersionsInv'
  BY <1>9, <1>0 DEF CompleteMultipart, Assembled, NoteOverlap, InFlight, Completing
<1>10. ASSUME NEW u \in Uploads, AddVersion(u) PROVE VersionsInv'
  BY <1>10, <1>0 DEF AddVersion, NoteOverlap, InFlight, Completing
<1>11. ASSUME NEW u \in Uploads, PersistJob(u) PROVE VersionsInv'
  BY <1>11, <1>0, Rows DEF PersistJob
<1>12. ASSUME NEW u \in Uploads, DispatchJob(u) PROVE VersionsInv'
  <2>1. UNCHANGED <<status, current, object, checks, qworker, ops, qfaults>>
    BY <1>12 DEF DispatchJob
  <2>2. row' = row \/ row' = Persisted(u)
    BY <1>12, Enqueued DEF DispatchJob
  <2>3. row' # NoRow => row'.attempts <= qfaults
    BY <2>1, <2>2, Rows
  <2>4. up[u] = "persisted" /\ up'[u] = "done" /\ \A v \in Uploads \ {u} : up'[v] = up[v]
    BY <1>12 DEF DispatchJob
  <2> QED
    BY <1>0, <2>1, <2>3, <2>4
<1>13. ASSUME NEW u \in Uploads, PersistFails(u) PROVE VersionsInv'
  BY <1>13, <1>0 DEF PersistFails
<1>14. ASSUME NEW w \in QWorkers, ExamineObject(w) PROVE VersionsInv'
  BY <1>14, <1>0 DEF ExamineObject, Passes
<1>15. ASSUME NEW w \in QWorkers, SaveChecks(w) PROVE VersionsInv'
  <2>1. UNCHANGED <<status, current, object, up, row, ops, qfaults>>
    BY <1>15 DEF SaveChecks
  <2>2. qworker[w].version \in Uploads /\ qworker[w] # Idle
    BY <1>15, Stages DEF SaveChecks, Task
  <2>3. JobFor(qworker[w].version)
    BY <2>2 DEF JobFor
  <2>4. \A v \in Uploads \ {qworker[w].version} : checks'[v] = checks[v]
    BY <1>15 DEF SaveChecks
  <2>5. \A q \in QWorkers : qworker'[q] # Idle => qworker[q] # Idle
    BY ZenonT(40), <1>15, Stages DEF SaveChecks
  <2> QED
    BY <1>0, <2>1, <2>2, <2>3, <2>4, <2>5
<1>16. ASSUME NEW w \in QWorkers, AdvanceStatus(w) PROVE VersionsInv'
  BY <1>16, <1>0, Stages DEF AdvanceStatus
<1>17. ASSUME NEW w \in QWorkers, ClearRetry(w) PROVE VersionsInv'
  BY <1>17, <1>0 DEF ClearRetry, NoRow
<1>18. ASSUME NEW w \in QWorkers, MarkAttempt(w) PROVE VersionsInv'
  BY <1>18, <1>0, Rows DEF MarkAttempt
<1>19. ASSUME NEW o \in Operators, OpsReads(o) PROVE VersionsInv'
  BY <1>19, <1>0 DEF OpsReads
<1>20. ASSUME NEW o \in Operators, Review(o) PROVE VersionsInv'
  <2>1. UNCHANGED <<current, object, up, checks, qworker, row, qfaults>>
    BY <1>20 DEF Review
  <2>2. ops[o] # Idle /\ \A q \in Operators : ops'[q] # Idle => ops[q] # Idle
    BY <1>20 DEF Review, Idle
  <2> QED
    BY <1>0, <2>1, <2>2
<1>21. ASSUME NEW o \in Operators, Delist(o) PROVE VersionsInv'
  <2>1. UNCHANGED <<current, object, up, checks, qworker, row, qfaults>>
    BY <1>21 DEF Delist
  <2>2. ops[o] # Idle /\ \A q \in Operators : ops'[q] # Idle => ops[q] # Idle
    BY <1>21 DEF Delist, Idle
  <2> QED
    BY <1>0, <2>1, <2>2
<1>22. CASE UNCHANGED qvars
  BY <1>22, <1>0 DEF qvars, RowUsable, Busy, Completing, Verdict, Passes, Examined
<1> QED
  BY <1>1, <1>2, <1>3, <1>4, <1>5, <1>6, <1>7, <1>8, <1>9, <1>10, <1>11, <1>12, <1>13, <1>14,
     <1>15, <1>16, <1>17, <1>18, <1>19, <1>20, <1>21, <1>22 DEF DatasetNext, SellerStep,
     WorkerStep, OpsStep

\* Every step keeps the bytes of a version whose name is its own.
LEMMA BytesStep == DatasetTypeOK /\ VersionsInv /\ BytesInv /\ [DatasetNext]_qvars => BytesInv'
<1> SUFFICES ASSUME DatasetTypeOK, VersionsInv, BytesInv, [DatasetNext]_qvars PROVE BytesInv'
  OBVIOUS
<1> USE DatasetConstants DEF DatasetTypeOK, BytesInv, OwnName
<1>1. CASE Update
  BY <1>1 DEF Update, NoteOverlap, InFlight
<1>2. CASE SignSource
  BY <1>2 DEF SignSource
<1>3. CASE ForPurchase
  BY <1>3 DEF ForPurchase
<1>4. CASE ScanRetries
  BY <1>4 DEF ScanRetries
<1>5. CASE Reenqueue
  BY <1>5 DEF Reenqueue
<1>6. CASE Restart
  BY <1>6 DEF Restart, Completing
<1>7. ASSUME NEW u \in Uploads, InitUpload(u) PROVE BytesInv'
  BY <1>7 DEF InitUpload
<1>8. ASSUME NEW u \in Uploads, MarkUploading(u) PROVE BytesInv'
  BY <1>8 DEF MarkUploading
<1>9. ASSUME NEW u \in Uploads, CompleteMultipart(u) PROVE BytesInv'
  BY <1>9 DEF CompleteMultipart, Assembled, NoteOverlap, InFlight, Completing
<1>10. ASSUME NEW u \in Uploads, AddVersion(u) PROVE BytesInv'
  BY <1>10 DEF AddVersion, NoteOverlap, InFlight, Completing
<1>11. ASSUME NEW u \in Uploads, PersistJob(u) PROVE BytesInv'
  BY <1>11 DEF PersistJob
<1>12. ASSUME NEW u \in Uploads, DispatchJob(u) PROVE BytesInv'
  BY <1>12 DEF DispatchJob
<1>13. ASSUME NEW u \in Uploads, PersistFails(u) PROVE BytesInv'
  BY <1>13 DEF PersistFails
<1>14. ASSUME NEW w \in QWorkers, ExamineObject(w) PROVE BytesInv'
  BY <1>14 DEF ExamineObject, Passes
<1>15. ASSUME NEW w \in QWorkers, SaveChecks(w) PROVE BytesInv'
  BY <1>15 DEF SaveChecks
<1>16. ASSUME NEW w \in QWorkers, AdvanceStatus(w) PROVE BytesInv'
  BY <1>16 DEF AdvanceStatus
<1>17. ASSUME NEW w \in QWorkers, ClearRetry(w) PROVE BytesInv'
  BY <1>17 DEF ClearRetry
<1>18. ASSUME NEW w \in QWorkers, MarkAttempt(w) PROVE BytesInv'
  BY <1>18 DEF MarkAttempt
<1>19. ASSUME NEW o \in Operators, OpsReads(o) PROVE BytesInv'
  BY <1>19 DEF OpsReads
<1>20. ASSUME NEW o \in Operators, Review(o) PROVE BytesInv'
  BY <1>20 DEF Review
<1>21. ASSUME NEW o \in Operators, Delist(o) PROVE BytesInv'
  BY <1>21 DEF Delist
<1>22. CASE UNCHANGED qvars
  BY <1>22 DEF qvars, RowUsable, Busy, Completing, Verdict, Passes, Examined
<1> QED
  BY <1>1, <1>2, <1>3, <1>4, <1>5, <1>6, <1>7, <1>8, <1>9, <1>10, <1>11, <1>12, <1>13, <1>14,
     <1>15, <1>16, <1>17, <1>18, <1>19, <1>20, <1>21, <1>22 DEF DatasetNext, SellerStep,
     WorkerStep, OpsStep

\* Every step keeps the row that carries the dataset on.
LEMMA RetryStep == DatasetTypeOK /\ VersionsInv /\ RetryInv /\ [DatasetNext]_qvars => RetryInv'
<1> SUFFICES ASSUME DatasetTypeOK, VersionsInv, RetryInv, [DatasetNext]_qvars PROVE RetryInv'
  OBVIOUS
<1> USE DatasetConstants DEF DatasetTypeOK, VersionsInv, RetryInv, RowUsable, Placed, JobFor
<1>1. CASE Update
  BY <1>1 DEF Update, NoteOverlap, InFlight
<1>2. CASE SignSource
  BY <1>2 DEF SignSource
<1>3. CASE ForPurchase
  BY <1>3 DEF ForPurchase
<1>4. CASE ScanRetries
  BY <1>4, Rows DEF ScanRetries
<1>5. CASE Reenqueue
  BY <1>5, Enqueued, Rows DEF Reenqueue
<1>6. CASE Restart
  <2>1. UNCHANGED <<status, current, row>> /\ \A w \in QWorkers : qworker'[w] = Idle
    BY <1>6 DEF Restart
  <2>2. ASSUME status = "checking", stranded' = "no" PROVE RowUsable
    <3>1. stranded = "no" /\ \A u \in Uploads : up[u] # "added"
      BY <1>6, <2>2 DEF Restart
    <3>2. current \in Uploads
      BY <2>2
    <3> QED
      BY <2>2, <3>1, <3>2
  <2> QED
    BY <2>1, <2>2 DEF Idle
<1>7. ASSUME NEW u \in Uploads, InitUpload(u) PROVE RetryInv'
  BY <1>7 DEF InitUpload
<1>8. ASSUME NEW u \in Uploads, MarkUploading(u) PROVE RetryInv'
  BY <1>8 DEF MarkUploading
<1>9. ASSUME NEW u \in Uploads, CompleteMultipart(u) PROVE RetryInv'
  BY <1>9 DEF CompleteMultipart, Assembled, NoteOverlap, InFlight, Completing
<1>10. ASSUME NEW u \in Uploads, AddVersion(u) PROVE RetryInv'
  <2>1. up[u] = "assembled" /\ up'[u] = "added" /\ current' = u /\ UNCHANGED qworker
    BY <1>10 DEF AddVersion
  <2>2. ASSUME NEW w \in QWorkers, qworker[w].stage = "set", qworker[w].version = u PROVE FALSE
    <3>1. JobFor(u)
      BY <2>2, Stages
    <3> QED
      BY <2>1, <3>1
  <2> QED
    BY <2>1, <2>2
<1>11. ASSUME NEW u \in Uploads, PersistJob(u) PROVE RetryInv'
  BY <1>11, Rows DEF PersistJob
<1>12. ASSUME NEW u \in Uploads, DispatchJob(u) PROVE RetryInv'
  BY <1>12, Enqueued, Rows DEF DispatchJob
<1>13. ASSUME NEW u \in Uploads, PersistFails(u) PROVE RetryInv'
  BY <1>13 DEF PersistFails
<1>14. ASSUME NEW w \in QWorkers, ExamineObject(w) PROVE RetryInv'
  BY <1>14 DEF ExamineObject, Passes
<1>15. ASSUME NEW w \in QWorkers, SaveChecks(w) PROVE RetryInv'
  BY <1>15, Stages DEF SaveChecks
<1>16. ASSUME NEW w \in QWorkers, AdvanceStatus(w) PROVE RetryInv'
  BY <1>16, Stages DEF AdvanceStatus
<1>17. ASSUME NEW w \in QWorkers, ClearRetry(w) PROVE RetryInv'
  <2>1. UNCHANGED <<status, current, up>> /\ qworker'[w] = Idle
        /\ \A q \in QWorkers \ {w} : qworker'[q] = qworker[q]
    BY <1>17 DEF ClearRetry
  <2>2. ASSUME status = "checking", stranded' = "no" PROVE up[current] = "added"
    BY <1>17, <2>2 DEF ClearRetry
  <2> QED
    BY SMTT(20), <2>1, <2>2 DEF Idle
<1>18. ASSUME NEW w \in QWorkers, MarkAttempt(w) PROVE RetryInv'
  <2>1. UNCHANGED <<status, current, up>> /\ qworker'[w] = Idle
        /\ \A q \in QWorkers \ {w} : qworker'[q] = qworker[q]
    BY <1>18 DEF MarkAttempt
  <2>2. ASSUME status = "checking", stranded' = "no", up[current] # "added" PROVE RowUsable'
    <3>1. stranded = "no" /\ RowUsable
      BY <1>18, <2>2 DEF MarkAttempt
    <3>2. row' = [row EXCEPT !.attempts = @ + 1] /\ row.attempts + 1 < MaxAttempts
      BY <1>18, <2>2, <3>1, Rows DEF MarkAttempt
    <3>3. row' # NoRow /\ row'.attempts = row.attempts + 1
      BY <3>1, <3>2, Rows
    <3> QED
      BY <3>2, <3>3
  <2> QED
    BY <2>1, <2>2 DEF Idle
<1>19. ASSUME NEW o \in Operators, OpsReads(o) PROVE RetryInv'
  BY <1>19 DEF OpsReads
<1>20. ASSUME NEW o \in Operators, Review(o) PROVE RetryInv'
  BY <1>20 DEF Review
<1>21. ASSUME NEW o \in Operators, Delist(o) PROVE RetryInv'
  BY <1>21 DEF Delist
<1>22. CASE UNCHANGED qvars
  BY <1>22 DEF qvars, RowUsable, Busy, Completing, Verdict, Passes, Examined
<1> QED
  BY <1>1, <1>2, <1>3, <1>4, <1>5, <1>6, <1>7, <1>8, <1>9, <1>10, <1>11, <1>12, <1>13, <1>14,
     <1>15, <1>16, <1>17, <1>18, <1>19, <1>20, <1>21, <1>22 DEF DatasetNext, SellerStep,
     WorkerStep, OpsStep

\* A step that adds no version and edits no declaration.
Calm ==
    /\ UNCHANGED <<current, object, declared, overlap>>
    /\ \A u \in Uploads : up'[u] = "assembled" => up[u] = "assembled"
    /\ \A u \in Uploads : up'[u] \in {"added", "persisted"} => up[u] \in {"added", "persisted"}
    /\ Busy' => Busy

Loud == Update \/ \E u \in Uploads : CompleteMultipart(u) \/ AddVersion(u)

\* Every other step leaves what it is about as it is.
LEMMA CalmSteps == DatasetTypeOK /\ [DatasetNext]_qvars => Loud \/ Calm
<1> SUFFICES ASSUME DatasetTypeOK, [DatasetNext]_qvars PROVE Loud \/ Calm
  OBVIOUS
<1> USE DEF DatasetTypeOK, Busy
<1>1. CASE Update
  BY <1>1 DEF Loud
<1>2. CASE SignSource
  BY <1>2 DEF Calm, SignSource
<1>3. CASE ForPurchase
  BY <1>3 DEF Calm, ForPurchase
<1>4. CASE ScanRetries
  BY <1>4, Rows DEF Calm, ScanRetries, RowUsable
<1>5. CASE Reenqueue
  BY <1>5, Enqueued, Rows DEF Calm, Reenqueue
<1>6. CASE Restart
  BY <1>6 DEF Calm, Restart, Completing
<1>7. ASSUME NEW u \in Uploads, InitUpload(u) PROVE Loud \/ Calm
  BY <1>7 DEF Calm, InitUpload
<1>8. ASSUME NEW u \in Uploads, MarkUploading(u) PROVE Loud \/ Calm
  BY <1>8 DEF Calm, MarkUploading
<1>9. ASSUME NEW u \in Uploads, CompleteMultipart(u) PROVE Loud \/ Calm
  BY <1>9 DEF Loud
<1>10. ASSUME NEW u \in Uploads, AddVersion(u) PROVE Loud \/ Calm
  BY <1>10 DEF Loud
<1>11. ASSUME NEW u \in Uploads, PersistJob(u) PROVE Loud \/ Calm
  BY <1>11, Rows DEF Calm, PersistJob
<1>12. ASSUME NEW u \in Uploads, DispatchJob(u) PROVE Loud \/ Calm
  BY <1>12, Enqueued, Rows DEF Calm, DispatchJob
<1>13. ASSUME NEW u \in Uploads, PersistFails(u) PROVE Loud \/ Calm
  BY <1>13 DEF Calm, PersistFails
<1>14. ASSUME NEW w \in QWorkers, ExamineObject(w) PROVE Loud \/ Calm
  BY <1>14 DEF Calm, ExamineObject, Passes
<1>15. ASSUME NEW w \in QWorkers, SaveChecks(w) PROVE Loud \/ Calm
  BY <1>15, Stages DEF Calm, SaveChecks
<1>16. ASSUME NEW w \in QWorkers, AdvanceStatus(w) PROVE Loud \/ Calm
  BY <1>16, Stages DEF Calm, AdvanceStatus
<1>17. ASSUME NEW w \in QWorkers, ClearRetry(w) PROVE Loud \/ Calm
  BY <1>17 DEF Calm, ClearRetry
<1>18. ASSUME NEW w \in QWorkers, MarkAttempt(w) PROVE Loud \/ Calm
  BY <1>18, Rows DEF Calm, MarkAttempt
<1>19. ASSUME NEW o \in Operators, OpsReads(o) PROVE Loud \/ Calm
  BY <1>19 DEF Calm, OpsReads
<1>20. ASSUME NEW o \in Operators, Review(o) PROVE Loud \/ Calm
  BY <1>20 DEF Calm, Review
<1>21. ASSUME NEW o \in Operators, Delist(o) PROVE Loud \/ Calm
  BY <1>21 DEF Calm, Delist
<1>22. CASE UNCHANGED qvars
  BY <1>22 DEF Calm, qvars, RowUsable, Busy, Completing, Verdict, Passes, Examined
<1> QED
  BY <1>1, <1>2, <1>3, <1>4, <1>5, <1>6, <1>7, <1>8, <1>9, <1>10, <1>11, <1>12, <1>13, <1>14,
     <1>15, <1>16, <1>17, <1>18, <1>19, <1>20, <1>21, <1>22 DEF DatasetNext, SellerStep,
     WorkerStep, OpsStep

\* A calm step that examines, files, advances and reviews nothing.
Rest ==
    /\ UNCHANGED <<checks, approved>> /\ status' \in {status, "uploading", "delisted"}
    /\ \A w \in QWorkers : qworker'[w] \in {qworker[w], Idle}
    /\ \A o \in Operators : ops'[o] \in {ops[o], Idle}

Acting == \/ \E w \in QWorkers : ExamineObject(w) \/ SaveChecks(w) \/ AdvanceStatus(w)
          \/ \E o \in Operators : OpsReads(o) \/ Review(o)

\* Every other step files and decides nothing.
LEMMA RestSteps == DatasetTypeOK /\ [DatasetNext]_qvars => Loud \/ Acting \/ Rest
<1> SUFFICES ASSUME DatasetTypeOK, [DatasetNext]_qvars PROVE Loud \/ Acting \/ Rest
  OBVIOUS
<1> USE DEF DatasetTypeOK
<1>1. CASE Update
  BY <1>1 DEF Loud
<1>2. CASE SignSource
  BY <1>2 DEF Rest, SignSource
<1>3. CASE ForPurchase
  BY <1>3 DEF Rest, ForPurchase
<1>4. CASE ScanRetries
  BY <1>4 DEF Rest, ScanRetries
<1>5. CASE Reenqueue
  BY <1>5 DEF Rest, Reenqueue
<1>6. CASE Restart
  BY <1>6 DEF Rest, Restart, Completing
<1>7. ASSUME NEW u \in Uploads, InitUpload(u) PROVE Loud \/ Acting \/ Rest
  BY <1>7 DEF Rest, InitUpload
<1>8. ASSUME NEW u \in Uploads, MarkUploading(u) PROVE Loud \/ Acting \/ Rest
  BY <1>8 DEF Rest, MarkUploading
<1>9. ASSUME NEW u \in Uploads, CompleteMultipart(u) PROVE Loud \/ Acting \/ Rest
  BY <1>9 DEF Loud
<1>10. ASSUME NEW u \in Uploads, AddVersion(u) PROVE Loud \/ Acting \/ Rest
  BY <1>10 DEF Loud
<1>11. ASSUME NEW u \in Uploads, PersistJob(u) PROVE Loud \/ Acting \/ Rest
  BY <1>11 DEF Rest, PersistJob
<1>12. ASSUME NEW u \in Uploads, DispatchJob(u) PROVE Loud \/ Acting \/ Rest
  BY <1>12 DEF Rest, DispatchJob
<1>13. ASSUME NEW u \in Uploads, PersistFails(u) PROVE Loud \/ Acting \/ Rest
  BY <1>13 DEF Rest, PersistFails
<1>14. ASSUME NEW w \in QWorkers, ExamineObject(w) PROVE Loud \/ Acting \/ Rest
  BY <1>14 DEF Acting
<1>15. ASSUME NEW w \in QWorkers, SaveChecks(w) PROVE Loud \/ Acting \/ Rest
  BY <1>15 DEF Acting
<1>16. ASSUME NEW w \in QWorkers, AdvanceStatus(w) PROVE Loud \/ Acting \/ Rest
  BY <1>16 DEF Acting
<1>17. ASSUME NEW w \in QWorkers, ClearRetry(w) PROVE Loud \/ Acting \/ Rest
  BY <1>17 DEF Rest, ClearRetry
<1>18. ASSUME NEW w \in QWorkers, MarkAttempt(w) PROVE Loud \/ Acting \/ Rest
  BY <1>18 DEF Rest, MarkAttempt
<1>19. ASSUME NEW o \in Operators, OpsReads(o) PROVE Loud \/ Acting \/ Rest
  BY <1>19 DEF Acting
<1>20. ASSUME NEW o \in Operators, Review(o) PROVE Loud \/ Acting \/ Rest
  BY <1>20 DEF Acting
<1>21. ASSUME NEW o \in Operators, Delist(o) PROVE Loud \/ Acting \/ Rest
  BY <1>21 DEF Rest, Delist
<1>22. CASE UNCHANGED qvars
  BY <1>22 DEF Rest, qvars, RowUsable, Busy, Completing, Verdict, Passes, Examined
<1> QED
  BY <1>1, <1>2, <1>3, <1>4, <1>5, <1>6, <1>7, <1>8, <1>9, <1>10, <1>11, <1>12, <1>13, <1>14,
     <1>15, <1>16, <1>17, <1>18, <1>19, <1>20, <1>21, <1>22 DEF DatasetNext, SellerStep,
     WorkerStep, OpsStep

\* Nothing is under way but what the sessions do.
Nothing == /\ queue = <<>> /\ row = NoRow /\ listed = NoUpload
           /\ \A w \in QWorkers : qworker[w] = Idle
           /\ \A o \in Operators : ops[o] = Idle

\* What is not noted as an overlap found nothing under way.
LEMMA NotOver ==
  ASSUME NEW u, NoteOverlap(u), overlap' = "no"
  PROVE  overlap = "no" /\ Nothing /\ Completing \subseteq {u}
BY DEF NoteOverlap, InFlight, Nothing

\* Where nothing is under way there is no job.
LEMMA NoJobs == ASSUME DatasetTypeOK, Nothing, NEW v \in Uploads PROVE ~JobFor(v)
<1>1. Len(queue) = 0
  BY DEF Nothing
<1> QED
  BY <1>1, DatasetConstants DEF Nothing, JobFor

\* Every step that is not over open work keeps it about the current version.
LEMMA AloneStep == DatasetTypeOK /\ VersionsInv /\ AloneInv /\ [DatasetNext]_qvars => AloneInv'
<1> SUFFICES ASSUME DatasetTypeOK, VersionsInv, AloneInv, [DatasetNext]_qvars, overlap' = "no"
             PROVE  SessionsAlone' /\ ChecksAlone' /\ MarketAlone'
  BY DEF AloneInv
<1>0. DatasetTypeOK' /\ \A v \in Uploads : JobFor(v)' => JobFor(v) \/ Handed(v)
  BY DatasetType, NewJobs
<1>1. CASE Update
  <2>1. /\ overlap = "no" /\ Nothing /\ Completing = {} /\ status \in {"draft", "rejected"}
        /\ UNCHANGED <<status, current, object, up, checks, queue, row, qworker, listed, ops>>
    <3>1. NoteOverlap(NoUpload) /\ Completing \subseteq Uploads \ {NoUpload}
      BY <1>1, DatasetConstants DEF Update, Completing
    <3> QED
      BY <1>1, <3>1, NotOver DEF Update, Editable
  <2>2. ~Busy /\ ~Busy'
    BY <2>1 DEF Busy, Nothing, Completing
  <2>3. SessionsAlone'
    BY <2>1, <2>2, <1>0, NoJobs DEF AloneInv, SessionsAlone, Completing, Handed
  <2>4. ChecksAlone' /\ MarketAlone'
    BY <2>1, <2>2 DEF ChecksAlone, MarketAlone, Nothing
  <2> QED
    BY <2>3, <2>4
<1>2. ASSUME NEW u \in Uploads, CompleteMultipart(u)
      PROVE  SessionsAlone' /\ ChecksAlone' /\ MarketAlone'
  <2>1. /\ overlap = "no" /\ Nothing /\ Completing \subseteq {u} /\ up[u] = "open"
        /\ UNCHANGED <<status, current, checks, queue, row, qworker, listed, ops, approved>>
        /\ up' = [up EXCEPT ![u] = "assembled"] /\ object' = Assembled(u)
    BY <1>2, NotOver DEF CompleteMultipart
  <2>2. /\ \A v \in Uploads \ {u} : up'[v] = up[v] /\ up[v] \notin {"assembled", "added", "persisted"}
        /\ up'[u] = "assembled" /\ object'[NameOf[u]] = u
    BY <2>1, DatasetConstants DEF DatasetTypeOK, Completing, Assembled
  <2>3. ~Busy'
    BY <2>1, <2>2 DEF Busy, Nothing
  <2>4. \A v \in Uploads : ~JobFor(v)'
    BY <2>1, <2>2, <1>0, NoJobs DEF Handed
  <2>5. SessionsAlone'
    BY <2>2, <2>3, <2>4 DEF SessionsAlone, Completing
  <2>6. ChecksAlone'
    BY <2>1, <2>3 DEF ChecksAlone, Nothing
  <2>7. MarketAlone'
    BY <2>1 DEF AloneInv, MarketAlone, Nothing, Examined
  <2> QED
    BY <2>5, <2>6, <2>7
<1>3. ASSUME NEW u \in Uploads, AddVersion(u)
      PROVE  SessionsAlone' /\ ChecksAlone' /\ MarketAlone'
  <2>1. /\ overlap = "no" /\ Nothing /\ Completing \subseteq {u} /\ up[u] = "assembled"
        /\ UNCHANGED <<object, checks, queue, row, qworker, listed, ops>>
        /\ up' = [up EXCEPT ![u] = "added"] /\ current' = u /\ status' = "checking"
    BY <1>3, NotOver DEF AddVersion
  <2>2. /\ \A v \in Uploads \ {u} : up'[v] = up[v] /\ up[v] \notin {"assembled", "added", "persisted"}
        /\ up'[u] = "added"
    BY <2>1 DEF DatasetTypeOK, Completing
  <2>3. object[NameOf[u]] = u /\ checks[u] = NoCheck
    BY <2>1 DEF AloneInv, SessionsAlone, VersionsInv, Placed
  <2>4. \A v \in Uploads : ~JobFor(v)'
    BY <2>1, <2>2, <1>0, NoJobs DEF Handed
  <2>5. SessionsAlone'
    BY <2>1, <2>2, <2>4 DEF SessionsAlone, Completing
  <2>6. ChecksAlone'
    BY <2>1, <2>3 DEF ChecksAlone, Nothing
  <2>7. MarketAlone'
    BY <2>1 DEF MarketAlone, Nothing
  <2> QED
    BY <2>5, <2>6, <2>7
<1>4. CASE Calm
  <2>1. overlap = "no" /\ SessionsAlone /\ ChecksAlone /\ MarketAlone
    BY <1>4 DEF Calm, AloneInv
  <2>2. SessionsAlone'
    BY <1>0, <1>4, <2>1 DEF Calm, SessionsAlone, Completing, Handed
  <2>3. current' = current /\ Verdict' = Verdict /\ \A r : Examined(r)' = Examined(r)
    BY <1>4 DEF Calm, Verdict, Passes, Examined
  <2>4. Busy' => Busy /\ object'[NameOf[current']] = current'
    BY <1>4, <2>1 DEF Calm, ChecksAlone
  <2>5. CASE Rest
    <3>1. ChecksAlone'
      BY <2>1, <2>3, <2>4, <2>5 DEF ChecksAlone, Rest
    <3>2. MarketAlone'
      BY <2>1, <2>3, <2>5 DEF MarketAlone, Rest
    <3> QED
      BY <2>2, <3>1, <3>2
  <2>6. ASSUME NEW w \in QWorkers, ExamineObject(w) PROVE ChecksAlone' /\ MarketAlone'
    <3>1. Busy /\ UNCHANGED <<status, checks, ops, approved>>
      BY <2>6 DEF ExamineObject, Busy
    <3>2. /\ qworker'[w].stage = "read" /\ qworker'[w].bytes = current /\ qworker'[w].result = Verdict
          /\ \A q \in QWorkers \ {w} : qworker'[q] = qworker[q]
      BY <2>1, <2>6, <3>1 DEF ExamineObject, ChecksAlone, DatasetTypeOK, Verdict
    <3>3. ChecksAlone'
      BY <2>1, <2>3, <2>4, <3>1, <3>2 DEF ChecksAlone
    <3>4. MarketAlone'
      BY <2>1, <2>3, <3>1 DEF MarketAlone
    <3> QED
      BY <3>3, <3>4
  <2>7. ASSUME NEW w \in QWorkers, SaveChecks(w) PROVE ChecksAlone' /\ MarketAlone'
    <3>1. /\ UNCHANGED <<status, ops, approved>> /\ qworker[w] \in Task /\ qworker[w] # Idle
          /\ qworker'[w].bytes = qworker[w].bytes /\ qworker'[w].result = qworker[w].result
          /\ \A q \in QWorkers \ {w} : qworker'[q] = qworker[q]
      BY <2>7, Stages DEF SaveChecks
    <3>2. Busy /\ qworker[w].version = current
      BY <2>1, <3>1 DEF Busy, SessionsAlone, JobFor, Task
    <3>3. qworker[w].bytes = current /\ qworker[w].result = Verdict
      BY <2>1, <3>1 DEF ChecksAlone
    <3>4. checks'[current] = Examined(Verdict) /\ Examined(Verdict) # NoCheck
      BY <2>7, <3>1, <3>2, <3>3 DEF SaveChecks, Examined, DatasetTypeOK, Task, NoCheck
    <3>5. ChecksAlone'
      BY <2>1, <2>3, <2>4, <3>1, <3>3, <3>4 DEF ChecksAlone
    <3>6. checks[current] = Examined("pass") => checks'[current] = Examined("pass")
      BY <2>1, <3>2, <3>4 DEF ChecksAlone, Examined, NoCheck
    <3>7. MarketAlone'
      BY <2>1, <2>3, <3>1, <3>6 DEF MarketAlone
    <3> QED
      BY <3>5, <3>7
  <2>8. ASSUME NEW w \in QWorkers, AdvanceStatus(w) PROVE ChecksAlone' /\ MarketAlone'
    <3>1. /\ UNCHANGED <<checks, ops, approved>> /\ qworker[w] # Idle /\ qworker[w].stage = "saved"
          /\ qworker'[w].bytes = qworker[w].bytes /\ qworker'[w].result = qworker[w].result
          /\ \A q \in QWorkers \ {w} : qworker'[q] = qworker[q]
          /\ status' = IF qworker[w].result = "pass" THEN "reviewing" ELSE "draft"
      BY <2>8, Stages DEF AdvanceStatus
    <3>2. qworker[w].result = Verdict /\ checks[current] = Examined(Verdict)
      BY <2>1, <3>1 DEF ChecksAlone, Busy
    <3>3. ChecksAlone'
      BY <2>1, <2>3, <2>4, <3>1, <3>2 DEF ChecksAlone
    <3>4. MarketAlone'
      BY <2>1, <2>3, <3>1, <3>2 DEF MarketAlone
    <3> QED
      BY <3>3, <3>4
  <2>9. ASSUME NEW o \in Operators, OpsReads(o) PROVE ChecksAlone' /\ MarketAlone'
    <3>1. UNCHANGED <<status, checks, qworker, approved>>
      BY <2>9 DEF OpsReads
    <3>2. /\ ops'[o].version = current
          /\ ops'[o].stage = "review" => status = "reviewing"
          /\ \A q \in Operators \ {o} : ops'[q] = ops[q]
      BY <2>9 DEF OpsReads, DatasetTypeOK
    <3>3. ChecksAlone'
      BY <2>1, <2>3, <2>4, <3>1 DEF ChecksAlone
    <3>4. MarketAlone'
      BY <2>1, <2>3, <3>1, <3>2 DEF MarketAlone
    <3> QED
      BY <3>3, <3>4
  <2>10. ASSUME NEW o \in Operators, Review(o) PROVE ChecksAlone' /\ MarketAlone'
    <3>1. UNCHANGED <<checks, qworker>> /\ ops[o].stage = "review" /\ ops[o] # Idle
      BY <2>10 DEF Review, Idle
    <3>2. /\ \A q \in Operators : ops'[q] \in {ops[q], Idle}
          /\ status' # "rejected" => status' = "published" /\ approved' = ops[o].version
      BY <2>10 DEF Review, DatasetTypeOK
    <3>3. ChecksAlone'
      BY <2>1, <2>3, <2>4, <3>1 DEF ChecksAlone
    <3>4. MarketAlone'
      BY <2>1, <2>3, <3>1, <3>2 DEF MarketAlone
    <3> QED
      BY <3>3, <3>4
  <2> QED
    BY <1>1, <1>2, <1>3, <2>2, <2>5, <2>6, <2>7, <2>8, <2>9, <2>10, RestSteps DEF Loud, Acting
<1> QED
  BY <1>1, <1>2, <1>3, <1>4, CalmSteps DEF Loud


\* An empty draft is where a dataset starts.
LEMMA DatasetStart == DatasetInit => DatasetIInv
<1> SUFFICES ASSUME DatasetInit PROVE DatasetIInv
  OBVIOUS
<1>1. DatasetTypeOK
  BY DatasetConstants DEF DatasetInit, DatasetTypeOK, Statuses, Flags
<1>2. Nothing
  BY DEF DatasetInit, Nothing
<1>3. \A v \in Uploads : ~JobFor(v)
  BY <1>1, <1>2, NoJobs
<1>4. ~Busy /\ Completing = {}
  BY <1>2 DEF DatasetInit, Nothing, Busy, Completing
<1>5. VersionsInv /\ BytesInv /\ RetryInv
  BY <1>3, DatasetConstants DEF DatasetInit, VersionsInv, BytesInv, RetryInv, Idle
<1>6. AloneInv
  BY <1>3, <1>4 DEF DatasetInit, AloneInv, SessionsAlone, ChecksAlone, MarketAlone
<1> QED
  BY <1>1, <1>5, <1>6 DEF DatasetIInv

\* Every step keeps the parts together.
LEMMA DatasetStep == DatasetIInv /\ [DatasetNext]_qvars => DatasetIInv'
BY DatasetType, VersionsStep, BytesStep, RetryStep, AloneStep DEF DatasetIInv

\* upload.go, review.go, repo.go: for any sessions, workers, operators and numbers of faults,
\* while no version is added over open work what is on the market was examined, passed and
\* approved; a dataset under checking has something that carries it on, or its job was lost in
\* a known way; and pinned bytes stay unless another session uses their file name.
THEOREM DatasetCorrect == DatasetSpec => []DatasetInv
<1>1. DatasetIInv => DatasetInv
  <2> SUFFICES ASSUME DatasetIInv PROVE DatasetInv
    OBVIOUS
  <2>1. PublishedChecked
    BY DEF DatasetIInv, AloneInv, MarketAlone, Examined, PublishedChecked
  <2>2. NoJobLost
    <3> SUFFICES ASSUME status = "checking", stranded = "no" PROVE Carried
      BY DEF NoJobLost
    <3>1. current \in Uploads /\ (up[current] = "added" \/ RowUsable)
      BY DEF DatasetIInv, DatasetTypeOK, VersionsInv, RetryInv
    <3> QED
      BY <3>1 DEF Carried
  <2>3. PinnedBytes
    BY DEF DatasetIInv, DatasetTypeOK, BytesInv, PinnedBytes
  <2> QED
    BY <2>1, <2>2, <2>3 DEF DatasetIInv, DatasetInv
<1>2. QED
  BY <1>1, DatasetStart, DatasetStep, PTL DEF DatasetSpec

-----------------------------------------------------------------------------
\* Where each announcement stands, and what no notice runs ahead of.
PlacesInv ==
    /\ \A n \in Announcements :
          /\ about[n] <= market.version /\ (stage[n] # "idle" => about[n] \in Versions)
          /\ stage[n] # "tell" => todo[n] = {} /\ told[n] = {}
          /\ \A u, w \in told[n] : u = w
          /\ \A u \in Watchers : stage[n] \in {"idle", "decide", "list"} \/ u \in todo[n] =>
                                    mailer[n][u] = "none"
    /\ \A u \in Watchers : \A v \in Versions : notices[u][v] > 0 => v <= market.version

Pending(n) == todo[n] \cup told[n]

\* A watcher whose announcements did not overlap: one at a time has the watcher, and
\* who was told of the current version is marked with it, or is about to be.
Settled(u) ==
    /\ \A n \in Announcements : u \in Pending(n) =>
          /\ \A k \in Announcements \ {n} : u \notin Pending(k)
          /\ \A v \in Versions : about[n] < v => notices[u][v] = 0
    /\ \A n \in Announcements : u \in todo[n] => notices[u][about[n]] = 0
    /\ notices[u][market.version] > 0 =>
          \/ watch[u] \in {market.version, NotWatching}
          \/ \E n \in Announcements : u \in told[n] /\ about[n] = market.version
    /\ \A v \in Versions : notices[u][v] <= 1

Mailing(n, u) == mailer[n][u] \in {"send", "log"}

\* A watcher whose e-mails did not overlap: one goroutine is past the lookup, and a
\* mail has its row, or is about to.
MailSettled(u) ==
    /\ \A n \in Announcements : Mailing(n, u) =>
          u \notin mailLog /\ \A k \in Announcements \ {n} : ~ Mailing(k, u)
    /\ mails[u] = 0 \/ u \in mailLog \/ \E n \in Announcements : mailer[n][u] = "log"
    /\ mails[u] <= 1

\* WatchInv made inductive.
WatchIInv ==
    /\ WatchTypeOK /\ PlacesInv
    /\ \A u \in Watchers \ noticeLoose : Settled(u)
    /\ \A u \in Watchers \ mailLoose : MailSettled(u)

\* What the types say of the numbers.
LEMMA WatchNumbers ==
  ASSUME WatchTypeOK
  PROVE  /\ \A u \in Watchers : \A v \in Versions : notices[u][v] \in Nat
         /\ market.version \in Versions /\ Versions \subseteq Nat /\ Versions \subseteq 0 .. LastVersion
         /\ \A n \in Announcements : about[n] \in Nat
         /\ \A v \in Versions : v <= LastVersion
<1>1. LastVersion \in Nat
  BY WatchConstants
<1>2. ASSUME NEW u \in Watchers PROVE notices[u] \in [Versions -> Nat]
  BY DEF WatchTypeOK
<1>3. \A u \in Watchers : \A v \in Versions : notices[u][v] \in Nat
  BY <1>2
<1>4. market.version \in Versions /\ \A n \in Announcements : about[n] \in Nat
  BY <1>1 DEF WatchTypeOK
<1> QED
  BY <1>1, <1>3, <1>4 DEF Versions

\* Nobody watches, and nothing has been announced.
LEMMA WatchStart == WatchInit => WatchIInv
<1> SUFFICES ASSUME WatchInit PROVE WatchIInv
  OBVIOUS
<1> USE WatchConstants DEF WatchInit, NotWatching, Versions
<1>1. WatchTypeOK
  BY DEF WatchTypeOK
<1>2. PlacesInv
  BY DEF PlacesInv
<1>5. market.version = 1 /\ 1 \in Versions
  OBVIOUS
<1>6. ASSUME NEW u \in Watchers
      PROVE  /\ \A v \in Versions : notices[u][v] = 0
             /\ \A n \in Announcements : todo[n] = {} /\ told[n] = {} /\ mailer[n][u] = "none"
             /\ mails[u] = 0
  OBVIOUS
<1> HIDE DEF WatchInit, Versions
<1>3. ASSUME NEW u \in Watchers PROVE Settled(u)
  <2>1. /\ \A v \in Versions : notices[u][v] = 0
        /\ \A n \in Announcements : u \notin todo[n] /\ u \notin told[n]
    BY <1>6
  <2>2. notices[u][market.version] = 0
    BY <1>5, <2>1
  <2> QED
    BY <2>1, <2>2 DEF Settled, Pending
<1>4. ASSUME NEW u \in Watchers PROVE MailSettled(u)
  <2>1. mails[u] = 0 /\ \A n \in Announcements : mailer[n][u] = "none"
    BY <1>6
  <2> QED
    BY <2>1 DEF MailSettled, Mailing
<1> QED
  BY <1>1, <1>2, <1>3, <1>4 DEF WatchIInv

\* Every step keeps the types.
LEMMA WatchTypes == WatchIInv /\ [WatchNext]_watchVars => WatchTypeOK'
<1> SUFFICES ASSUME WatchTypeOK, PlacesInv, [WatchNext]_watchVars PROVE WatchTypeOK'
  BY DEF WatchIInv
<1>0. /\ market.version \in 1 .. LastVersion /\ market.version \in 0 .. LastVersion
      /\ Versions = 1 .. LastVersion /\ LastVersion \in Nat /\ NotWatching = 0
      /\ \A n \in Announcements : about[n] \in 0 .. LastVersion
  BY WatchConstants DEF WatchTypeOK, Versions, NotWatching
<1> USE DEF listing, mailing
<1>1. CASE NewVersion \/ ChecksPass
  <2>1. market' \in [status: {"checking", "reviewing", "published", "rejected"}, version: Versions]
    BY <1>0, <1>1 DEF NewVersion, ChecksPass, WatchTypeOK
  <2> QED
    BY <1>1, <2>1 DEF NewVersion, ChecksPass, WatchTypeOK
<1>2. CASE ProcessDies
  <2>1. /\ stage' \in [Announcements -> {"idle", "decide", "list", "tell", "over"}]
        /\ todo' \in [Announcements -> SUBSET Watchers] /\ told' \in [Announcements -> SUBSET Watchers]
    BY <1>2 DEF ProcessDies, WatchTypeOK
  <2>2. mailer' \in [Announcements -> [Watchers -> {"none", "start", "send", "log", "done"}]]
    BY <1>2 DEF ProcessDies
  <2>3. missed' \subseteq Watchers \X Versions
    BY <1>2 DEF ProcessDies, WatchTypeOK
  <2>4. noticeLoose' \subseteq Watchers /\ mailLoose' \subseteq Watchers
    BY <1>2 DEF ProcessDies, WatchTypeOK
  <2> QED
    BY <1>2, <2>1, <2>2, <2>3, <2>4 DEF ProcessDies, WatchTypeOK
<1>3. ASSUME NEW u \in Watchers, AddReads(u) \/ Add(u) \/ RemoveWatch(u) PROVE WatchTypeOK'
  <2>1. watch' \in [Watchers -> 0 .. LastVersion] /\ joined' \in [Watchers -> 0 .. LastVersion]
    <3>1. \/ UNCHANGED <<watch, joined>>
          \/ \E v \in 0 .. LastVersion :
                watch' = [watch EXCEPT ![u] = v] /\ joined' = [joined EXCEPT ![u] = v]
      BY <1>0, <1>3 DEF AddReads, Add, RemoveWatch
    <3> QED
      BY <3>1 DEF WatchTypeOK
  <2>2. adding' \subseteq Watchers
    BY <1>3 DEF AddReads, Add, RemoveWatch, WatchTypeOK
  <2> QED
    BY <1>3, <2>1, <2>2 DEF AddReads, Add, RemoveWatch, WatchTypeOK
<1>4. ASSUME NEW n \in Announcements, StartReview(n) \/ Approve(n) \/ Reject(n) PROVE WatchTypeOK'
  <2>1. stage' \in [Announcements -> {"idle", "decide", "list", "tell", "over"}]
    BY <1>4 DEF StartReview, Approve, Reject, Step, WatchTypeOK
  <2>2. about' \in [Announcements -> 0 .. LastVersion]
    BY <1>0, <1>4 DEF StartReview, Approve, Reject, WatchTypeOK
  <2>3. market' \in [status: {"checking", "reviewing", "published", "rejected"}, version: Versions]
    BY <1>4 DEF StartReview, Approve, Reject, WatchTypeOK
  <2>4. cleared' \subseteq Versions
    BY <1>4 DEF StartReview, Approve, Reject, Step, PlacesInv, WatchTypeOK
  <2> QED
    BY <1>4, <2>1, <2>2, <2>3, <2>4 DEF StartReview, Approve, Reject, WatchTypeOK
<1>5. ASSUME NEW n \in Announcements, ListWatchers(n) \/ ListFails(n) \/ AnnouncementEnds(n)
      PROVE  WatchTypeOK'
  <2>1. stage' \in [Announcements -> {"idle", "decide", "list", "tell", "over"}]
    BY <1>5 DEF ListWatchers, ListFails, AnnouncementEnds, Step, WatchTypeOK
  <2>2. todo' \in [Announcements -> SUBSET Watchers] /\ noticeLoose' \subseteq Watchers
    BY <1>5 DEF ListWatchers, ListFails, AnnouncementEnds, ListByDataset, Unsettled, WatchTypeOK
  <2>3. missed' \subseteq Watchers \X Versions
    BY <1>5 DEF ListWatchers, ListFails, AnnouncementEnds, Step, PlacesInv, WatchTypeOK
  <2> QED
    BY <1>5, <2>1, <2>2, <2>3 DEF ListWatchers, ListFails, AnnouncementEnds, WatchTypeOK
<1>6. ASSUME NEW n \in Announcements, NEW u \in Watchers, NotifyUser(n, u) PROVE WatchTypeOK'
  <2>1. about[n] \in Versions
    BY <1>6 DEF NotifyUser, PlacesInv
  <2>2. notices' \in [Watchers -> [Versions -> Nat]]
    <3>1. notices \in [Watchers -> [Versions -> Nat]] /\ notices[u] \in [Versions -> Nat]
          /\ notices[u][about[n]] \in Nat
      BY <2>1 DEF WatchTypeOK
    <3>2. [notices[u] EXCEPT ![about[n]] = @ + 1] \in [Versions -> Nat]
      BY <2>1, <3>1
    <3> QED
      BY <1>6, <3>1, <3>2 DEF NotifyUser
  <2>3. missed' \subseteq Watchers \X Versions
    BY <1>6, <2>1 DEF NotifyUser, WatchTypeOK
  <2>4. mailer' \in [Announcements -> [Watchers -> {"none", "start", "send", "log", "done"}]]
    BY <1>6 DEF NotifyUser, WatchTypeOK
  <2>5. todo' \in [Announcements -> SUBSET Watchers] /\ told' \in [Announcements -> SUBSET Watchers]
    BY <1>6 DEF NotifyUser, WatchTypeOK
  <2> QED
    BY <1>6, <2>2, <2>3, <2>4, <2>5 DEF NotifyUser, WatchTypeOK
<1>7. ASSUME NEW n \in Announcements, NEW u \in Watchers, MarkNotified(n, u) \/ MarkFails(n, u)
      PROVE  WatchTypeOK'
  <2>1. watch' \in [Watchers -> 0 .. LastVersion]
    BY <1>0, <1>7 DEF MarkNotified, MarkFails, WatchTypeOK
  <2>2. told' \in [Announcements -> SUBSET Watchers] /\ noticeLoose' \subseteq Watchers
    BY <1>7 DEF MarkNotified, MarkFails, WatchTypeOK
  <2> QED
    BY <1>7, <2>1, <2>2 DEF MarkNotified, MarkFails, WatchTypeOK
<1>8. ASSUME NEW n \in Announcements, NEW u \in Watchers, HasKey(n, u) \/ Send(n, u) \/ Log(n, u)
      PROVE  WatchTypeOK'
  <2>1. mailer' \in [Announcements -> [Watchers -> {"none", "start", "send", "log", "done"}]]
    <3>1. \E m \in {"send", "log", "done"} : mailer' = [mailer EXCEPT ![n][u] = m]
      BY <1>8 DEF HasKey, Send, Log
    <3> QED
      BY <3>1 DEF WatchTypeOK
  <2>2. mailLoose' \subseteq Watchers /\ mailLog' \subseteq Watchers
    BY <1>8 DEF HasKey, Send, Log, WatchTypeOK
  <2>3. mails' \in [Watchers -> Nat]
    BY <1>8 DEF HasKey, Send, Log, WatchTypeOK
  <2> QED
    BY <1>8, <2>1, <2>2, <2>3 DEF HasKey, Send, Log, WatchTypeOK
<1>9. CASE UNCHANGED watchVars
  BY <1>9 DEF watchVars, WatchTypeOK
<1> QED
  BY <1>1, <1>2, <1>3, <1>4, <1>5, <1>6, <1>7, <1>8, <1>9 DEF WatchNext, AnnouncerStep

\* What a step leaves in place when it moves no announcement and no notice.
LEMMA NoticeFrame ==
  ASSUME WatchIInv, UNCHANGED <<listing, notices, noticeLoose>>, market'.version = market.version,
         \A u \in Watchers : watch'[u] \in {watch[u], market.version, NotWatching}
  PROVE  \A u \in Watchers \ noticeLoose' : Settled(u)'
<1> SUFFICES ASSUME NEW u \in Watchers \ noticeLoose PROVE Settled(u)'
  OBVIOUS
<1> Settled(u)
  BY DEF WatchIInv
<1> QED
  BY DEF Settled, Pending, listing

\* No step of the announcements' mail side is taken.
LEMMA MailFrame ==
  ASSUME WatchIInv, UNCHANGED mailing
  PROVE  \A u \in Watchers \ mailLoose' : MailSettled(u)'
BY DEF WatchIInv, MailSettled, Mailing, mailing

\* The dataset, its watchers and its reviews.
LEMMA WatchOutside ==
  ASSUME WatchIInv,
         \/ NewVersion \/ ChecksPass
         \/ \E u \in Watchers : AddReads(u) \/ Add(u) \/ RemoveWatch(u)
         \/ \E n \in Announcements : StartReview(n) \/ Approve(n) \/ Reject(n)
  PROVE  PlacesInv' /\ (\A u \in Watchers \ noticeLoose' : Settled(u)') /\ UNCHANGED mailing
<1>0. WatchTypeOK /\ PlacesInv /\ \A u \in Watchers \ noticeLoose : Settled(u)
  BY DEF WatchIInv
<1> USE WatchConstants DEF Versions, NotWatching
<1>1. CASE NewVersion
  <2>1. market'.version = market.version + 1 /\ UNCHANGED <<watch, listing, notices, mailing, noticeLoose>>
    BY <1>1 DEF NewVersion
  <2>2. PlacesInv'
    BY <1>0, <2>1 DEF PlacesInv, WatchTypeOK, listing, mailing
  <2>3. ASSUME NEW u \in Watchers \ noticeLoose PROVE Settled(u)'
    <3>1. market.version + 1 \in Versions /\ Settled(u) /\ market.version \in Nat
      BY <1>0, <1>1 DEF NewVersion, WatchTypeOK
    <3>2. notices[u][market.version + 1] = 0
      <4>1. /\ notices[u][market.version + 1] \in Nat
            /\ notices[u][market.version + 1] > 0 => market.version + 1 <= market.version
        BY <1>0, <2>1, <3>1, WatchNumbers DEF PlacesInv
      <4> QED
        BY <3>1, <4>1
    <3> QED
      BY <2>1, <3>1, <3>2 DEF Settled, Pending, listing
  <2> QED
    BY <2>1, <2>2, <2>3
<1>2. CASE ChecksPass
  <2>1. market'.version = market.version
        /\ UNCHANGED <<watch, listing, notices, mailing, noticeLoose>>
    BY <1>0, <1>2 DEF ChecksPass, WatchTypeOK
  <2> QED
    BY <1>0, <2>1, NoticeFrame DEF PlacesInv, listing, mailing
<1>3. ASSUME NEW u \in Watchers, AddReads(u) \/ Add(u) \/ RemoveWatch(u)
      PROVE  PlacesInv' /\ (\A x \in Watchers \ noticeLoose' : Settled(x)') /\ UNCHANGED mailing
  <2>1. UNCHANGED <<market, listing, notices, mailing, noticeLoose>>
    BY <1>3 DEF AddReads, Add, RemoveWatch
  <2>2. \A x \in Watchers : watch'[x] \in {watch[x], market.version, NotWatching}
    BY <1>0, <1>3 DEF AddReads, Add, RemoveWatch, WatchTypeOK
  <2> QED
    BY <1>0, <2>1, <2>2, NoticeFrame DEF PlacesInv, listing, mailing
<1>4. ASSUME NEW n \in Announcements, StartReview(n) \/ Approve(n) \/ Reject(n)
      PROVE  PlacesInv' /\ (\A x \in Watchers \ noticeLoose' : Settled(x)') /\ UNCHANGED mailing
  <2>1. /\ UNCHANGED <<watch, todo, told, notices, mailing, noticeLoose>>
        /\ market'.version = market.version /\ stage[n] \in {"idle", "decide"}
        /\ \E s \in {"decide", "list", "over"} : stage' = [stage EXCEPT ![n] = s]
        /\ \/ about' = about /\ stage[n] = "decide"
           \/ about' = [about EXCEPT ![n] = market.version]
    BY <1>0, <1>4 DEF StartReview, Approve, Reject, Step, WatchTypeOK, listing
  <2>2. PlacesInv'
    BY <1>0, <2>1 DEF PlacesInv, WatchTypeOK, mailing
  <2>3. ASSUME NEW x \in Watchers \ noticeLoose PROVE Settled(x)'
    <3>1. x \notin Pending(n) /\ \A k \in Announcements \ {n} : about'[k] = about[k]
      BY <1>0, <2>1 DEF PlacesInv, Pending, WatchTypeOK
    <3>2. Settled(x)
      BY <1>0, <2>3
    <3> QED
      BY <2>1, <3>1, <3>2 DEF Settled, Pending
  <2> QED
    BY <2>1, <2>2, <2>3
<1> QED
  BY <1>1, <1>2, <1>3, <1>4

\* The announcement itself.
LEMMA WatchTelling ==
  ASSUME WatchIInv, NEW n \in Announcements,
         \/ ListWatchers(n) \/ ListFails(n) \/ AnnouncementEnds(n)
         \/ \E u \in Watchers : NotifyUser(n, u) \/ MarkNotified(n, u) \/ MarkFails(n, u)
  PROVE  PlacesInv' /\ (\A u \in Watchers \ noticeLoose' : Settled(u)')
<1>0. WatchTypeOK /\ PlacesInv /\ \A u \in Watchers \ noticeLoose : Settled(u)
  BY DEF WatchIInv
<1> USE WatchConstants DEF Versions, NotWatching
<1>1. CASE ListWatchers(n)
  <2> DEFINE found == ListByDataset(about[n])
  <2>1. /\ stage[n] = "list" /\ stage' = [stage EXCEPT ![n] = "tell"]
        /\ todo' = [todo EXCEPT ![n] = found]
        /\ noticeLoose' = noticeLoose \cup Unsettled(n, found)
        /\ UNCHANGED <<market, watch, about, told, notices, mailer>>
    BY <1>1 DEF ListWatchers, Step, mailing
  <2>2. todo[n] = {} /\ told[n] = {} /\ found \subseteq Watchers
        /\ \A u \in found : watch[u] \notin {NotWatching, about[n]}
    BY <1>0, <2>1 DEF PlacesInv, ListByDataset
  <2> HIDE DEF found
  <2>3. PlacesInv'
    BY <1>0, <2>1, <2>2 DEF PlacesInv, WatchTypeOK
  <2>4. ASSUME NEW u \in Watchers \ noticeLoose' PROVE Settled(u)'
    <3>1. Settled(u)
      BY <1>0, <2>1
    <3>2. CASE u \notin found
      BY <1>0, <2>1, <2>2, <3>1, <3>2 DEF Settled, Pending, WatchTypeOK
    <3>3. CASE u \in found
      <4>1. about[n] = market.version /\ \A k \in Announcements \ {n} : u \notin todo[k] \cup told[k]
        BY <2>1, <3>3 DEF Unsettled
      <4>2. \A v \in Versions : about[n] < v => notices[u][v] = 0
        <5>1. ASSUME NEW v \in Versions, about[n] < v PROVE notices[u][v] = 0
          <6>1. notices[u][v] \in Nat /\ (notices[u][v] > 0 => v <= about[n])
            BY <1>0, <2>4, <4>1, WatchNumbers DEF PlacesInv
          <6> QED
            BY <1>0, <5>1, <6>1, WatchNumbers
        <5> QED
          BY <5>1
      <4>3. notices[u][about[n]] = 0
        BY <1>0, <2>2, <3>1, <3>3, <4>1 DEF Settled, WatchTypeOK
      <4>4. /\ \A k \in Announcements \ {n} : todo'[k] = todo[k]
            /\ u \notin told[n] /\ UNCHANGED <<told, about, notices, market, watch>>
        BY <1>0, <2>1, <2>2 DEF WatchTypeOK
      <4>5. notices[u][market.version] > 0 =>
               \/ watch[u] \in {market.version, NotWatching}
               \/ \E k \in Announcements : u \in told[k] /\ about[k] = market.version
        BY <3>1 DEF Settled
      <4>6. \A v \in Versions : notices[u][v] <= 1
        BY <3>1 DEF Settled
      <4> QED
        BY <4>1, <4>2, <4>3, <4>4, <4>5, <4>6 DEF Settled, Pending
    <3> QED
      BY <3>2, <3>3
  <2> QED
    BY <2>3, <2>4
<1>2. CASE ListFails(n) \/ AnnouncementEnds(n)
  <2>1. /\ stage' = [stage EXCEPT ![n] = "over"] /\ todo[n] = {} /\ told[n] = {}
        /\ UNCHANGED <<market, watch, about, todo, told, notices, mailer, noticeLoose>>
    BY <1>0, <1>2 DEF ListFails, AnnouncementEnds, Step, mailing, PlacesInv
  <2>2. PlacesInv'
    <3>1. \A k \in Announcements : stage'[k] = IF k = n THEN "over" ELSE stage[k]
      BY <1>0, <2>1 DEF WatchTypeOK
    <3>2. stage[n] # "idle"
      BY <1>2 DEF ListFails, AnnouncementEnds, Step
    <3> QED
      BY <1>0, <2>1, <3>1, <3>2 DEF PlacesInv
  <2>3. \A u \in Watchers \ noticeLoose' : Settled(u)'
    BY <1>0, <2>1 DEF Settled, Pending
  <2> QED
    BY <2>2, <2>3
<1>3. ASSUME NEW x \in Watchers, NotifyUser(n, x)
      PROVE  PlacesInv' /\ (\A u \in Watchers \ noticeLoose' : Settled(u)')
  <2>1. /\ stage[n] = "tell" /\ x \in todo[n] /\ told[n] = {}
        /\ todo' = [todo EXCEPT ![n] = @ \ {x}] /\ told' = [told EXCEPT ![n] = {x}]
        /\ \/ notices' = [notices EXCEPT ![x][about[n]] = @ + 1]
           \/ notices' = notices
        /\ \E m \in {"start", "none"} : mailer' = [mailer EXCEPT ![n][x] = m]
        /\ UNCHANGED <<market, watch, stage, about, noticeLoose>>
    BY <1>3 DEF NotifyUser
  <2>2. about[n] \in Versions /\ about[n] <= market.version
    BY <1>0, <2>1 DEF PlacesInv
  <2>3. /\ \A u \in Watchers \ {x} : notices'[u] = notices[u]
        /\ \A v \in Versions \ {about[n]} : notices'[x][v] = notices[x][v]
        /\ notices'[x][about[n]] \in {notices[x][about[n]], notices[x][about[n]] + 1}
    <3>1. notices \in [Watchers -> [Versions -> Nat]] /\ notices[x] \in [Versions -> Nat]
      BY <1>0 DEF WatchTypeOK
    <3>2. CASE notices' = notices
      BY <3>2
    <3>3. CASE notices' = [notices EXCEPT ![x] = [notices[x] EXCEPT ![about[n]] = @ + 1]]
      <4>1. notices'[x] = [notices[x] EXCEPT ![about[n]] = @ + 1]
        BY <3>1, <3>3
      <4>2. \A u \in Watchers \ {x} : notices'[u] = notices[u]
        BY <3>1, <3>3
      <4> QED
        BY <2>2, <3>1, <4>1, <4>2
    <3> QED
      BY <2>1, <3>2, <3>3
  <2>4. \A k \in Announcements, u \in Watchers : k # n \/ u # x => mailer'[k][u] = mailer[k][u]
    BY <1>0, <2>1 DEF WatchTypeOK
  <2>5. /\ todo'[n] = todo[n] \ {x} /\ told'[n] = {x}
        /\ \A k \in Announcements \ {n} : todo'[k] = todo[k] /\ told'[k] = told[k]
    BY <1>0, <2>1 DEF WatchTypeOK
  <2>6. PlacesInv'
    <3>1. ASSUME NEW k \in Announcements
          PROVE  /\ about'[k] <= market'.version /\ (stage'[k] # "idle" => about'[k] \in Versions)
                 /\ stage'[k] # "tell" => todo'[k] = {} /\ told'[k] = {}
                 /\ \A u, w \in told'[k] : u = w
                 /\ \A u \in Watchers : stage'[k] \in {"idle", "decide", "list"} \/ u \in todo'[k] =>
                                          mailer'[k][u] = "none"
      BY <1>0, <2>1, <2>4, <2>5 DEF PlacesInv
    <3>2. \A u \in Watchers : \A v \in Versions : notices'[u][v] > 0 => v <= market'.version
      BY <1>0, <2>1, <2>2, <2>3 DEF PlacesInv
    <3> QED
      BY <3>1, <3>2 DEF PlacesInv
  <2>7. ASSUME NEW u \in Watchers \ noticeLoose PROVE Settled(u)'
    <3>1. Settled(u)
      BY <1>0, <2>7
    <3>2. CASE u # x
      <4>1. \A k \in Announcements : (u \in todo'[k] <=> u \in todo[k]) /\ (u \in told'[k] <=> u \in told[k])
        BY <2>1, <2>5, <3>2
      <4>2. notices'[u] = notices[u]
        BY <2>3, <2>7, <3>2
      <4> QED
        BY <2>1, <3>1, <4>1, <4>2 DEF Settled, Pending
    <3>3. CASE u = x
      <4>1. /\ \A k \in Announcements \ {n} : x \notin Pending(k)
            /\ \A v \in Versions : about[n] < v => notices[x][v] = 0
            /\ notices[x][about[n]] = 0 /\ \A v \in Versions : notices[x][v] <= 1
        BY <2>1, <3>1, <3>3 DEF Settled, Pending
      <4>2. /\ x \in told'[n] /\ x \notin todo'[n]
            /\ \A k \in Announcements \ {n} : x \notin todo'[k] /\ x \notin told'[k]
        BY <2>5, <4>1 DEF Pending
      <4>3. \A v \in Versions : about[n] < v => notices'[x][v] = 0
        BY <1>0, <2>2, <2>3, <4>1, WatchNumbers
      <4>4. \A v \in Versions : notices'[x][v] <= 1
        BY <2>3, <4>1
      <4>5. notices'[x][market.version] > 0 =>
              \/ watch[x] \in {market.version, NotWatching}
              \/ \E k \in Announcements : x \in told'[k] /\ about[k] = market.version
        <5>1. CASE about[n] = market.version
          BY <4>2, <5>1
        <5>2. CASE about[n] # market.version
          <6>1. about[n] < market.version /\ market.version \in Versions
            BY <1>0, <2>2, <5>2 DEF WatchTypeOK
          <6> QED
            BY <4>3, <6>1
        <5> QED
          BY <5>1, <5>2
      <4> QED
        BY <2>1, <3>3, <4>2, <4>3, <4>4, <4>5 DEF Settled, Pending
    <3> QED
      BY <3>2, <3>3
  <2> QED
    BY <2>1, <2>6, <2>7
<1>4. ASSUME NEW x \in Watchers, MarkNotified(n, x) \/ MarkFails(n, x)
      PROVE  PlacesInv' /\ (\A u \in Watchers \ noticeLoose' : Settled(u)')
  <2>1. /\ stage[n] = "tell" /\ x \in told[n] /\ told' = [told EXCEPT ![n] = {}]
        /\ UNCHANGED <<market, stage, about, todo, notices, mailer>>
        /\ \/ /\ watch' = IF watch[x] = NotWatching THEN watch ELSE [watch EXCEPT ![x] = about[n]]
              /\ noticeLoose' = noticeLoose
           \/ watch' = watch /\ noticeLoose' = noticeLoose \cup {x}
    BY <1>4 DEF MarkNotified, MarkFails, mailing
  <2>2. PlacesInv'
    <3>1. told'[n] = {} /\ \A k \in Announcements \ {n} : told'[k] = told[k]
      BY <1>0, <2>1 DEF WatchTypeOK
    <3> QED
      BY <1>0, <2>1, <3>1 DEF PlacesInv
  <2>3. ASSUME NEW u \in Watchers \ noticeLoose' PROVE Settled(u)'
    <3>1. Settled(u)
      BY <1>0, <2>1
    <3>2. /\ \A k \in Announcements : u \in Pending(k)' => u \in Pending(k)
          /\ told'[n] = {} /\ \A k \in Announcements \ {n} : told'[k] = told[k]
      BY <1>0, <2>1 DEF Pending, WatchTypeOK
    <3>3. /\ \A k \in Announcements : u \in Pending(k)' =>
                /\ \A j \in Announcements \ {k} : u \notin Pending(j)'
                /\ \A v \in Versions : about[k] < v => notices[u][v] = 0
          /\ \A k \in Announcements : u \in todo[k] => notices[u][about[k]] = 0
          /\ \A v \in Versions : notices[u][v] <= 1
      BY <3>1, <3>2 DEF Settled
    <3>4. notices[u][market.version] > 0 =>
             \/ watch'[u] \in {market.version, NotWatching}
             \/ \E k \in Announcements : u \in told'[k] /\ about[k] = market.version
      <4>0. market.version \in Versions /\ about[n] <= market.version /\ about[n] \in Nat /\ market.version \in Nat
            /\ notices[u][market.version] \in Nat
        BY <1>0, <2>1, <2>3, WatchNumbers DEF PlacesInv
      <4>1. CASE u \in told[n]
        <5>1. notices[u][market.version] > 0 => about[n] = market.version
          BY <3>1, <4>0, <4>1 DEF Settled, Pending
        <5>2. u = x \/ u # x
          OBVIOUS
        <5>3. CASE u = x
          BY <1>0, <2>1, <2>3, <5>1, <5>3 DEF WatchTypeOK
        <5>4. CASE u # x
          BY <1>0, <2>1, <4>1, <5>4 DEF PlacesInv
        <5> QED
          BY <5>3, <5>4
      <4>2. CASE u \notin told[n]
        <5>1. u # x /\ watch'[u] = watch[u]
          BY <1>0, <2>1, <4>2 DEF WatchTypeOK
        <5> QED
          BY <3>1, <3>2, <4>2, <5>1 DEF Settled
      <4> QED
        BY <4>1, <4>2
    <3> QED
      BY <2>1, <3>2, <3>3, <3>4 DEF Settled
  <2> QED
    BY <2>2, <2>3
<1> QED
  BY <1>1, <1>2, <1>3, <1>4

\* Every step keeps the watchers' e-mails one at a time.
LEMMA WatchMails ==
  ASSUME WatchIInv, NEW n \in Announcements, NEW x \in Watchers,
         NotifyUser(n, x) \/ HasKey(n, x) \/ Send(n, x) \/ Log(n, x)
  PROVE  \A u \in Watchers \ mailLoose' : MailSettled(u)'
<1>0. WatchTypeOK /\ PlacesInv
  BY DEF WatchIInv
<1> SUFFICES ASSUME NEW u \in Watchers \ mailLoose' PROVE MailSettled(u)'
  OBVIOUS
<1>1. mailLoose \subseteq mailLoose' /\ \E m \in {"none", "start", "send", "log", "done"} :
         mailer' = [mailer EXCEPT ![n][x] = m]
  BY DEF NotifyUser, HasKey, Send, Log
<1>2. MailSettled(u)
  BY <1>1 DEF WatchIInv
<1>3. CASE u # x
  <2>1. \A k \in Announcements : mailer'[k][u] = mailer[k][u]
    BY <1>0, <1>1, <1>3 DEF WatchTypeOK
  <2>2. mails'[u] = mails[u] /\ (u \in mailLog' <=> u \in mailLog)
    BY <1>0, <1>3 DEF NotifyUser, HasKey, Send, Log, WatchTypeOK
  <2> QED
    BY <1>2, <2>1, <2>2 DEF MailSettled, Mailing
<1>4. CASE u = x
  <2>0. /\ \A k \in Announcements \ {n} : mailer'[k][x] = mailer[k][x]
        /\ mails[x] \in Nat
        /\ \A m : mailer' = [mailer EXCEPT ![n][x] = m] => mailer'[n][x] = m
    BY <1>0, <1>1 DEF WatchTypeOK
  <2>1. CASE NotifyUser(n, x)
    <3>1. mailer[n][x] = "none" /\ mailer'[n][x] \in {"start", "none"} /\ UNCHANGED <<mails, mailLog>>
      BY <1>0, <2>0, <2>1 DEF NotifyUser, PlacesInv
    <3> QED
      BY <1>2, <1>4, <2>0, <3>1 DEF MailSettled, Mailing
  <2>2. CASE HasKey(n, x)
    <3>1. /\ mailer[n][x] = "start" /\ UNCHANGED <<mails, mailLog>>
          /\ \/ mailer'[n][x] = "done"
             \/ mailer'[n][x] = "send" /\ x \notin mailLog /\ ~ BesideAnother(x)
      BY <1>4, <2>0, <2>2 DEF HasKey
    <3> QED
      BY <1>2, <1>4, <2>0, <3>1 DEF MailSettled, Mailing, BesideAnother
  <2>3. CASE Send(n, x)
    <3>1. mailer[n][x] = "send" /\ mailer'[n][x] = "log" /\ mails'[x] \in {mails[x], mails[x] + 1} /\ UNCHANGED mailLog
      BY <1>0, <2>0, <2>3 DEF Send, WatchTypeOK
    <3>2. mails[x] = 0
      BY <1>2, <1>4, <3>1 DEF MailSettled, Mailing
    <3> QED
      BY <1>2, <1>4, <2>0, <3>1, <3>2 DEF MailSettled, Mailing
  <2>4. CASE Log(n, x)
    <3>1. mailer[n][x] = "log" /\ mailer'[n][x] = "done" /\ x \in mailLog' /\ UNCHANGED mails
      BY <1>4, <2>0, <2>4 DEF Log
    <3> QED
      BY <1>2, <1>4, <2>0, <3>1 DEF MailSettled, Mailing
  <2> QED
    BY <2>1, <2>2, <2>3, <2>4
<1> QED
  BY <1>3, <1>4

\* A restart ends every announcement and e-mail; who was between a notice and its mark, or a
\* mail and its row, is named.
LEMMA WatchDies == ASSUME WatchIInv, ProcessDies
  PROVE  /\ PlacesInv'
         /\ \A u \in Watchers \ noticeLoose' : Settled(u)'
         /\ \A u \in Watchers \ mailLoose' : MailSettled(u)'
<1>0. WatchTypeOK /\ PlacesInv
  BY DEF WatchIInv
<1>1. /\ UNCHANGED <<market, watch, about, notices, mailLog, mails>>
      /\ \A n \in Announcements :
            /\ stage'[n] = IF stage[n] = "idle" THEN "idle" ELSE "over"
            /\ todo'[n] = {} /\ told'[n] = {}
            /\ \A u \in Watchers : mailer'[n][u] = IF mailer[n][u] = "none" THEN "none" ELSE "done"
      /\ noticeLoose' = noticeLoose \cup UNION {told[n] : n \in Announcements}
      /\ mailLoose' = mailLoose \cup {u \in Watchers : \E n \in Announcements : mailer[n][u] = "log"}
  BY DEF ProcessDies
<1>2. PlacesInv'
  BY <1>0, <1>1 DEF PlacesInv
<1>3. ASSUME NEW u \in Watchers \ noticeLoose' PROVE Settled(u)'
  <2>1. Settled(u) /\ \A n \in Announcements : u \notin told[n]
    BY <1>1 DEF WatchIInv
  <2> QED
    BY <1>1, <2>1 DEF Settled, Pending
<1>4. ASSUME NEW u \in Watchers \ mailLoose' PROVE MailSettled(u)'
  <2>1. MailSettled(u) /\ \A n \in Announcements : mailer[n][u] # "log"
    BY <1>1 DEF WatchIInv
  <2> QED
    BY <1>1, <2>1 DEF MailSettled, Mailing
<1> QED
  BY <1>2, <1>3, <1>4

\* Every step keeps the invariant.
LEMMA WatchStep == WatchIInv /\ [WatchNext]_watchVars => WatchIInv'
<1> SUFFICES ASSUME WatchIInv, [WatchNext]_watchVars PROVE WatchIInv'
  OBVIOUS
<1>0. WatchTypeOK'
  BY WatchTypes
<1>1. CASE \/ NewVersion \/ ChecksPass
           \/ \E u \in Watchers : AddReads(u) \/ Add(u) \/ RemoveWatch(u)
           \/ \E n \in Announcements : StartReview(n) \/ Approve(n) \/ Reject(n)
  <2>1. PlacesInv' /\ (\A u \in Watchers \ noticeLoose' : Settled(u)') /\ UNCHANGED mailing
    BY <1>1, WatchOutside
  <2>2. \A u \in Watchers \ mailLoose' : MailSettled(u)'
    BY <2>1, MailFrame
  <2> QED
    BY <1>0, <2>1, <2>2 DEF WatchIInv
<1>2. ASSUME NEW n \in Announcements,
             \/ ListWatchers(n) \/ ListFails(n) \/ AnnouncementEnds(n)
             \/ \E u \in Watchers : MarkNotified(n, u) \/ MarkFails(n, u)
      PROVE  WatchIInv'
  <2>1. PlacesInv' /\ (\A u \in Watchers \ noticeLoose' : Settled(u)')
    BY <1>2, WatchTelling
  <2>2. UNCHANGED mailing
    BY <1>2 DEF ListWatchers, ListFails, AnnouncementEnds, MarkNotified, MarkFails
  <2>3. \A u \in Watchers \ mailLoose' : MailSettled(u)'
    BY <2>2, MailFrame
  <2> QED
    BY <1>0, <2>1, <2>3 DEF WatchIInv
<1>4. ASSUME NEW n \in Announcements, NEW x \in Watchers, NotifyUser(n, x) PROVE WatchIInv'
  <2>1. PlacesInv' /\ (\A u \in Watchers \ noticeLoose' : Settled(u)')
    BY <1>4, WatchTelling
  <2>2. \A u \in Watchers \ mailLoose' : MailSettled(u)'
    BY <1>4, WatchMails
  <2> QED
    BY <1>0, <2>1, <2>2 DEF WatchIInv
<1>5. ASSUME NEW n \in Announcements, NEW x \in Watchers, HasKey(n, x) \/ Send(n, x) \/ Log(n, x)
      PROVE  WatchIInv'
  <2>1. UNCHANGED <<market, watch, listing, notices, noticeLoose>>
    BY <1>5 DEF HasKey, Send, Log
  <2>2. \A k \in Announcements, u \in Watchers : mailer[k][u] = "none" => mailer'[k][u] = "none"
    <3>1. mailer[n][x] # "none" /\ \E m : mailer' = [mailer EXCEPT ![n][x] = m]
      BY <1>5 DEF HasKey, Send, Log
    <3> QED
      BY <3>1 DEF WatchIInv, WatchTypeOK
  <2>3. PlacesInv'
    BY <2>1, <2>2 DEF WatchIInv, PlacesInv, listing
  <2>4. \A u \in Watchers \ noticeLoose' : Settled(u)'
    BY <2>1, NoticeFrame
  <2>5. \A u \in Watchers \ mailLoose' : MailSettled(u)'
    BY <1>5, WatchMails
  <2> QED
    BY <1>0, <2>3, <2>4, <2>5 DEF WatchIInv
<1>6. CASE ProcessDies
  <2>1. /\ PlacesInv'
        /\ \A u \in Watchers \ noticeLoose' : Settled(u)'
        /\ \A u \in Watchers \ mailLoose' : MailSettled(u)'
    BY <1>6, WatchDies
  <2> QED
    BY <1>0, <2>1 DEF WatchIInv
<1>7. CASE UNCHANGED watchVars
  <2>1. UNCHANGED <<market, watch, listing, notices, mailing, noticeLoose>>
    BY <1>7 DEF watchVars
  <2>2. PlacesInv'
    BY <2>1 DEF WatchIInv, PlacesInv, listing, mailing
  <2>3. \A u \in Watchers \ noticeLoose' : Settled(u)'
    BY <2>1, NoticeFrame
  <2>4. \A u \in Watchers \ mailLoose' : MailSettled(u)'
    BY <2>1, MailFrame
  <2> QED
    BY <1>0, <2>2, <2>3, <2>4 DEF WatchIInv
<1> QED
  BY <1>1, <1>2, <1>4, <1>5, <1>6, <1>7 DEF WatchNext, AnnouncerStep

\* watchlist/service.go, notification/service.go: for any watchers, reviews and versions, no
\* watcher is told of a version or mailed about the dataset twice, but in the ways named.
THEOREM WatchCorrect == WatchSpec => []WatchInv
<1>1. WatchIInv => WatchInv
  BY DEF WatchIInv, WatchInv, OneNotice, OneMail, Settled, MailSettled
<1> QED
  BY <1>1, WatchStart, WatchStep, PTL DEF WatchSpec

-----------------------------------------------------------------------------
\* Nothing has happened at the start.
LEMMA PurchaseStart == Init => IInv
  BY DEF Init, IInv, TypeOK, OneCharge, CreditNeedsMoney, RowInv, HandlerInv, OrderStatuses,
     Statements

\* Every step keeps the invariant.
LEMMA PurchaseStep == IInv /\ [Next]_vars => IInv'
<1> SUFFICES ASSUME IInv, [Next]_vars PROVE IInv'
  OBVIOUS
<1> USE TxnAssumption DEF IInv, TypeOK, OneCharge, CreditNeedsMoney, RowInv, HandlerInv,
    OrderStatuses, Statements, At, Goto, Hold, Transition, Show, Ack, vars, money, procs
<1>1. ASSUME NEW h \in Handlers, CreatePayment(h) PROVE IInv'
  BY <1>1 DEF CreatePayment
<1>2. ASSUME NEW h \in Handlers, PaymentForOrder(h) PROVE IInv'
  BY <1>2 DEF PaymentForOrder
<1>3. ASSUME NEW h \in Handlers, ProviderCreate(h) PROVE IInv'
  BY <1>3 DEF ProviderCreate
<1>4. ASSUME NEW h \in Handlers, InsertPayment(h) PROVE IInv'
  BY <1>4 DEF InsertPayment
<1>5. ASSUME NEW h \in Handlers, ReadBack(h) PROVE IInv'
  BY <1>5 DEF ReadBack
<1>6. ASSUME NEW h \in Handlers, MarkPaidByChannelTxn(h) PROVE IInv'
  BY <1>6 DEF MarkPaidByChannelTxn
<1>7. ASSUME NEW h \in Handlers, MarkPaid(h) PROVE IInv'
  BY <1>7 DEF MarkPaid
<1>8. ASSUME NEW h \in Handlers, GrantForOrder(h) PROVE IInv'
  BY <1>8 DEF GrantForOrder
<1>9. ASSUME NEW h \in Handlers, AutoDeliver(h) PROVE IInv'
  BY <1>9 DEF AutoDeliver
<1>10. ASSUME NEW h \in Handlers, ResolveRefund(h) PROVE IInv'
  BY <1>10 DEF ResolveRefund
<1>11. ASSUME NEW h \in Handlers, Refund(h) PROVE IInv'
  BY <1>11 DEF Refund
<1>12. ASSUME NEW h \in Handlers, ToRefunded(h) PROVE IInv'
  BY <1>12 DEF ToRefunded
<1>13. ASSUME NEW h \in Handlers, RevokeByOrder(h) PROVE IInv'
  BY <1>13 DEF RevokeByOrder
<1>14. ASSUME NEW h \in Handlers, Crash(h) PROVE IInv'
  BY <1>14 DEF Crash
<1>15. ASSUME NEW h \in Handlers, Hiccup(h) PROVE IInv'
  BY <1>15 DEF Hiccup
<1>16. ASSUME NEW h \in Handlers, NEW x \in Txns, HandleCallback(h, x) PROVE IInv'
  BY <1>16 DEF HandleCallback
<1>17. ASSUME NEW x \in Txns, Pay(x) PROVE IInv'
  BY <1>17 DEF Pay
<1>18. CASE Elsewhere
  BY <1>18 DEF Elsewhere
<1>19. CASE SpendQuota
  BY <1>19 DEF SpendQuota
<1>20. CASE RefundQuota
  BY <1>20 DEF RefundQuota
<1>21. CASE UNCHANGED vars
  BY <1>21
<1> QED
  BY <1>1, <1>2, <1>3, <1>4, <1>5, <1>6, <1>7, <1>8, <1>9, <1>10, <1>11, <1>12, <1>13, <1>14,
     <1>15, <1>16, <1>17, <1>18, <1>19, <1>20, <1>21
  DEF Next, Work, Fault, HandlerStep

\* IInv holds in every reachable state.
THEOREM PurchaseInvariance == Spec => []IInv
<1>1. Init => IInv
  BY PurchaseStart
<1>2. IInv /\ [Next]_vars => IInv'
  BY PurchaseStep
<1> QED
  BY <1>1, <1>2, PTL DEF Spec

\* Every variable keeps its type.
THEOREM PurchaseTyped == Spec => []TypeOK
<1>1. IInv => TypeOK
  BY DEF IInv
<1> QED
  BY <1>1, PurchaseInvariance, PTL

\* The buyer is shown, and pays, one charge: the one the payments row carries.
THEOREM OneChargeCorrect == Spec => []OneCharge
<1>1. IInv => OneCharge
  BY DEF IInv
<1> QED
  BY <1>1, PurchaseInvariance, PTL

\* Orders are paid and credits granted only for captured charges.
THEOREM CreditCorrect == Spec => []CreditNeedsMoney
<1>1. IInv => CreditNeedsMoney
  BY DEF IInv
<1> QED
  BY <1>1, PurchaseInvariance, PTL

\* No step, of whichever job or handler, revives a revoked credit.
THEOREM RevocationFinal == Spec => RevokedStays
<1>1. [Next]_vars => [credit.st = "revoked" => credit'.st = "revoked"]_vars
  <2> SUFFICES ASSUME [Next]_vars, credit.st = "revoked" PROVE credit'.st = "revoked"
    OBVIOUS
  <2>1. CASE UNCHANGED credit
    BY <2>1
  <2>2. ASSUME NEW h \in Handlers, GrantForOrder(h) \/ RevokeByOrder(h) PROVE credit'.st = "revoked"
    BY <2>2 DEF GrantForOrder, RevokeByOrder
  <2>3. CASE SpendQuota \/ RefundQuota
    BY <2>3 DEF SpendQuota, RefundQuota
  <2> QED
    BY <2>1, <2>2, <2>3 DEF Next, Work, Fault, HandlerStep, CreatePayment, PaymentForOrder,
       ProviderCreate, InsertPayment, ReadBack, MarkPaidByChannelTxn, MarkPaid, AutoDeliver,
       ResolveRefund, Refund, ToRefunded, Crash, Hiccup, HandleCallback, Pay, Elsewhere, vars
<1> QED
  BY <1>1, PTL DEF Spec, RevokedStays

\* The characters of a file and of its masked form.
Chars == STRING \cup {Mask}

\* The spans the detectors make.
Detectors == {"id_card", "bank_card", "phone", "email", "passport", "plate"}
Spans == [name : Detectors, conf : {"high", "heuristic"}, start : Int, end : Int]

\* What a sweep has found after each position.
LEMMA SweepSteps ==
  ASSUME NEW s \in Seq(Chars), NEW at \in [1..Len(s) -> Seq(Spans)]
  PROVE  \E h \in [0..Len(s) -> Seq(Spans)] :
            /\ h[0] = <<>>
            /\ \A k \in 1..Len(s) :
                  h[k] = IF h[k - 1] = <<>> \/ k >= Last(h[k - 1]).end
                         THEN h[k - 1] \o at[k] ELSE h[k - 1]
            /\ Sweep(s, at) = h[Len(s)]
<1> DEFINE n == Len(s)
           V == Seq(Spans)
           ids == [i \in DOMAIN s |-> i]
           F(v, i) == IF v = <<>> \/ i >= Last(v).end THEN v \o at[i] ELSE v
           E(g) == [t \in SUBSET DOMAIN ids |->
                       IF t = {} THEN <<>> ELSE F(g[t \ {Max(t)}], ids[Max(t)])]
           it == CHOOSE g : g = E(g)
           G == [p \in V \X (1..n) |-> F(p[1], p[2])]
<1>1. Sweep(s, at) = it[DOMAIN ids]
  BY DEF Sweep, FoldLeftDomain, FoldLeft, MapThenFoldSet
<1>2. n \in Nat /\ DOMAIN ids = 1..n /\ (\A i \in 1..n : ids[i] = i) /\ <<>> \in V
  OBVIOUS
<1>3. ASSUME NEW v \in V, NEW i \in 1..n PROVE F(v, i) \in V /\ G[<<v, i>>] = F(v, i)
  <2>1. F(v, i) \in V
    OBVIOUS
  <2> HIDE DEF F, V
  <2> QED
    BY <2>1
<1> HIDE DEF ids, V, F, n
<1>4. G \in [V \X (1..n) -> V]
  BY <1>3
<1> HIDE DEF G
<1>5. ASSUME NEW t \in SUBSET (1..n), t # {} PROVE Max(t) \in 1..n /\ ids[Max(t)] = Max(t)
  BY <1>2, <1>5, MaxOf
<1>6. PICK g \in [SUBSET (1..n) -> V] : FoldIterates(g, G, <<>>, SUBSET (1..n))
  BY <1>2, <1>4, FoldExists
<1>7. ASSUME NEW t \in SUBSET (1..n)
      PROVE  g[t] = IF t = {} THEN <<>> ELSE F(g[t \ {Max(t)}], ids[Max(t)])
  <2>1. g[t] = IF t = {} THEN <<>> ELSE G[<<g[t \ {Max(t)}], Max(t)>>]
    BY <1>6 DEF FoldIterates
  <2>2. CASE t # {}
    <3>1. g[t \ {Max(t)}] \in V
      BY <1>6
    <3>2. G[<<g[t \ {Max(t)}], Max(t)>>] = F(g[t \ {Max(t)}], Max(t))
      BY <1>3, <1>5, <2>2, <3>1
    <3> QED
      BY <1>5, <2>1, <2>2, <3>2
  <2> QED
    BY <2>1, <2>2
<1>8. g = E(g)
  <2>1. g = [t \in SUBSET (1..n) |-> g[t]]
    BY <1>6
  <2> QED
    BY <1>2, <1>7, <2>1, Zenon
<1>9. it = E(it)
  <2>1. \E k : k = E(k)
    BY <1>8
  <2> HIDE DEF E
  <2> QED
    BY <2>1
<1> HIDE DEF it
<1>10. it[{}] = <<>>
  BY <1>2, <1>9
<1>11. ASSUME NEW t \in SUBSET (1..n), t # {}, it[t \ {Max(t)}] \in V
       PROVE  it[t] = G[<<it[t \ {Max(t)}], Max(t)>>]
  <2>1. it[t] = F(it[t \ {Max(t)}], ids[Max(t)])
    BY <1>2, <1>9, <1>11
  <2> QED
    BY <1>3, <1>5, <1>11, <2>1
<1> HIDE DEF E
<1>12. Unfolds(it, G, <<>>, V, n)
  BY <1>10, <1>11, Zenon DEF Unfolds
<1>13. n \in Nat /\ <<>> \in V
  BY <1>2
<1>14. Folded(it[1..n], G, <<>>, V, n)
  BY <1>4, <1>12, <1>13, FoldSteps
<1>15. PICK h \in [0..n -> V] :
          /\ h[0] = <<>>
          /\ \A k \in 1..n : h[k] = G[<<h[k - 1], k>>]
          /\ h[n] = it[1..n]
  BY <1>14 DEF Folded
<1>16. ASSUME NEW k \in 1..n PROVE h[k] = F(h[k - 1], k)
  <2>1. k - 1 \in 0..n
    BY <1>2
  <2> QED
    BY <1>3, <1>15, <2>1
<1>17. Sweep(s, at) = h[n]
  BY <1>1, <1>2, <1>15
<1> QED
  BY <1>15, <1>16, <1>17, Zenon DEF n, V, F

\* Where a kept span starts, and what the kept spans cover.
StartsAt(ms, i) == \E k \in DOMAIN ms : ms[k].start = i
Covers(ms, i) == \E k \in DOMAIN ms : i \in ms[k].start .. (ms[k].end - 1)

\* What is kept of the passports found, after each of them.
LEMMA UnflankedSteps ==
  ASSUME NEW s, NEW ms \in Seq(Spans), ms = Passports(s)
  PROVE  \E h \in [0..Len(ms) -> Seq(Spans)] :
            /\ h[0] = <<>>
            /\ \A k \in 1..Len(ms) :
                  h[k] = IF isFlanked(s, ms[k]) THEN h[k - 1] ELSE Append(h[k - 1], ms[k])
            /\ Unflanked(s) = h[Len(ms)]
<1> DEFINE n == Len(ms)
           V == Seq(Spans)
           F(v, m) == IF isFlanked(s, m) THEN v ELSE Append(v, m)
           E(g) == [t \in SUBSET DOMAIN ms |->
                       IF t = {} THEN <<>> ELSE F(g[t \ {Max(t)}], ms[Max(t)])]
           it == CHOOSE g : g = E(g)
           G == [p \in V \X (1..n) |-> F(p[1], ms[p[2]])]
<1>1. Unflanked(s) = it[DOMAIN ms]
  BY DEF Unflanked, FoldLeft, MapThenFoldSet
<1>2. n \in Nat /\ DOMAIN ms = 1..n /\ <<>> \in V
  OBVIOUS
<1>3. ASSUME NEW v \in V, NEW i \in 1..n PROVE F(v, ms[i]) \in V /\ G[<<v, i>>] = F(v, ms[i])
  <2>1. F(v, ms[i]) \in V
    OBVIOUS
  <2> HIDE DEF F, V
  <2> QED
    BY <2>1
<1> HIDE DEF V, F, n
<1>4. G \in [V \X (1..n) -> V]
  BY <1>3
<1> HIDE DEF G
<1>5. ASSUME NEW t \in SUBSET (1..n), t # {} PROVE Max(t) \in 1..n
  BY <1>2, <1>5, MaxOf
<1>6. PICK g \in [SUBSET (1..n) -> V] : FoldIterates(g, G, <<>>, SUBSET (1..n))
  BY <1>2, <1>4, FoldExists
<1>7. ASSUME NEW t \in SUBSET (1..n)
      PROVE  g[t] = IF t = {} THEN <<>> ELSE F(g[t \ {Max(t)}], ms[Max(t)])
  <2>1. g[t] = IF t = {} THEN <<>> ELSE G[<<g[t \ {Max(t)}], Max(t)>>]
    BY <1>6 DEF FoldIterates
  <2>2. CASE t # {}
    <3>1. g[t \ {Max(t)}] \in V
      BY <1>6
    <3>2. G[<<g[t \ {Max(t)}], Max(t)>>] = F(g[t \ {Max(t)}], ms[Max(t)])
      BY <1>3, <1>5, <2>2, <3>1
    <3> QED
      BY <2>1, <2>2, <3>2
  <2> QED
    BY <2>1, <2>2
<1>8. g = E(g)
  <2>1. g = [t \in SUBSET (1..n) |-> g[t]]
    BY <1>6
  <2> QED
    BY <1>2, <1>7, <2>1, Zenon
<1>9. it = E(it)
  <2>1. \E k : k = E(k)
    BY <1>8
  <2> HIDE DEF E
  <2> QED
    BY <2>1
<1> HIDE DEF it
<1>10. it[{}] = <<>>
  BY <1>2, <1>9
<1>11. ASSUME NEW t \in SUBSET (1..n), t # {}, it[t \ {Max(t)}] \in V
       PROVE  it[t] = G[<<it[t \ {Max(t)}], Max(t)>>]
  <2>1. it[t] = F(it[t \ {Max(t)}], ms[Max(t)])
    BY <1>2, <1>9, <1>11
  <2> QED
    BY <1>3, <1>5, <1>11, <2>1
<1> HIDE DEF E
<1>12. Unfolds(it, G, <<>>, V, n)
  BY <1>10, <1>11, Zenon DEF Unfolds
<1>13. n \in Nat /\ <<>> \in V
  BY <1>2
<1>14. Folded(it[1..n], G, <<>>, V, n)
  BY <1>4, <1>12, <1>13, FoldSteps
<1>15. PICK h \in [0..n -> V] :
          /\ h[0] = <<>>
          /\ \A k \in 1..n : h[k] = G[<<h[k - 1], k>>]
          /\ h[n] = it[1..n]
  BY <1>14 DEF Folded
<1>16. ASSUME NEW k \in 1..n PROVE h[k] = F(h[k - 1], ms[k])
  <2>1. k - 1 \in 0..n
    BY <1>2
  <2>2. h[k - 1] \in V /\ h[k] = G[<<h[k - 1], k>>]
    BY <1>15, <2>1
  <2> QED
    BY <1>3, <2>2
<1>17. Unflanked(s) = h[n]
  BY <1>1, <1>2, <1>15
<1> QED
  BY <1>15, <1>16, <1>17, Zenon DEF n, V, F

\* The spans kept after each of the hits, in their order.
LEMMA ResolveSteps ==
  ASSUME NEW ms, NEW o \in Seq(Spans), o = InOrder(ms)
  PROVE  \E h \in [0..Len(o) -> Seq(Spans)] :
            /\ h[0] = <<>>
            /\ \A k \in 1..Len(o) :
                  h[k] = IF h[k - 1] = <<>> \/ o[k].start >= Last(h[k - 1]).end
                         THEN Append(h[k - 1], o[k]) ELSE h[k - 1]
            /\ resolveOverlaps(ms) = h[Len(o)]
<1> DEFINE n == Len(o)
           V == Seq(Spans)
           F(v, m) == IF v = <<>> \/ m.start >= Last(v).end THEN Append(v, m) ELSE v
           E(g) == [t \in SUBSET DOMAIN o |->
                       IF t = {} THEN <<>> ELSE F(g[t \ {Max(t)}], o[Max(t)])]
           it == CHOOSE g : g = E(g)
           G == [p \in V \X (1..n) |-> F(p[1], o[p[2]])]
<1>1. resolveOverlaps(ms) = it[DOMAIN o]
  BY DEF resolveOverlaps, FoldLeft, MapThenFoldSet
<1>2. n \in Nat /\ DOMAIN o = 1..n /\ <<>> \in V
  OBVIOUS
<1>3. ASSUME NEW v \in V, NEW i \in 1..n PROVE F(v, o[i]) \in V /\ G[<<v, i>>] = F(v, o[i])
  <2>1. F(v, o[i]) \in V
    OBVIOUS
  <2> HIDE DEF F, V
  <2> QED
    BY <2>1
<1> HIDE DEF V, F, n
<1>4. G \in [V \X (1..n) -> V]
  BY <1>3
<1> HIDE DEF G
<1>5. ASSUME NEW t \in SUBSET (1..n), t # {} PROVE Max(t) \in 1..n
  BY <1>2, <1>5, MaxOf
<1>6. PICK g \in [SUBSET (1..n) -> V] : FoldIterates(g, G, <<>>, SUBSET (1..n))
  BY <1>2, <1>4, FoldExists
<1>7. ASSUME NEW t \in SUBSET (1..n)
      PROVE  g[t] = IF t = {} THEN <<>> ELSE F(g[t \ {Max(t)}], o[Max(t)])
  <2>1. g[t] = IF t = {} THEN <<>> ELSE G[<<g[t \ {Max(t)}], Max(t)>>]
    BY <1>6 DEF FoldIterates
  <2>2. CASE t # {}
    <3>1. g[t \ {Max(t)}] \in V
      BY <1>6
    <3>2. G[<<g[t \ {Max(t)}], Max(t)>>] = F(g[t \ {Max(t)}], o[Max(t)])
      BY <1>3, <1>5, <2>2, <3>1
    <3> QED
      BY <2>1, <2>2, <3>2
  <2> QED
    BY <2>1, <2>2
<1>8. g = E(g)
  <2>1. g = [t \in SUBSET (1..n) |-> g[t]]
    BY <1>6
  <2> QED
    BY <1>2, <1>7, <2>1, Zenon
<1>9. it = E(it)
  <2>1. \E k : k = E(k)
    BY <1>8
  <2> HIDE DEF E
  <2> QED
    BY <2>1
<1> HIDE DEF it
<1>10. it[{}] = <<>>
  BY <1>2, <1>9
<1>11. ASSUME NEW t \in SUBSET (1..n), t # {}, it[t \ {Max(t)}] \in V
       PROVE  it[t] = G[<<it[t \ {Max(t)}], Max(t)>>]
  <2>1. it[t] = F(it[t \ {Max(t)}], o[Max(t)])
    BY <1>2, <1>9, <1>11
  <2> QED
    BY <1>3, <1>5, <1>11, <2>1
<1> HIDE DEF E
<1>12. Unfolds(it, G, <<>>, V, n)
  BY <1>10, <1>11, Zenon DEF Unfolds
<1>13. n \in Nat /\ <<>> \in V
  BY <1>2
<1>14. Folded(it[1..n], G, <<>>, V, n)
  BY <1>4, <1>12, <1>13, FoldSteps
<1>15. PICK h \in [0..n -> V] :
          /\ h[0] = <<>>
          /\ \A k \in 1..n : h[k] = G[<<h[k - 1], k>>]
          /\ h[n] = it[1..n]
  BY <1>14 DEF Folded
<1>16. ASSUME NEW k \in 1..n PROVE h[k] = F(h[k - 1], o[k])
  <2>1. k - 1 \in 0..n
    BY <1>2
  <2>2. h[k - 1] \in V /\ h[k] = G[<<h[k - 1], k>>]
    BY <1>15, <2>1
  <2> QED
    BY <1>3, <2>2
<1>17. resolveOverlaps(ms) = h[n]
  BY <1>1, <1>2, <1>15
<1> QED
  BY <1>15, <1>16, <1>17, Zenon DEF n, V, F

\* The masked text after each character.
LEMMA MaskSteps ==
  ASSUME NEW s \in Seq(Chars), NEW ms \in Seq(Spans)
  PROVE  \E h \in [0..Len(s) -> Seq(Chars)] :
            /\ h[0] = <<>>
            /\ \A i \in 1..Len(s) :
                  h[i] = IF StartsAt(ms, i) THEN Append(h[i - 1], Mask)
                         ELSE IF Covers(ms, i)
                              THEN h[i - 1]
                         ELSE Append(h[i - 1], s[i])
            /\ maskSpans(s, ms) = h[Len(s)]
<1> DEFINE n == Len(s)
           V == Seq(Chars)
           ids == [i \in DOMAIN s |-> i]
           F(out, i) == IF StartsAt(ms, i) THEN Append(out, Mask)
                        ELSE IF Covers(ms, i)
                             THEN out
                        ELSE Append(out, s[i])
           E(g) == [t \in SUBSET DOMAIN ids |->
                       IF t = {} THEN <<>> ELSE F(g[t \ {Max(t)}], ids[Max(t)])]
           it == CHOOSE g : g = E(g)
           G == [p \in V \X (1..n) |-> F(p[1], ids[p[2]])]
<1>1. maskSpans(s, ms) = it[DOMAIN ids]
  BY DEF maskSpans, FoldLeftDomain, FoldLeft, MapThenFoldSet, StartsAt, Covers
<1>2. n \in Nat /\ DOMAIN ids = 1..n /\ <<>> \in V /\ \A i \in 1..n : ids[i] = i
  OBVIOUS
<1>3. ASSUME NEW v \in V, NEW i \in 1..n PROVE F(v, ids[i]) \in V /\ G[<<v, i>>] = F(v, ids[i])
  <2>1. F(v, ids[i]) \in V
    BY DEF Chars
  <2> HIDE DEF F, V, ids
  <2> QED
    BY <2>1
<1> HIDE DEF ids, V, F, n
<1>4. G \in [V \X (1..n) -> V]
  BY <1>3
<1> HIDE DEF G
<1>5. ASSUME NEW t \in SUBSET (1..n), t # {} PROVE Max(t) \in 1..n
  BY <1>2, <1>5, MaxOf
<1>6. PICK g \in [SUBSET (1..n) -> V] : FoldIterates(g, G, <<>>, SUBSET (1..n))
  BY <1>2, <1>4, FoldExists
<1>7. ASSUME NEW t \in SUBSET (1..n)
      PROVE  g[t] = IF t = {} THEN <<>> ELSE F(g[t \ {Max(t)}], ids[Max(t)])
  <2>1. g[t] = IF t = {} THEN <<>> ELSE G[<<g[t \ {Max(t)}], Max(t)>>]
    BY <1>6 DEF FoldIterates
  <2>2. CASE t # {}
    <3>1. g[t \ {Max(t)}] \in V
      BY <1>6
    <3>2. G[<<g[t \ {Max(t)}], Max(t)>>] = F(g[t \ {Max(t)}], ids[Max(t)])
      BY <1>3, <1>5, <2>2, <3>1
    <3> QED
      BY <2>1, <2>2, <3>2
  <2> QED
    BY <2>1, <2>2
<1>8. g = E(g)
  <2>1. g = [t \in SUBSET (1..n) |-> g[t]]
    BY <1>6
  <2> QED
    BY <1>2, <1>7, <2>1, Zenon
<1>9. it = E(it)
  <2>1. \E k : k = E(k)
    BY <1>8
  <2> HIDE DEF E
  <2> QED
    BY <2>1
<1> HIDE DEF it
<1>10. it[{}] = <<>>
  BY <1>2, <1>9
<1>11. ASSUME NEW t \in SUBSET (1..n), t # {}, it[t \ {Max(t)}] \in V
       PROVE  it[t] = G[<<it[t \ {Max(t)}], Max(t)>>]
  <2>1. it[t] = F(it[t \ {Max(t)}], ids[Max(t)])
    BY <1>2, <1>9, <1>11
  <2> QED
    BY <1>3, <1>5, <1>11, <2>1
<1> HIDE DEF E
<1>12. Unfolds(it, G, <<>>, V, n)
  BY <1>10, <1>11, Zenon DEF Unfolds
<1>13. n \in Nat /\ <<>> \in V
  BY <1>2
<1>14. Folded(it[1..n], G, <<>>, V, n)
  BY <1>4, <1>12, <1>13, FoldSteps
<1>15. PICK h \in [0..n -> V] :
          /\ h[0] = <<>>
          /\ \A k \in 1..n : h[k] = G[<<h[k - 1], k>>]
          /\ h[n] = it[1..n]
  BY <1>14 DEF Folded
<1>16. ASSUME NEW k \in 1..n PROVE h[k] = F(h[k - 1], ids[k])
  <2>1. k - 1 \in 0..n
    BY <1>2
  <2>2. h[k - 1] \in V /\ h[k] = G[<<h[k - 1], k>>]
    BY <1>15, <2>1
  <2> QED
    BY <1>3, <2>2
<1>17. maskSpans(s, ms) = h[n]
  BY <1>1, <1>2, <1>15
<1>18. ASSUME NEW k \in 1..n PROVE h[k] = F(h[k - 1], k)
  BY <1>2, <1>16
<1> QED
  BY <1>15, <1>17, <1>18, Zenon DEF n, V, F

\* The text after each piece.
LEMMA TextSteps ==
  ASSUME NEW ps \in Seq(Seq(Chars)), ps = content
  PROVE  \E h \in [0..Len(ps) -> Seq(Chars)] :
            /\ h[0] = <<>>
            /\ \A k \in 1..Len(ps) : h[k] = h[k - 1] \o ps[k]
            /\ Text = h[Len(ps)]
<1> DEFINE n == Len(ps)
           V == Seq(Chars)
           F(v, m) == v \o m
           E(g) == [t \in SUBSET DOMAIN ps |->
                       IF t = {} THEN <<>> ELSE F(g[t \ {Max(t)}], ps[Max(t)])]
           it == CHOOSE g : g = E(g)
           G == [p \in V \X (1..n) |-> F(p[1], ps[p[2]])]
<1>1. Text = it[DOMAIN ps]
  BY DEF Text, Joined, FoldLeft, MapThenFoldSet
<1>2. n \in Nat /\ DOMAIN ps = 1..n /\ <<>> \in V
  OBVIOUS
<1>3. ASSUME NEW v \in V, NEW i \in 1..n PROVE F(v, ps[i]) \in V /\ G[<<v, i>>] = F(v, ps[i])
  <2>1. F(v, ps[i]) \in V
    OBVIOUS
  <2> HIDE DEF F, V
  <2> QED
    BY <2>1
<1> HIDE DEF V, F, n
<1>4. G \in [V \X (1..n) -> V]
  BY <1>3
<1> HIDE DEF G
<1>5. ASSUME NEW t \in SUBSET (1..n), t # {} PROVE Max(t) \in 1..n
  BY <1>2, <1>5, MaxOf
<1>6. PICK g \in [SUBSET (1..n) -> V] : FoldIterates(g, G, <<>>, SUBSET (1..n))
  BY <1>2, <1>4, FoldExists
<1>7. ASSUME NEW t \in SUBSET (1..n)
      PROVE  g[t] = IF t = {} THEN <<>> ELSE F(g[t \ {Max(t)}], ps[Max(t)])
  <2>1. g[t] = IF t = {} THEN <<>> ELSE G[<<g[t \ {Max(t)}], Max(t)>>]
    BY <1>6 DEF FoldIterates
  <2>2. CASE t # {}
    <3>1. g[t \ {Max(t)}] \in V
      BY <1>6
    <3>2. G[<<g[t \ {Max(t)}], Max(t)>>] = F(g[t \ {Max(t)}], ps[Max(t)])
      BY <1>3, <1>5, <2>2, <3>1
    <3> QED
      BY <2>1, <2>2, <3>2
  <2> QED
    BY <2>1, <2>2
<1>8. g = E(g)
  <2>1. g = [t \in SUBSET (1..n) |-> g[t]]
    BY <1>6
  <2> QED
    BY <1>2, <1>7, <2>1, Zenon
<1>9. it = E(it)
  <2>1. \E k : k = E(k)
    BY <1>8
  <2> HIDE DEF E
  <2> QED
    BY <2>1
<1> HIDE DEF it
<1>10. it[{}] = <<>>
  BY <1>2, <1>9
<1>11. ASSUME NEW t \in SUBSET (1..n), t # {}, it[t \ {Max(t)}] \in V
       PROVE  it[t] = G[<<it[t \ {Max(t)}], Max(t)>>]
  <2>1. it[t] = F(it[t \ {Max(t)}], ps[Max(t)])
    BY <1>2, <1>9, <1>11
  <2> QED
    BY <1>3, <1>5, <1>11, <2>1
<1> HIDE DEF E
<1>12. Unfolds(it, G, <<>>, V, n)
  BY <1>10, <1>11, Zenon DEF Unfolds
<1>13. n \in Nat /\ <<>> \in V
  BY <1>2
<1>14. Folded(it[1..n], G, <<>>, V, n)
  BY <1>4, <1>12, <1>13, FoldSteps
<1>15. PICK h \in [0..n -> V] :
          /\ h[0] = <<>>
          /\ \A k \in 1..n : h[k] = G[<<h[k - 1], k>>]
          /\ h[n] = it[1..n]
  BY <1>14 DEF Folded
<1>16. ASSUME NEW k \in 1..n PROVE h[k] = F(h[k - 1], ps[k])
  <2>1. k - 1 \in 0..n
    BY <1>2
  <2>2. h[k - 1] \in V /\ h[k] = G[<<h[k - 1], k>>]
    BY <1>15, <2>1
  <2> QED
    BY <1>3, <2>2
<1>17. Text = h[n]
  BY <1>1, <1>2, <1>15
<1> QED
  BY <1>15, <1>16, <1>17, Zenon DEF n, V, F

\* What a sweep is given: at most one match from each position.
Matches(s, at) ==
  /\ at \in [1..Len(s) -> Seq(Spans)]
  /\ \A i \in 1..Len(s) :
        at[i] = <<>> \/ \E m \in Spans : at[i] = <<m>> /\ m.start = i /\ m.end > i

\* A sweep finds matches only, and every match starts inside one it finds.
LEMMA SweepFacts ==
  ASSUME NEW s \in Seq(Chars), NEW at, Matches(s, at)
  PROVE  /\ Sweep(s, at) \in Seq(Spans)
         /\ \A x \in 1..Len(Sweep(s, at)) :
               /\ Sweep(s, at)[x].start \in 1..Len(s)
               /\ at[Sweep(s, at)[x].start] = <<Sweep(s, at)[x]>>
         /\ \A i \in 1..Len(s) : at[i] # <<>> =>
               \E x \in 1..Len(Sweep(s, at)) :
                  Sweep(s, at)[x].start <= i /\ i < Sweep(s, at)[x].end
<1> DEFINE n == Len(s)
           Sound(v, k) == \A x \in 1..Len(v) : v[x].start \in 1..k /\ at[v[x].start] = <<v[x]>>
           Full(v, k) == \A i \in 1..k : at[i] # <<>> =>
                            \E x \in 1..Len(v) : v[x].start <= i /\ i < v[x].end
<1>1. n \in Nat /\ at \in [1..n -> Seq(Spans)]
  BY DEF Matches
<1>2. PICK h \in [0..n -> Seq(Spans)] :
          /\ h[0] = <<>>
          /\ \A k \in 1..n :
                h[k] = IF h[k - 1] = <<>> \/ k >= Last(h[k - 1]).end
                       THEN h[k - 1] \o at[k] ELSE h[k - 1]
          /\ Sweep(s, at) = h[n]
  BY <1>1, SweepSteps
<1> DEFINE S == {k \in 0..n : Sound(h[k], k) /\ Full(h[k], k)}
<1>3. 0 \in S
  BY <1>1, <1>2
<1>4. ASSUME NEW k \in 0..(n - 1), k \in S PROVE k + 1 \in S
  <2> DEFINE v == h[k]
             w == h[k + 1]
             j == k + 1
  <2>1. v \in Seq(Spans) /\ Sound(v, k) /\ Full(v, k) /\ k \in Nat /\ j \in 1..n /\ j - 1 = k
    BY <1>1, <1>2, <1>4
  <2>2. w = IF v = <<>> \/ j >= Last(v).end THEN v \o at[j] ELSE v
    BY <1>2, <2>1
  <2>3. at[j] = <<>> \/ \E m \in Spans : at[j] = <<m>> /\ m.start = j /\ m.end > j
    BY <2>1 DEF Matches
  <2> HIDE DEF v, w, j
  <2>4. \A i \in 1..j : i \in 1..k \/ i = j
    BY <2>1
  <2>5. ASSUME NEW m \in Spans, at[j] = <<m>>, m.start = j, m.end > j, v = <<>> \/ j >= Last(v).end
        PROVE  Sound(w, j) /\ Full(w, j)
    <3>1. w = v \o <<m>>
      BY <2>2, <2>5
    <3>2. w \in Seq(Spans) /\ Len(w) = Len(v) + 1 /\ w[Len(v) + 1] = m /\ Len(v) \in Nat
          /\ \A x \in 1..Len(v) : w[x] = v[x]
      BY <2>1, <3>1
    <3>3. \A x \in 1..Len(w) : x \in 1..Len(v) \/ x = Len(v) + 1
      BY <3>2
    <3>4. Sound(w, j)
      <4> SUFFICES ASSUME NEW x \in 1..Len(w) PROVE w[x].start \in 1..j /\ at[w[x].start] = <<w[x]>>
        OBVIOUS
      <4>1. CASE x \in 1..Len(v)
        <5>1. w[x] = v[x]
          BY <3>2, <4>1
        <5>2. v[x].start \in 1..k /\ at[v[x].start] = <<v[x]>>
          BY <2>1, <4>1
        <5>3. 1..k \subseteq 1..j
          BY <2>1 DEF j
        <5> QED
          BY <5>1, <5>2, <5>3
      <4>2. CASE x = Len(v) + 1
        BY <2>1, <2>5, <3>2, <4>2
      <4> QED
        BY <3>3, <4>1, <4>2
    <3>5. Full(w, j)
      <4> SUFFICES ASSUME NEW i \in 1..j, at[i] # <<>>
                   PROVE  \E x \in 1..Len(w) : w[x].start <= i /\ i < w[x].end
        OBVIOUS
      <4>1. CASE i \in 1..k
        <5>1. PICK x \in 1..Len(v) : v[x].start <= i /\ i < v[x].end
          BY <2>1, <4>1
        <5> QED
          BY <3>2, <5>1
      <4>2. CASE i = j
        BY <2>1, <2>5, <3>2, <4>2
      <4> QED
        BY <2>4, <4>1, <4>2
    <3> QED
      BY <3>4, <3>5
  <2>6. ASSUME v # <<>>, ~ (j >= Last(v).end) PROVE Sound(w, j) /\ Full(w, j)
    <3>1. w = v
      BY <2>2, <2>6
    <3>2. Len(v) \in 1..Len(v) /\ Last(v) = v[Len(v)] /\ v[Len(v)] \in Spans
      BY <2>1, <2>6 DEF Last
    <3>3. v[Len(v)].start <= j /\ j < v[Len(v)].end
      <4>0. Sound(v, k)
        BY <2>1
      <4>1. v[Len(v)].start \in 1..k /\ v[Len(v)].end \in Int /\ j = k + 1
        BY <3>2, <4>0 DEF Spans, j
      <4> QED
        BY <2>1, <2>6, <3>2, <4>1
    <3>4. Sound(w, j)
      <4>1. 1..k \subseteq 1..j
        BY <2>1 DEF j
      <4>2. Sound(v, k)
        BY <2>1
      <4> HIDE DEF j
      <4> QED
        BY <3>1, <4>1, <4>2
    <3>5. Full(w, j)
      <4> SUFFICES ASSUME NEW i \in 1..j, at[i] # <<>>
                   PROVE  \E x \in 1..Len(v) : v[x].start <= i /\ i < v[x].end
        BY <3>1
      <4>1. CASE i \in 1..k
        BY <2>1, <4>1
      <4>2. CASE i = j
        BY <3>2, <3>3, <4>2
      <4> QED
        BY <2>4, <4>1, <4>2
    <3> QED
      BY <3>4, <3>5
  <2>7. Sound(w, j) /\ Full(w, j)
    <3> HIDE DEF Sound, Full
    <3>1. CASE at[j] = <<>>
      <4>1. w = v
        BY <2>1, <2>2, <3>1
      <4>2. Sound(v, j)
        <5>1. Sound(v, k) /\ 1..k \subseteq 1..j
          BY <2>1 DEF j
        <5> QED
          BY <5>1 DEF Sound
      <4>3. Full(v, j)
        BY <2>1, <2>4, <3>1 DEF Full
      <4> QED
        BY <4>1, <4>2, <4>3
    <3> QED
      BY <2>3, <2>5, <2>6, <3>1
  <2> HIDE DEF Sound, Full
  <2> QED
    BY <2>1, <2>7 DEF w, j
<1>5. 0..n \subseteq S
  <2> HIDE DEF S
  <2> QED
    BY <1>1, <1>3, <1>4, UpTo
<1>6. n \in S
  <2>1. n \in 0..n
    BY <1>1
  <2> HIDE DEF S
  <2> QED
    BY <1>5, <2>1
<1>7. h[n] \in Seq(Spans) /\ Sound(h[n], n) /\ Full(h[n], n)
  BY <1>1, <1>2, <1>6
<1>8. Sweep(s, at) = h[n]
  BY <1>2
<1> QED
  BY <1>7, <1>8, Zenon

\* Of the passports found, those that stand alone are kept.
LEMMA UnflankedFacts ==
  ASSUME NEW s, Passports(s) \in Seq(Spans)
  PROVE  /\ Unflanked(s) \in Seq(Spans)
         /\ \A x \in 1..Len(Unflanked(s)) :
               /\ ~isFlanked(s, Unflanked(s)[x])
               /\ \E y \in 1..Len(Passports(s)) : Passports(s)[y] = Unflanked(s)[x]
         /\ \A y \in 1..Len(Passports(s)) : ~isFlanked(s, Passports(s)[y]) =>
               \E x \in 1..Len(Unflanked(s)) : Unflanked(s)[x] = Passports(s)[y]
<1> DEFINE ms == Passports(s)
           n == Len(ms)
           Sound(v) == \A x \in 1..Len(v) :
                          ~isFlanked(s, v[x]) /\ \E y \in 1..n : ms[y] = v[x]
           Full(v, k) == \A y \in 1..k : ~isFlanked(s, ms[y]) =>
                            \E x \in 1..Len(v) : v[x] = ms[y]
<1>1. n \in Nat /\ ms \in Seq(Spans)
  OBVIOUS
<1>2. PICK h \in [0..n -> Seq(Spans)] :
          /\ h[0] = <<>>
          /\ \A k \in 1..n :
                h[k] = IF isFlanked(s, ms[k]) THEN h[k - 1] ELSE Append(h[k - 1], ms[k])
          /\ Unflanked(s) = h[n]
  BY <1>1, UnflankedSteps
<1> HIDE DEF ms, n
<1> DEFINE S == {k \in 0..n : Sound(h[k]) /\ Full(h[k], k)}
<1>3. 0 \in S
  BY <1>1, <1>2
<1>4. ASSUME NEW k \in 0..(n - 1), k \in S PROVE k + 1 \in S
  <2> DEFINE v == h[k]
             w == h[k + 1]
             j == k + 1
  <2>1. v \in Seq(Spans) /\ k \in Nat /\ j \in 1..n /\ j - 1 = k
    BY <1>1, <1>2
  <2>2. Sound(v) /\ Full(v, k)
    BY <1>4
  <2>3. w = IF isFlanked(s, ms[j]) THEN v ELSE Append(v, ms[j])
    BY <1>2, <2>1
  <2>4. ms[j] \in Spans /\ \A i \in 1..j : i \in 1..k \/ i = j
    BY <1>1, <2>1 DEF n
  <2> HIDE DEF v, w, j
  <2>5. CASE isFlanked(s, ms[j])
    <3>1. w = v
      BY <2>3, <2>5
    <3> QED
      BY <2>1, <2>2, <2>4, <2>5, <3>1 DEF w, j
  <2>6. CASE ~isFlanked(s, ms[j])
    <3>1. w = Append(v, ms[j])
      BY <2>3, <2>6
    <3>2. w \in Seq(Spans) /\ Len(w) = Len(v) + 1 /\ w[Len(v) + 1] = ms[j] /\ Len(v) \in Nat
          /\ \A x \in 1..Len(v) : w[x] = v[x]
      BY <2>1, <2>4, <3>1
    <3>3. Sound(w)
      <4> SUFFICES ASSUME NEW x \in 1..Len(w)
                   PROVE  ~isFlanked(s, w[x]) /\ \E y \in 1..n : ms[y] = w[x]
        OBVIOUS
      <4>1. x \in 1..Len(v) \/ x = Len(v) + 1
        BY <3>2
      <4>2. CASE x \in 1..Len(v)
        BY <2>2, <3>2, <4>2
      <4>3. CASE x = Len(v) + 1
        BY <2>1, <2>6, <3>2, <4>3
      <4> QED
        BY <4>1, <4>2, <4>3
    <3>4. Full(w, j)
      <4> SUFFICES ASSUME NEW y \in 1..j, ~isFlanked(s, ms[y])
                   PROVE  \E x \in 1..Len(w) : w[x] = ms[y]
        OBVIOUS
      <4>1. CASE y \in 1..k
        <5>1. PICK x \in 1..Len(v) : v[x] = ms[y]
          BY <2>2, <4>1
        <5> QED
          BY <3>2, <5>1
      <4>2. CASE y = j
        BY <3>2, <4>2
      <4> QED
        BY <2>4, <4>1, <4>2
    <3> HIDE DEF Sound, Full
    <3> QED
      BY <2>1, <3>3, <3>4 DEF w, j
  <2> QED
    BY <2>5, <2>6
<1>5. 0..n \subseteq S
  <2> HIDE DEF S
  <2> QED
    BY <1>1, <1>3, <1>4, UpTo
<1>6. n \in S
  <2>1. n \in 0..n
    BY <1>1
  <2> HIDE DEF S
  <2> QED
    BY <1>5, <2>1
<1>7. h[n] \in Seq(Spans) /\ Sound(h[n]) /\ Full(h[n], n)
  BY <1>1, <1>2, <1>6
<1>8. Unflanked(s) = h[n]
  BY <1>2
<1> QED
  BY <1>7, <1>8, Zenon DEF ms, n

\* The order of the hits has the same hits, from the earliest start on.
LEMMA InOrderFacts ==
  ASSUME NEW ms \in Seq(Spans)
  PROVE  /\ InOrder(ms) \in Seq(Spans)
         /\ Len(InOrder(ms)) = Len(ms)
         /\ \A k \in 1..Len(ms) : \E i \in 1..Len(ms) : InOrder(ms)[k] = ms[i]
         /\ \A i \in 1..Len(ms) : \E k \in 1..Len(ms) : InOrder(ms)[k] = ms[i]
         /\ \A k, l \in 1..Len(ms) : k < l => InOrder(ms)[k].start <= InOrder(ms)[l].start
<1> DEFINE n == Len(ms)
           R == {p \in (1..n) \X (1..n) : Precedes(ms, p[1], p[2])}
           P(i) == {j \in 1..n : <<j, i>> \in R}
<1>0. n \in Nat /\ DOMAIN ms = 1..n /\ \A i \in 1..n : ms[i] \in Spans
  OBVIOUS
<1>1. n \in Nat /\ \A i \in 1..n : ms[i] \in Spans /\ ms[i].start \in Int /\ ms[i].end \in Int
  BY <1>0 DEF Spans
<1>2. \A i, j \in 1..n : <<i, j>> \in R <=> Precedes(ms, i, j)
  OBVIOUS
<1> HIDE DEF R
<1>3. \A i \in 1..n : <<i, i>> \notin R
  BY <1>1, <1>2 DEF Precedes, Earlier
<1>4. \A i, j \in 1..n : i # j => <<i, j>> \in R \/ <<j, i>> \in R
  <2> SUFFICES ASSUME NEW i \in 1..n, NEW j \in 1..n, i # j
               PROVE  Precedes(ms, i, j) \/ Precedes(ms, j, i)
    BY <1>2
  <2>1. ms[i].start \in Int /\ ms[i].end \in Int /\ ms[j].start \in Int /\ ms[j].end \in Int
    BY <1>1
  <2> QED
    BY <1>1, <2>1 DEF Precedes, Earlier
<1>5. \A i, j, k \in 1..n : <<i, j>> \in R /\ <<j, k>> \in R => <<i, k>> \in R
  <2> SUFFICES ASSUME NEW i \in 1..n, NEW j \in 1..n, NEW k \in 1..n,
                      Precedes(ms, i, j), Precedes(ms, j, k)
               PROVE  Precedes(ms, i, k)
    BY <1>2
  <2> QED
    BY <1>1 DEF Precedes, Earlier
<1>6. PICK before \in [1..n -> 0..(n - 1)] :
          /\ \A i \in 1..n : before[i] = Cardinality({j \in 1..n : <<j, i>> \in R})
          /\ \A i, j \in 1..n : <<i, j>> \in R <=> before[i] < before[j]
          /\ \A i, j \in 1..n : before[i] = before[j] => i = j
          /\ \A k \in 0..(n - 1) : \E i \in 1..n : before[i] = k
  <2> HIDE DEF n
  <2> QED
    BY <1>1, <1>3, <1>4, <1>5, Ranks
<1> DEFINE at(k) == CHOOSE i \in DOMAIN ms :
                      Cardinality({j \in DOMAIN ms : Precedes(ms, j, i)}) = k - 1
<1>7. ASSUME NEW i \in 1..n PROVE Cardinality({j \in DOMAIN ms : Precedes(ms, j, i)}) = before[i]
  <2>1. {j \in DOMAIN ms : Precedes(ms, j, i)} = {j \in 1..n : <<j, i>> \in R}
    BY <1>0, <1>2
  <2> QED
    BY <1>6, <2>1, Zenon
<1>8. ASSUME NEW k \in 1..n PROVE at(k) \in 1..n /\ before[at(k)] = k - 1
  <2>1. k - 1 \in 0..(n - 1)
    BY <1>1
  <2>2. \E i \in 1..n : before[i] = k - 1
    BY <1>6, <2>1
  <2>3. \E i \in DOMAIN ms : Cardinality({j \in DOMAIN ms : Precedes(ms, j, i)}) = k - 1
    BY <1>0, <1>7, <2>2
  <2>4. at(k) \in 1..n /\ Cardinality({j \in DOMAIN ms : Precedes(ms, j, at(k))}) = k - 1
    BY <1>0, <2>3
  <2> HIDE DEF at
  <2> QED
    BY <1>7, <2>4
<1>9. InOrder(ms) = [k \in DOMAIN ms |-> ms[at(k)]]
  BY DEF InOrder
<1>10. InOrder(ms) = [k \in 1..n |-> ms[at(k)]]
  <2> HIDE DEF at, n
  <2> QED
    BY <1>0, <1>9
<1> HIDE DEF at
<1>11. InOrder(ms) \in Seq(Spans) /\ Len(InOrder(ms)) = n
  <2>1. \A k \in 1..n : ms[at(k)] \in Spans
    BY <1>1, <1>8
  <2> HIDE DEF n
  <2>2. InOrder(ms) \in [1..n -> Spans] /\ DOMAIN InOrder(ms) = 1..n
    BY <1>10, <2>1
  <2> QED
    BY <1>1, <2>2
<1>12. \A k \in 1..n : \E i \in 1..n : InOrder(ms)[k] = ms[i]
  BY <1>8, <1>10
<1>13. ASSUME NEW i \in 1..n PROVE \E k \in 1..n : InOrder(ms)[k] = ms[i]
  <2> DEFINE k == before[i] + 1
  <2>1. k \in 1..n /\ before[i] \in Int /\ k - 1 = before[i]
    <3>1. before[i] \in 0..(n - 1)
      BY <1>6
    <3> HIDE DEF n
    <3> QED
      BY <1>1, <3>1
  <2> HIDE DEF k, n
  <2>2. at(k) \in 1..n /\ before[at(k)] = before[i]
    BY <1>8, <2>1
  <2>3. at(k) = i
    BY <1>6, <2>2
  <2> QED
    BY <1>10, <2>1, <2>3
<1>14. ASSUME NEW k \in 1..n, NEW l \in 1..n, k < l
       PROVE  InOrder(ms)[k].start <= InOrder(ms)[l].start
  <2>1. before[at(k)] < before[at(l)] /\ at(k) \in 1..n /\ at(l) \in 1..n
    BY <1>1, <1>8, <1>14
  <2>2. Precedes(ms, at(k), at(l))
    BY <1>2, <1>6, <2>1
  <2>3. ms[at(k)].start <= ms[at(l)].start
    BY <1>1, <2>1, <2>2 DEF Precedes, Earlier
  <2> QED
    BY <1>10, <2>3
<1> QED
  BY <1>11, <1>12, <1>13, <1>14

\* The spans kept are hits, one after the other, and every hit starts in one.
LEMMA ResolveFacts ==
  ASSUME NEW ms \in Seq(Spans), \A i \in 1..Len(ms) : ms[i].start < ms[i].end
  PROVE  /\ resolveOverlaps(ms) \in Seq(Spans)
         /\ \A x \in 1..Len(resolveOverlaps(ms)) :
               \E i \in 1..Len(ms) : ms[i] = resolveOverlaps(ms)[x]
         /\ \A x \in 1..(Len(resolveOverlaps(ms)) - 1) :
               resolveOverlaps(ms)[x].end <= resolveOverlaps(ms)[x + 1].start
         /\ \A i \in 1..Len(ms) : \E x \in 1..Len(resolveOverlaps(ms)) :
               /\ resolveOverlaps(ms)[x].start <= ms[i].start
               /\ ms[i].start < resolveOverlaps(ms)[x].end
<1> DEFINE o == InOrder(ms)
           n == Len(o)
           Sound(v, k) == \A x \in 1..Len(v) : \E i \in 1..k : o[i] = v[x]
           Apart(v) == \A x \in 1..(Len(v) - 1) : v[x].end <= v[x + 1].start
           Full(v, k) == \A i \in 1..k : \E x \in 1..Len(v) :
                            v[x].start <= o[i].start /\ o[i].start < v[x].end
<1>0. /\ o \in Seq(Spans) /\ n = Len(ms)
      /\ \A k \in 1..Len(ms) : \E i \in 1..Len(ms) : o[k] = ms[i]
      /\ \A i \in 1..Len(ms) : \E k \in 1..Len(ms) : o[k] = ms[i]
      /\ \A k, l \in 1..Len(ms) : k < l => o[k].start <= o[l].start
  BY InOrderFacts, Zenon
<1>1. o \in Seq(Spans) /\ n = Len(ms)
  BY <1>0
<1>2. \A k \in 1..n : \E i \in 1..n : o[k] = ms[i]
  BY <1>0
<1>3. \A i \in 1..n : \E k \in 1..n : o[k] = ms[i]
  BY <1>0
<1>4. \A k, l \in 1..n : k < l => o[k].start <= o[l].start
  BY <1>0
<1>5. n \in Nat /\ \A k \in 1..n : o[k] \in Spans
  BY <1>1
<1>6. ASSUME NEW k \in 1..n
      PROVE  o[k].start < o[k].end /\ o[k].start \in Int /\ o[k].end \in Int
  <2>1. PICK i \in 1..n : o[k] = ms[i]
    BY <1>2
  <2>2. ms[i].start < ms[i].end
    BY <1>1
  <2> QED
    BY <1>5, <2>1, <2>2 DEF Spans
<1>7. PICK h \in [0..n -> Seq(Spans)] :
          /\ h[0] = <<>>
          /\ \A k \in 1..n :
                h[k] = IF h[k - 1] = <<>> \/ o[k].start >= Last(h[k - 1]).end
                       THEN Append(h[k - 1], o[k]) ELSE h[k - 1]
          /\ resolveOverlaps(ms) = h[n]
  BY <1>1, ResolveSteps
<1> DEFINE S == {k \in 0..n : Sound(h[k], k) /\ Apart(h[k]) /\ Full(h[k], k)}
<1> HIDE DEF o, n
<1>8. 0 \in S
  BY <1>5, <1>7
<1>9. ASSUME NEW k \in 0..(n - 1), k \in S PROVE k + 1 \in S
  <2> DEFINE v == h[k]
             w == h[k + 1]
             j == k + 1
  <2>1. v \in Seq(Spans) /\ k \in Nat /\ j \in 1..n /\ j - 1 = k /\ j = k + 1
    BY <1>5, <1>7
  <2>2. Sound(v, k) /\ Apart(v) /\ Full(v, k)
    BY <1>9
  <2>3. w = IF v = <<>> \/ o[j].start >= Last(v).end THEN Append(v, o[j]) ELSE v
    BY <1>7, <2>1
  <2>4. o[j] \in Spans /\ (\A i \in 1..j : i \in 1..k \/ i = j) /\ 1..k \subseteq 1..j
    BY <1>5, <2>1
  <2>5. Len(v) \in Nat /\ (\A x \in 1..Len(v) : v[x] \in Spans) /\ (v # <<>> => Len(v) \in 1..Len(v))
        /\ Last(v) = v[Len(v)]
    BY <2>1 DEF Last
  <2> HIDE DEF v, w, j
  <2>6. ASSUME v = <<>> \/ o[j].start >= Last(v).end
        PROVE  Sound(w, j) /\ Apart(w) /\ Full(w, j)
    <3>1. w = Append(v, o[j])
      BY <2>3, <2>6
    <3>2. Len(w) = Len(v) + 1 /\ w[Len(v) + 1] = o[j] /\ \A x \in 1..Len(v) : w[x] = v[x]
      BY <2>1, <2>4, <3>1
    <3>3. Sound(w, j)
      <4> SUFFICES ASSUME NEW x \in 1..Len(w) PROVE \E i \in 1..j : o[i] = w[x]
        OBVIOUS
      <4>1. x \in 1..Len(v) \/ x = Len(v) + 1
        BY <2>5, <3>2
      <4>2. CASE x \in 1..Len(v)
        <5>1. PICK i \in 1..k : o[i] = v[x]
          BY <2>2, <4>2
        <5> QED
          BY <2>4, <3>2, <4>2, <5>1
      <4>3. CASE x = Len(v) + 1
        BY <2>1, <3>2, <4>3
      <4> QED
        BY <4>1, <4>2, <4>3
    <3>4. Apart(w)
      <4> SUFFICES ASSUME NEW x \in 1..(Len(w) - 1) PROVE w[x].end <= w[x + 1].start
        OBVIOUS
      <4>1. x \in 1..Len(v) /\ (x \in 1..(Len(v) - 1) \/ x = Len(v))
        BY <2>5, <3>2
      <4>2. CASE x \in 1..(Len(v) - 1)
        <5>1. x + 1 \in 1..Len(v) /\ v[x].end <= v[x + 1].start
          BY <2>2, <2>5, <4>2
        <5> QED
          BY <3>2, <4>1, <5>1
      <4>3. CASE x = Len(v)
        <5>1. v # <<>> /\ w[x] = v[x] /\ w[x + 1] = o[j]
          BY <2>1, <3>2, <4>1, <4>3
        <5>2. v[x].end \in Int /\ o[j].start \in Int
          BY <2>4, <2>5, <4>1 DEF Spans
        <5>3. o[j].start >= v[x].end
          BY <2>5, <2>6, <4>3, <5>1
        <5> QED
          BY <5>1, <5>2, <5>3
      <4> QED
        BY <4>1, <4>2, <4>3
    <3>5. Full(w, j)
      <4> SUFFICES ASSUME NEW i \in 1..j
                   PROVE  \E x \in 1..Len(w) : w[x].start <= o[i].start /\ o[i].start < w[x].end
        OBVIOUS
      <4>1. CASE i \in 1..k
        <5>1. PICK x \in 1..Len(v) : v[x].start <= o[i].start /\ o[i].start < v[x].end
          BY <2>2, <4>1
        <5>2. x \in 1..Len(w) /\ w[x] = v[x]
          BY <2>5, <3>2
        <5> QED
          BY <5>1, <5>2
      <4>2. CASE i = j
        <5>1. Len(v) + 1 \in 1..Len(w)
          BY <2>5, <3>2
        <5>2. o[j].start <= o[j].start /\ o[j].start < o[j].end
          BY <1>6, <2>1
        <5> QED
          BY <3>2, <4>2, <5>1, <5>2
      <4> QED
        BY <2>4, <4>1, <4>2
    <3> QED
      BY <3>3, <3>4, <3>5
  <2>7. ASSUME v # <<>>, ~ (o[j].start >= Last(v).end)
        PROVE  Sound(w, j) /\ Apart(w) /\ Full(w, j)
    <3>1. w = v
      BY <2>3, <2>7
    <3>2. Len(v) \in 1..Len(v) /\ v[Len(v)].start \in Int /\ v[Len(v)].end \in Int /\ o[j].start \in Int
      BY <2>4, <2>5, <2>7 DEF Spans
    <3>3. PICK l \in 1..k : o[l] = v[Len(v)]
      BY <2>2, <3>2
    <3>4. o[l].start <= o[j].start
      <4>1. l \in 1..n /\ j \in 1..n /\ l < j
        BY <1>5, <2>1
      <4> QED
        BY <1>4, <4>1
    <3>5. v[Len(v)].start <= o[j].start /\ o[j].start < v[Len(v)].end
      BY <2>5, <2>7, <3>2, <3>3, <3>4
    <3>6. Full(w, j)
      <4> SUFFICES ASSUME NEW i \in 1..j
                   PROVE  \E x \in 1..Len(v) : v[x].start <= o[i].start /\ o[i].start < v[x].end
        BY <3>1
      <4>1. CASE i \in 1..k
        BY <2>2, <4>1
      <4>2. CASE i = j
        BY <3>2, <3>5, <4>2
      <4> QED
        BY <2>4, <4>1, <4>2
    <3>7. Sound(w, j)
      BY <2>2, <2>4, <3>1
    <3>8. Apart(w)
      BY <2>2, <3>1
    <3> QED
      BY <3>6, <3>7, <3>8
  <2>8. Sound(w, j) /\ Apart(w) /\ Full(w, j)
    <3> HIDE DEF Sound, Apart, Full
    <3> QED
      BY <2>6, <2>7
  <2> HIDE DEF Sound, Apart, Full
  <2> QED
    BY <2>1, <2>8 DEF w, j
<1>10. 0..n \subseteq S
  <2> HIDE DEF S
  <2> QED
    BY <1>5, <1>8, <1>9, UpTo
<1>11. n \in S
  <2>1. n \in 0..n
    BY <1>5
  <2> HIDE DEF S
  <2> QED
    BY <1>10, <2>1
<1>12. h[n] \in Seq(Spans) /\ Sound(h[n], n) /\ Apart(h[n]) /\ Full(h[n], n)
  BY <1>5, <1>7, <1>11
<1> DEFINE kept == resolveOverlaps(ms)
<1>13. kept \in Seq(Spans) /\ Sound(kept, n) /\ Apart(kept) /\ Full(kept, n)
  <2>1. kept = h[n]
    BY <1>7
  <2> HIDE DEF Sound, Apart, Full, kept
  <2> QED
    BY <1>12, <2>1
<1> HIDE DEF kept
<1>14. \A x \in 1..Len(kept) : \E i \in 1..n : ms[i] = kept[x]
  <2> SUFFICES ASSUME NEW x \in 1..Len(kept) PROVE \E i \in 1..n : ms[i] = kept[x]
    OBVIOUS
  <2>1. PICK k \in 1..n : o[k] = kept[x]
    BY <1>13
  <2> QED
    BY <1>2, <2>1
<1>15. \A i \in 1..n : \E x \in 1..Len(kept) : kept[x].start <= ms[i].start /\ ms[i].start < kept[x].end
  <2> SUFFICES ASSUME NEW i \in 1..n
               PROVE  \E x \in 1..Len(kept) : kept[x].start <= ms[i].start /\ ms[i].start < kept[x].end
    OBVIOUS
  <2>1. PICK k \in 1..n : o[k] = ms[i]
    BY <1>3
  <2>2. PICK x \in 1..Len(kept) : kept[x].start <= o[k].start /\ o[k].start < kept[x].end
    BY <1>13
  <2> QED
    BY <2>1, <2>2
<1>16. \A x \in 1..(Len(kept) - 1) : kept[x].end <= kept[x + 1].start
  BY <1>13
<1>17. kept \in Seq(Spans) /\ n = Len(ms)
  BY <1>1, <1>13
<1> QED
  BY <1>14, <1>15, <1>16, <1>17, Zenon DEF kept

\* Where each character of a masked text comes from: in order, a mask from the
\* start of a span and any other character from outside the spans, none of
\* which is lost.
Shows(src, out, s, ms, n) ==
  /\ src \in [1..Len(out) -> 1..n]
  /\ \A a, b \in 1..Len(out) : a < b => src[a] < src[b]
  /\ \A a \in 1..Len(out) :
        IF StartsAt(ms, src[a]) THEN out[a] = Mask
        ELSE ~Covers(ms, src[a]) /\ out[a] = s[src[a]]
  /\ \A p \in 1..n : StartsAt(ms, p) \/ ~Covers(ms, p) =>
        \E a \in 1..Len(out) : src[a] = p

\* Masking shows what no span covers, in its order, with a mask where each span starts.
LEMMA MaskFacts ==
  ASSUME NEW s \in Seq(Chars), NEW ms \in Seq(Spans)
  PROVE  /\ maskSpans(s, ms) \in Seq(Chars)
         /\ \E src : Shows(src, maskSpans(s, ms), s, ms, Len(s))
<1> DEFINE n == Len(s)
<1>1. n \in Nat /\ \A i \in 1..n : s[i] \in Chars
  OBVIOUS
<1>2. PICK h \in [0..n -> Seq(Chars)] :
          /\ h[0] = <<>>
          /\ \A i \in 1..n : h[i] = IF StartsAt(ms, i) THEN Append(h[i - 1], Mask)
                                    ELSE IF Covers(ms, i) THEN h[i - 1]
                                    ELSE Append(h[i - 1], s[i])
          /\ maskSpans(s, ms) = h[n]
  BY MaskSteps, Zenon
<1> HIDE DEF n
<1> DEFINE S == {k \in 0..n : \E src : Shows(src, h[k], s, ms, k)}
<1>3. 0 \in S
  <2> DEFINE src == [a \in {} |-> 1]
  <2>1. Shows(src, <<>>, s, ms, 0)
    BY DEF Shows
  <2> HIDE DEF src
  <2> QED
    BY <1>1, <1>2, <2>1
<1>4. ASSUME NEW k \in 0..(n - 1), k \in S PROVE k + 1 \in S
  <2> DEFINE v == h[k]
             w == h[k + 1]
             j == k + 1
  <2>1. v \in Seq(Chars) /\ k \in Nat /\ j \in 1..n /\ j - 1 = k /\ j = k + 1
    BY <1>1, <1>2
  <2>2. PICK src : Shows(src, v, s, ms, k)
    BY <1>4
  <2>3. w = IF StartsAt(ms, j) THEN Append(v, Mask)
            ELSE IF Covers(ms, j) THEN v ELSE Append(v, s[j])
    BY <1>2, <2>1
  <2>4. Mask \in Chars /\ s[j] \in Chars
    BY <1>1, <2>1 DEF Chars
  <2>5. (\A p \in 1..j : p \in 1..k \/ p = j) /\ 1..k \subseteq 1..j
    BY <2>1
  <2>6. Len(v) \in Nat
    BY <2>1
  <2> HIDE DEF v, w, j
  <2>7. ASSUME ~StartsAt(ms, j), Covers(ms, j) PROVE \E g : Shows(g, w, s, ms, j)
    <3>1. w = v
      BY <2>3, <2>7
    <3>2. Shows(src, v, s, ms, j)
      BY <2>2, <2>5, <2>7 DEF Shows
    <3> QED
      BY <3>1, <3>2
  <2>8. ASSUME NEW c \in Chars, w = Append(v, c),
               IF StartsAt(ms, j) THEN c = Mask ELSE ~Covers(ms, j) /\ c = s[j]
        PROVE  \E g : Shows(g, w, s, ms, j)
    <3> DEFINE g == [a \in 1..Len(w) |-> IF a \in 1..Len(v) THEN src[a] ELSE j]
    <3>1. Len(w) = Len(v) + 1 /\ w[Len(v) + 1] = c /\ (\A a \in 1..Len(v) : w[a] = v[a])
      BY <2>1, <2>8
    <3>2. \A a \in 1..Len(w) : a \in 1..Len(v) \/ a = Len(v) + 1
      BY <2>6, <3>1
    <3>3. (\A a \in 1..Len(v) : a \in 1..Len(w) /\ g[a] = src[a])
          /\ Len(v) + 1 \in 1..Len(w) /\ g[Len(v) + 1] = j
      BY <2>6, <3>1
    <3>4. \A a \in 1..Len(v) : src[a] \in 1..k
      BY <2>2 DEF Shows
    <3>5. g \in [1..Len(w) -> 1..j]
      <4>1. ASSUME NEW a \in 1..Len(w) PROVE g[a] \in 1..j
        BY <2>1, <2>5, <3>2, <3>3, <3>4
      <4>2. g = [a \in 1..Len(w) |-> g[a]]
        OBVIOUS
      <4> HIDE DEF g
      <4> QED
        BY <4>1, <4>2
    <3> HIDE DEF g
    <3>6. ASSUME NEW a \in 1..Len(w), NEW b \in 1..Len(w), a < b PROVE g[a] < g[b]
      <4>1. a \in 1..Len(v)
        BY <2>6, <3>1, <3>6
      <4>2. CASE b \in 1..Len(v)
        <5>1. src[a] < src[b]
          BY <2>2, <3>6, <4>1, <4>2 DEF Shows
        <5> QED
          BY <3>3, <4>1, <4>2, <5>1
      <4>3. CASE b = Len(v) + 1
        BY <2>1, <3>3, <3>4, <4>1, <4>3
      <4> QED
        BY <3>2, <4>2, <4>3
    <3>7. ASSUME NEW a \in 1..Len(w)
          PROVE  IF StartsAt(ms, g[a]) THEN w[a] = Mask ELSE ~Covers(ms, g[a]) /\ w[a] = s[g[a]]
      <4>1. CASE a \in 1..Len(v)
        <5>1. w[a] = v[a] /\ g[a] = src[a]
          BY <3>1, <3>3, <4>1
        <5>2. IF StartsAt(ms, src[a]) THEN v[a] = Mask ELSE ~Covers(ms, src[a]) /\ v[a] = s[src[a]]
          BY <2>2, <4>1 DEF Shows
        <5> QED
          BY <5>1, <5>2
      <4>2. CASE a = Len(v) + 1
        BY <2>8, <3>1, <3>3, <4>2
      <4> QED
        BY <3>2, <4>1, <4>2
    <3>8. ASSUME NEW p \in 1..j, StartsAt(ms, p) \/ ~Covers(ms, p)
          PROVE  \E a \in 1..Len(w) : g[a] = p
      <4>1. CASE p \in 1..k
        <5>1. PICK a \in 1..Len(v) : src[a] = p
          BY <2>2, <3>8, <4>1 DEF Shows
        <5> QED
          BY <3>3, <5>1
      <4>2. CASE p = j
        BY <3>3, <4>2
      <4> QED
        BY <2>5, <4>1, <4>2
    <3>9. Shows(g, w, s, ms, j)
      BY <3>5, <3>6, <3>7, <3>8 DEF Shows
    <3> QED
      BY <3>9
  <2>9. \E g : Shows(g, w, s, ms, j)
    <3>1. CASE StartsAt(ms, j)
      BY <2>3, <2>4, <2>8, <3>1
    <3>2. CASE ~StartsAt(ms, j) /\ ~Covers(ms, j)
      BY <2>3, <2>4, <2>8, <3>2
    <3> QED
      BY <2>7, <3>1, <3>2
  <2> QED
    BY <2>1, <2>9 DEF w, j
<1>5. 0..n \subseteq S
  <2> HIDE DEF S
  <2> QED
    BY <1>1, <1>3, <1>4, UpTo
<1>6. n \in 0..n
  BY <1>1
<1>7. n \in S
  <2> HIDE DEF S
  <2> QED
    BY <1>5, <1>6
<1>8. h[n] \in Seq(Chars) /\ \E src : Shows(src, h[n], s, ms, n)
  BY <1>2, <1>6, <1>7
<1> QED
  BY <1>2, <1>8 DEF n

\* A character in the clear, and those next to it that are in the clear too.
Clear(src, out, s, ms, a) ==
  /\ src[a] \in 1..Len(s) /\ out[a] = s[src[a]]
  /\ a + 1 \in 1..Len(out) => src[a + 1] = src[a] + 1
  /\ src[a] + 1 \in 1..Len(s) /\ ~Covers(ms, src[a] + 1) =>
        a + 1 \in 1..Len(out) /\ src[a + 1] = src[a] + 1
  /\ src[a] - 1 \in 1..Len(s) /\ ~Covers(ms, src[a] - 1) =>
        a - 1 \in 1..Len(out) /\ src[a - 1] = src[a] - 1

\* What stands beside a character in view is its neighbour in the text, unless a span hides that.
LEMMA Beside ==
  ASSUME NEW s \in Seq(Chars), NEW ms \in Seq(Spans), NEW out \in Seq(Chars), NEW src,
         \A k \in 1..Len(ms) : ms[k].start < ms[k].end,
         Shows(src, out, s, ms, Len(s)),
         NEW a \in 1..Len(out), ~Covers(ms, src[a])
  PROVE  Clear(src, out, s, ms, a)
<1> DEFINE n == Len(s)
           m == Len(out)
           p == src[a]
<1>1. n \in Nat /\ m \in Nat /\ a \in Int
  OBVIOUS
<1>2. \A k \in 1..Len(ms) : ms[k].start \in Int /\ ms[k].end \in Int
  <2>1. \A k \in 1..Len(ms) : ms[k] \in Spans
    OBVIOUS
  <2> QED
    BY <2>1 DEF Spans
<1>3. /\ \A b \in 1..m : src[b] \in 1..n
      /\ \A b, c \in 1..m : b < c => src[b] < src[c]
      /\ \A b \in 1..m : IF StartsAt(ms, src[b]) THEN out[b] = Mask
                         ELSE ~Covers(ms, src[b]) /\ out[b] = s[src[b]]
      /\ \A q \in 1..n : StartsAt(ms, q) \/ ~Covers(ms, q) => \E b \in 1..m : src[b] = q
  BY DEF Shows
<1>4. DOMAIN ms = 1..Len(ms)
  OBVIOUS
<1>5. \A q \in 1..n : StartsAt(ms, q) => Covers(ms, q)
  BY <1>2, <1>4 DEF StartsAt, Covers
<1>6. p \in 1..n /\ ~StartsAt(ms, p) /\ out[a] = s[p]
  BY <1>3, <1>5
<1> HIDE DEF n, m, p
<1>7. p = src[a] /\ a \in 1..m /\ ~Covers(ms, p)
  BY DEF m, p
<1>8. ASSUME a + 1 \in 1..m PROVE src[a + 1] = p + 1
  <2>1. src[a + 1] \in 1..n /\ p < src[a + 1]
    BY <1>1, <1>3, <1>7, <1>8
  <2>2. ASSUME p + 1 < src[a + 1] PROVE FALSE
    <3>1. p + 1 \in 1..n
      BY <1>1, <1>6, <2>1, <2>2
    <3>2. ASSUME NEW b \in 1..m PROVE src[b] # p + 1
      <4>1. CASE b < a
        <5>1. src[b] < p /\ src[b] \in Int /\ p \in Int
          BY <1>1, <1>3, <1>6, <1>7, <4>1
        <5> QED
          BY <5>1
      <4>2. CASE b = a
        BY <1>6, <1>7, <4>2
      <4>3. CASE b = a + 1
        BY <1>6, <2>1, <2>2, <4>3
      <4>4. CASE b > a + 1
        <5>1. src[a + 1] < src[b] /\ src[b] \in Int
          BY <1>1, <1>3, <1>8, <4>4
        <5> QED
          BY <1>6, <2>1, <2>2, <5>1
      <4> QED
        BY <1>1, <4>1, <4>2, <4>3, <4>4
    <3>3. Covers(ms, p + 1) /\ ~StartsAt(ms, p + 1)
      BY <1>3, <3>1, <3>2
    <3>4. PICK k \in DOMAIN ms : p + 1 \in ms[k].start .. (ms[k].end - 1)
      BY <3>3 DEF Covers
    <3>5. ms[k].start # p + 1 /\ ms[k].start \in Int /\ ms[k].end \in Int
      BY <1>2, <1>4, <3>3 DEF StartsAt
    <3>6. p \in ms[k].start .. (ms[k].end - 1)
      BY <1>6, <3>4, <3>5
    <3> QED
      BY <1>7, <3>6 DEF Covers
  <2> QED
    BY <1>6, <2>1, <2>2
<1>9. ASSUME p + 1 \in 1..n, ~Covers(ms, p + 1) PROVE a + 1 \in 1..m /\ src[a + 1] = p + 1
  <2>1. PICK b \in 1..m : src[b] = p + 1
    BY <1>3, <1>9
  <2>2. a < b
    <3>1. ASSUME b < a PROVE FALSE
      <4>1. src[b] < p
        BY <1>3, <1>7, <3>1
      <4> QED
        BY <1>6, <2>1, <4>1
    <3>2. b # a
      BY <1>6, <1>7, <2>1
    <3> QED
      BY <1>1, <3>1, <3>2
  <2>3. a + 1 \in 1..m
    BY <1>1, <1>7, <2>2
  <2> QED
    BY <1>8, <2>3
<1>10. ASSUME p - 1 \in 1..n, ~Covers(ms, p - 1) PROVE a - 1 \in 1..m /\ src[a - 1] = p - 1
  <2>1. PICK b \in 1..m : src[b] = p - 1
    BY <1>3, <1>10
  <2>2. b < a
    <3>1. ASSUME a < b PROVE FALSE
      <4>1. p < src[b]
        BY <1>3, <1>7, <3>1
      <4> QED
        BY <1>6, <2>1, <4>1
    <3>2. b # a
      BY <1>6, <1>7, <2>1
    <3> QED
      BY <1>1, <3>1, <3>2
  <2>3. ASSUME b < a - 1 PROVE FALSE
    <3>1. a - 1 \in 1..m
      BY <1>1, <1>7, <2>2
    <3>2. src[b] < src[a - 1] /\ src[a - 1] < p /\ src[a - 1] \in Int
      BY <1>1, <1>3, <1>7, <2>3, <3>1
    <3> QED
      BY <1>6, <2>1, <3>2
  <2>4. b = a - 1
    BY <1>1, <2>2, <2>3
  <2> QED
    BY <2>1, <2>4
<1> QED
  BY <1>6, <1>8, <1>9, <1>10 DEF n, m, p, Clear

\* A window of a masked text without a mask stands in the text as it is.
\* A stretch of out that is the stretch of s it comes from, with nothing of ms over it.
Bare(src, out, s, ms, a, m) ==
  \A q \in 0..m : /\ src[a] + q \in 1..Len(s)
                  /\ src[a + q] = src[a] + q
                  /\ ~Covers(ms, src[a] + q)
                  /\ out[a + q] = s[src[a] + q]

\* A stretch of the masked text without a mask is one of the text that no span covers.
LEMMA InTheClear ==
  ASSUME NEW s \in Seq(Chars), NEW ms \in Seq(Spans), NEW out \in Seq(Chars), NEW src,
         \A k \in 1..Len(ms) : ms[k].start < ms[k].end,
         Shows(src, out, s, ms, Len(s)),
         NEW a \in 1..Len(out), NEW m \in Nat, a + m <= Len(out),
         \A q \in 0..m : out[a + q] # Mask
  PROVE  Bare(src, out, s, ms, a, m)
<1> DEFINE p == src[a]
           S == {q \in 0..m : src[a + q] = p + q}
<1>1. a \in Nat /\ Len(out) \in Nat /\ (\A q \in 0..m : a + q \in 1..Len(out)) /\ p \in Int
  <2>1. a \in Nat /\ Len(out) \in Nat
    OBVIOUS
  <2>2. src \in [1..Len(out) -> 1..Len(s)] /\ Len(s) \in Nat
    BY DEF Shows
  <2>3. ASSUME NEW q \in 0..m PROVE a + q \in 1..Len(out)
    BY <2>1
  <2> QED
    BY <2>1, <2>2, <2>3
<1>2. ASSUME NEW q \in 0..m PROVE ~Covers(ms, src[a + q])
  <2>1. a + q \in 1..Len(out) /\ out[a + q] # Mask
    BY <1>1
  <2> DEFINE b == a + q
  <2> HIDE DEF b
  <2>2. b \in 1..Len(out) /\ out[b] # Mask
    BY <2>1 DEF b
  <2>3. ~Covers(ms, src[b])
    BY <2>2 DEF Shows
  <2> QED
    BY <2>3 DEF b
<1> HIDE DEF p
<1>3. 0 \in S
  BY <1>1 DEF p
<1>4. ASSUME NEW q \in 0..(m - 1), q \in S PROVE q + 1 \in S
  <2> DEFINE b == a + q
  <2>1. b \in 1..Len(out) /\ q \in 0..m /\ b + 1 \in 1..Len(out) /\ b + 1 = a + (q + 1)
        /\ q + 1 \in 0..m /\ q \in Int
    <3>1. q \in 0..m /\ q + 1 \in 0..m
      OBVIOUS
    <3>2. a + q \in 1..Len(out) /\ a + (q + 1) \in 1..Len(out)
      BY <1>1, <3>1
    <3> QED
      BY <1>1, <3>1, <3>2
  <2>2. ~Covers(ms, src[b]) /\ src[b] = p + q
    BY <1>2, <1>4, <2>1
  <2> HIDE DEF b
  <2>3. b + 1 \in 1..Len(out) => src[b + 1] = src[b] + 1
    <3>1. b \in 1..Len(out)
      BY <2>1
    <3>2. ~Covers(ms, src[b])
      BY <2>2
    <3>3. Clear(src, out, s, ms, b)
      BY <3>1, <3>2, Beside
    <3> QED
      BY <3>3 DEF Clear
  <2> QED
    BY <1>1, <2>1, <2>2, <2>3
<1>5. 0..m \subseteq S
  <2> HIDE DEF S
  <2> QED
    BY <1>3, <1>4, UpTo
<1> SUFFICES ASSUME NEW q \in 0..m
             PROVE  /\ p + q \in 1..Len(s) /\ src[a + q] = p + q
                    /\ ~Covers(ms, p + q) /\ out[a + q] = s[p + q]
  BY DEF p, Bare
<1> DEFINE b == a + q
<1>6. b \in 1..Len(out) /\ ~Covers(ms, src[b]) /\ src[b] = p + q
  BY <1>1, <1>2, <1>5
<1> HIDE DEF b
<1>7. src[b] \in 1..Len(s) /\ out[b] = s[src[b]]
  BY <1>6, Beside DEF Clear
<1> QED
  BY <1>6, <1>7 DEF b

\* What no detector looks for, and what ends a run.
LEMMA Alphabet ==
  /\ Mask \notin Digits /\ Mask \notin Letters /\ Mask # "X" /\ Mask # "@" /\ Mask # "." /\ Mask # Han
  /\ Mask \notin PassportLetters /\ PassportLetters \cap Digits = {}
  /\ "@" \notin Digits /\ "@" \notin Letters /\ "." \notin Digits /\ "." \notin Letters
<1>1. Digits = {"0", "1", "2", "3", "4", "5", "6", "7", "8", "9"}
  BY DEF Digits, DigitValue
<1> QED
  BY <1>1 DEF Mask, Letters, Han, PassportLetters

\* A window of a text.
LEMMA WindowIs ==
  ASSUME NEW s \in Seq(Chars), NEW i \in Nat, NEW l \in Nat, 1 <= i, i + l <= Len(s) + 1
  PROVE  /\ Window(s, i, l) = [k \in 1..l |-> s[i + k - 1]]
         /\ Window(s, i, l) \in Seq(Chars)
         /\ AllDigits(Window(s, i, l)) <=> \A q \in 0..(l - 1) : s[i + q] \in Digits
<1>1. Window(s, i, l) = [k \in 1..l |-> s[i + k - 1]]
  BY DEF Window
<1>2. \A k \in 1..l : s[i + k - 1] \in Chars
  <2>1. Len(s) \in Nat /\ \A j \in 1..Len(s) : s[j] \in Chars
    OBVIOUS
  <2> QED
    BY <2>1
<1>3. Window(s, i, l) \in Seq(Chars)
  BY <1>1, <1>2
<1>4. AllDigits(Window(s, i, l)) <=> \A k \in 1..l : s[i + k - 1] \in Digits
  BY <1>1 DEF AllDigits
<1>5. (\A k \in 1..l : s[i + k - 1] \in Digits) <=> \A q \in 0..(l - 1) : s[i + q] \in Digits
  <2>1. ASSUME \A k \in 1..l : s[i + k - 1] \in Digits, NEW q \in 0..(l - 1)
        PROVE  s[i + q] \in Digits
    <3>1. q + 1 \in 1..l /\ i + (q + 1) - 1 = i + q
      OBVIOUS
    <3> QED
      BY <2>1, <3>1
  <2>2. ASSUME \A q \in 0..(l - 1) : s[i + q] \in Digits, NEW k \in 1..l
        PROVE  s[i + k - 1] \in Digits
    <3>1. k - 1 \in 0..(l - 1) /\ i + (k - 1) = i + k - 1
      OBVIOUS
    <3> QED
      BY <2>2, <3>1
  <2> QED
    BY <2>1, <2>2
<1> QED
  BY <1>1, <1>3, <1>4, <1>5

\* A text that has, from i on, what another has from a on.
Same(s, i, out, a, m) ==
  \A q \in 0..m : i + q \in 1..Len(s) /\ a + q \in 1..Len(out) /\ out[a + q] = s[i + q]

\* It has the same windows there.
Copied(s, i, out, a, l) ==
  /\ 1 <= i /\ i + l <= Len(s) + 1
  /\ \A m \in 0..l : Window(s, i, m) = Window(out, a, m)
  /\ \A q \in 0..(l - 1) : out[a + q] = s[i + q]

\* The same characters make the same windows.
LEMMA SameWindow ==
  ASSUME NEW s \in Seq(Chars), NEW out \in Seq(Chars), NEW i \in Nat, NEW a \in Nat,
         NEW l \in Nat, l > 0, Same(s, i, out, a, l - 1)
  PROVE  Copied(s, i, out, a, l)
<1>1. Len(s) \in Nat /\ Len(out) \in Nat
  OBVIOUS
<1>2. 0 \in 0..(l - 1) /\ l - 1 \in 0..(l - 1)
  OBVIOUS
<1>3. i + 0 \in 1..Len(s) /\ a + 0 \in 1..Len(out) /\ i + (l - 1) \in 1..Len(s) /\ a + (l - 1) \in 1..Len(out)
  BY <1>2 DEF Same
<1>4. 1 <= i /\ 1 <= a /\ i + l <= Len(s) + 1 /\ a + l <= Len(out) + 1
  BY <1>1, <1>3
<1>5. ASSUME NEW m \in 0..l PROVE Window(s, i, m) = Window(out, a, m)
  <2>1. m \in Nat /\ i + m <= Len(s) + 1 /\ a + m <= Len(out) + 1
    BY <1>1, <1>4
  <2>2. Window(s, i, m) = [k \in 1..m |-> s[i + k - 1]]
    BY <1>4, <2>1, WindowIs
  <2>3. Window(out, a, m) = [k \in 1..m |-> out[a + k - 1]]
    BY <1>4, <2>1, WindowIs
  <2>4. ASSUME NEW k \in 1..m PROVE s[i + k - 1] = out[a + k - 1]
    <3>1. k - 1 \in 0..(l - 1) /\ i + (k - 1) = i + k - 1 /\ a + (k - 1) = a + k - 1
      OBVIOUS
    <3> QED
      BY <3>1 DEF Same
  <2> QED
    BY <2>2, <2>3, <2>4
<1> QED
  BY <1>4, <1>5 DEF Copied, Same

\* A stretch without a mask.
Whole(out, a, m) == a + m <= Len(out) /\ \A q \in 0..m : out[a + q] # Mask

\* A match has no mask in it, and is one in any text that has the same characters.
LEMMA IDCardSame ==
  ASSUME NEW s \in Seq(Chars), NEW out \in Seq(Chars), NEW i \in Nat, NEW a \in Nat, 1 <= a,
         IDCardEnd(out, a) # {}
  PROVE  \E m \in Nat : Whole(out, a, m) /\ (Same(s, i, out, a, m) => IDCardEnd(s, i) # {})
<1> DEFINE l == Len(Weights) + 1
<1>1. l \in Nat /\ l > 0 /\ l - 1 \in Nat
  BY MaskingAssumption DEF MaskingAssumption
<1>2. /\ AllDigits(Window(out, a, l - 1)) /\ a + l <= Len(out) + 1
      /\ out[a + l - 1] \in Digits \cup {"X"}
      /\ validIDCard(Window(out, a, l))
  BY DEF IDCardEnd
<1> HIDE DEF l
<1>3. Whole(out, a, l - 1)
  <2>1. a + (l - 1) <= Len(out) + 1 /\ a + (l - 1) <= Len(out)
    BY <1>1, <1>2
  <2>2. \A q \in 0..((l - 1) - 1) : out[a + q] \in Digits
    BY <1>1, <1>2, <2>1, WindowIs
  <2>3. ASSUME NEW q \in 0..(l - 1) PROVE out[a + q] \in Digits \cup {"X"}
    <3>1. q \in 0..((l - 1) - 1) \/ a + q = a + l - 1
      BY <1>1
    <3> QED
      BY <1>2, <2>2, <3>1
  <2> QED
    BY <2>1, <2>3, Alphabet DEF Whole
<1>4. ASSUME Same(s, i, out, a, l - 1) PROVE i + l \in IDCardEnd(s, i)
  <2>1. Copied(s, i, out, a, l)
    BY <1>1, <1>4, SameWindow
  <2>2. 1 <= i /\ i + l <= Len(s) + 1 /\ \A q \in 0..(l - 1) : out[a + q] = s[i + q]
    BY <2>1 DEF Copied
  <2>3. l \in 0..l /\ l - 1 \in 0..l /\ l - 1 \in 0..(l - 1)
    BY <1>1
  <2>4. Window(s, i, l) = Window(out, a, l) /\ Window(s, i, l - 1) = Window(out, a, l - 1)
    BY <2>1, <2>3 DEF Copied
  <2>5. out[a + (l - 1)] = s[i + (l - 1)] /\ a + (l - 1) = a + l - 1 /\ i + (l - 1) = i + l - 1
    BY <1>1, <2>2, <2>3
  <2> QED
    BY <1>2, <2>2, <2>4, <2>5 DEF IDCardEnd, l
<1> QED
  BY <1>1, <1>3, <1>4

\* So does a bank card: the longest window that passes is then at least this one.
LEMMA LuhnSame ==
  ASSUME NEW s \in Seq(Chars), NEW out \in Seq(Chars), NEW i \in Nat, NEW a \in Nat, 1 <= a,
         LuhnWindow(out, a) # {}
  PROVE  \E m \in Nat : Whole(out, a, m) /\ (Same(s, i, out, a, m) => LuhnWindow(s, i) # {})
<1> DEFINE lengths == {l \in CardMin..CardMax : /\ i + l <= Len(s) + 1
                                               /\ AllDigits(Window(s, i, l))
                                               /\ validLuhn(Window(s, i, l))}
<1>1. PICK l \in CardMin..CardMax : /\ a + l <= Len(out) + 1
                                    /\ AllDigits(Window(out, a, l))
                                    /\ validLuhn(Window(out, a, l))
  BY DEF LuhnWindow
<1>2. l \in Nat /\ l > 0 /\ l - 1 \in Nat /\ CardMin \in Int /\ CardMax \in Int
  BY MaskingAssumption DEF MaskingAssumption
<1>3. Whole(out, a, l - 1)
  <2>1. a + (l - 1) <= Len(out)
    BY <1>1, <1>2
  <2>2. \A q \in 0..(l - 1) : out[a + q] \in Digits
    BY <1>1, <1>2, WindowIs
  <2> QED
    BY <2>1, <2>2, Alphabet DEF Whole
<1>4. ASSUME Same(s, i, out, a, l - 1) PROVE LuhnWindow(s, i) # {}
  <2>1. Copied(s, i, out, a, l)
    BY <1>2, <1>4, SameWindow
  <2>2. l \in 0..l
    BY <1>2
  <2>3. i + l <= Len(s) + 1 /\ Window(s, i, l) = Window(out, a, l)
    BY <2>1, <2>2 DEF Copied
  <2>4. l \in lengths
    BY <1>1, <2>3
  <2>5. lengths \subseteq Int /\ (\A k \in lengths : k <= CardMax) /\ lengths # {} /\ CardMax \in Int
    BY <1>2, <2>4
  <2>6. LuhnWindow(s, i) = {i + k : k \in {k \in lengths : \A m \in lengths : m <= k}}
    BY DEF LuhnWindow
  <2> HIDE DEF lengths
  <2>7. PICK k \in lengths : \A m \in lengths : m <= k
    BY <2>5, Greatest
  <2> QED
    BY <2>6, <2>7
<1> QED
  BY <1>2, <1>3, <1>4

\* So does a phone number.
LEMMA PhoneSame ==
  ASSUME NEW s \in Seq(Chars), NEW out \in Seq(Chars), NEW i \in Nat, NEW a \in Nat, 1 <= a,
         PhoneEnd(out, a) # {}
  PROVE  \E m \in Nat : Whole(out, a, m) /\ (Same(s, i, out, a, m) => PhoneEnd(s, i) # {})
<1> DEFINE l == PhoneLength
<1>1. l \in Nat /\ l > 0 /\ l - 1 \in Nat /\ 0 \in 0..(l - 1) /\ 1 \in 0..(l - 1) /\ l \in 0..l
  BY MaskingAssumption DEF MaskingAssumption
<1>2. /\ AllDigits(Window(out, a, l)) /\ a + l <= Len(out) + 1
      /\ out[a] = "1" /\ DigitValue[out[a + 1]] >= 3
  BY DEF PhoneEnd
<1>3. Whole(out, a, l - 1)
  <2>1. a + (l - 1) <= Len(out)
    BY <1>1, <1>2
  <2>2. \A q \in 0..(l - 1) : out[a + q] \in Digits
    BY <1>1, <1>2, WindowIs
  <2> QED
    BY <2>1, <2>2, Alphabet DEF Whole
<1>4. ASSUME Same(s, i, out, a, l - 1) PROVE i + l \in PhoneEnd(s, i)
  <2>1. Copied(s, i, out, a, l)
    BY <1>1, <1>4, SameWindow
  <2>2. i + l <= Len(s) + 1 /\ Window(s, i, l) = Window(out, a, l)
    BY <1>1, <2>1 DEF Copied
  <2>3. out[a] = s[i] /\ out[a + 1] = s[i + 1]
    <3>1. \A q \in 0..(l - 1) : out[a + q] = s[i + q]
      BY <2>1 DEF Copied
    <3>2. a + 0 = a /\ i + 0 = i
      OBVIOUS
    <3> QED
      BY <1>1, <3>1, <3>2
  <2> QED
    BY <1>2, <2>2, <2>3 DEF PhoneEnd
<1> QED
  BY <1>1, <1>3, <1>4

\* So does a plate.
LEMMA PlateSame ==
  ASSUME NEW s \in Seq(Chars), NEW out \in Seq(Chars), NEW i \in Nat, NEW a \in Nat, 1 <= a,
         PlateEnd(out, a) # {}
  PROVE  \E m \in Nat : Whole(out, a, m) /\ (Same(s, i, out, a, m) => PlateEnd(s, i) # {})
<1> DEFINE e == a + 2 + PlateTail
           m == 1 + PlateTail
<1>0. PlateTail \in Nat /\ PlateTail > 0
  BY MaskingAssumption DEF MaskingAssumption
<1>1. PlateTail \in Nat /\ m \in Nat /\ e \in Nat /\ e = a + m + 1 /\ m > 0
  BY <1>0
<1>2. /\ e <= Len(out) + 1 /\ out[a] = Han /\ out[a + 1] \in Letters
      /\ \A k \in (a + 2)..(e - 1) : IsAlnum(out[k])
  BY DEF PlateEnd
<1> HIDE DEF e
<1>3. Whole(out, a, m)
  <2>1. a + m <= Len(out)
    BY <1>1, <1>2
  <2>2. ASSUME NEW q \in 0..m PROVE out[a + q] # Mask
    <3>1. q = 0 \/ q = 1 \/ a + q \in (a + 2)..(e - 1)
      BY <1>1
    <3>2. a + 0 = a
      OBVIOUS
    <3> QED
      BY <1>2, <3>1, <3>2, Alphabet DEF IsAlnum
  <2> QED
    BY <2>1, <2>2 DEF Whole
<1> DEFINE f == i + 2 + PlateTail
<1>4. ASSUME Same(s, i, out, a, m) PROVE f \in PlateEnd(s, i)
  <2>1. \A q \in 0..m : i + q \in 1..Len(s) /\ out[a + q] = s[i + q]
    BY <1>4 DEF Same
  <2>2. 0 \in 0..m /\ 1 \in 0..m /\ m \in 0..m
    BY <1>1
  <2>3. s[i] = Han /\ s[i + 1] \in Letters
    <3>1. a + 0 = a /\ i + 0 = i
      OBVIOUS
    <3> QED
      BY <1>2, <2>1, <2>2, <3>1
  <2>4. f <= Len(s) + 1
    <3>1. i + m \in 1..Len(s)
      BY <2>1, <2>2
    <3> QED
      BY <1>0, <3>1
  <2>5. ASSUME NEW k \in (i + 2)..(f - 1) PROVE IsAlnum(s[k])
    <3>1. k - i \in 0..m /\ a + (k - i) \in (a + 2)..(e - 1) /\ i + (k - i) = k
      BY <1>1 DEF e
    <3> QED
      BY <1>2, <2>1, <3>1
  <2>6. PlateEnd(s, i) = {x \in {f} : /\ x <= Len(s) + 1
                                     /\ s[i] = Han /\ s[i + 1] \in Letters
                                     /\ \A k \in (i + 2)..(x - 1) : IsAlnum(s[k])}
    BY DEF PlateEnd
  <2> HIDE DEF f
  <2> QED
    BY <2>3, <2>4, <2>5, <2>6
<1> QED
  BY <1>1, <1>3, <1>4

\* So does a passport, and it ends as far from its start.
LEMMA PassportSame ==
  ASSUME NEW s \in Seq(Chars), NEW out \in Seq(Chars), NEW i \in Nat, NEW a \in Nat, 1 <= a,
         PassportEnd(out, a) # {}
  PROVE  /\ Whole(out, a, PassportDigits)
         /\ Same(s, i, out, a, PassportDigits) => i + 1 + PassportDigits \in PassportEnd(s, i)
<1> DEFINE l == PassportDigits
<1>1. l \in Nat /\ l > 0 /\ 0 \in 0..l
  BY MaskingAssumption DEF MaskingAssumption
<1>2. PICK e \in {a + 1 + l} : /\ e <= Len(out) + 1 /\ out[a] \in PassportLetters
                               /\ AllDigits(SubSeq(out, a + 1, e - 1))
  BY DEF PassportEnd
<1>3. AllDigits(Window(out, a + 1, l))
  <2>1. e - 1 = (a + 1) + l - 1
    BY <1>1, <1>2
  <2> QED
    BY <1>2, <2>1 DEF Window
<1>4. \A q \in 0..(l - 1) : out[a + 1 + q] \in Digits
  <2>1. a + 1 \in Nat /\ 1 <= a + 1 /\ (a + 1) + l <= Len(out) + 1
    BY <1>2
  <2>2. AllDigits(Window(out, a + 1, l)) <=> \A q \in 0..(l - 1) : out[(a + 1) + q] \in Digits
    BY <1>1, <2>1, WindowIs
  <2> QED
    BY <1>3, <2>2
<1>5. Whole(out, a, l)
  <2>1. ASSUME NEW q \in 0..l PROVE out[a + q] # Mask
    <3>1. a + 0 = a /\ (q = 0 \/ (q - 1 \in 0..(l - 1) /\ a + 1 + (q - 1) = a + q))
      BY <1>1
    <3> QED
      BY <1>2, <1>4, <3>1, Alphabet
  <2> QED
    BY <1>1, <1>2, <2>1 DEF Whole
<1>6. ASSUME Same(s, i, out, a, l) PROVE i + 1 + l \in PassportEnd(s, i)
  <2>1. \A q \in 0..l : i + q \in 1..Len(s) /\ out[a + q] = s[i + q]
    BY <1>6 DEF Same
  <2>2. i + 1 + l <= Len(s) + 1 /\ l \in 0..l
    BY <1>1, <2>1
  <2>3. s[i] \in PassportLetters
    <3>1. a + 0 = a /\ i + 0 = i
      OBVIOUS
    <3> QED
      BY <1>1, <1>2, <2>1, <3>1
  <2>4. \A q \in 0..(l - 1) : s[i + 1 + q] \in Digits
    <3> SUFFICES ASSUME NEW q \in 0..(l - 1) PROVE s[i + 1 + q] \in Digits
      OBVIOUS
    <3>1. q + 1 \in 0..l /\ a + (q + 1) = a + 1 + q /\ i + (q + 1) = i + 1 + q
      BY <1>1
    <3> QED
      BY <1>4, <2>1, <3>1
  <2>5. AllDigits(Window(s, i + 1, l))
    <3>1. i + 1 \in Nat /\ 1 <= i + 1 /\ (i + 1) + l <= Len(s) + 1
      BY <2>2
    <3>2. AllDigits(Window(s, i + 1, l)) <=> \A q \in 0..(l - 1) : s[(i + 1) + q] \in Digits
      BY <1>1, <3>1, WindowIs
    <3> QED
      BY <2>4, <3>2
  <2> DEFINE f == i + 1 + l
  <2>6. AllDigits(SubSeq(s, i + 1, f - 1))
    <3>1. f - 1 = (i + 1) + l - 1
      BY <1>1
    <3> HIDE DEF f
    <3> QED
      BY <2>5, <3>1 DEF Window
  <2>7. PassportEnd(s, i) = {x \in {f} : /\ x <= Len(s) + 1 /\ s[i] \in PassportLetters
                                        /\ AllDigits(SubSeq(s, i + 1, x - 1))}
    BY DEF PassportEnd
  <2>8. f <= Len(s) + 1
    BY <2>2
  <2> HIDE DEF f
  <2>9. f \in PassportEnd(s, i)
    BY <2>3, <2>6, <2>7, <2>8
  <2> QED
    BY <2>9 DEF f
<1> QED
  BY <1>5, <1>6

\* Where a run ends.
LEMMA RunFacts ==
  ASSUME NEW s \in Seq(Chars), NEW from \in Nat, NEW cs
  PROVE  /\ RunEnd(s, from, cs) \in Nat
         /\ RunEnd(s, from, cs) <= Len(s) + 1
         /\ RunEnd(s, from, cs) <= Len(s) => from <= RunEnd(s, from, cs) /\ s[RunEnd(s, from, cs)] \notin cs
         /\ \A k \in from..Len(s) : k < RunEnd(s, from, cs) => s[k] \in cs
<1> DEFINE breaks == {k \in from..Len(s) : s[k] \notin cs}
           r == RunEnd(s, from, cs)
<1>1. r = IF breaks = {} THEN Len(s) + 1 ELSE CHOOSE b \in breaks : \A k \in breaks : b <= k
  BY DEF RunEnd
<1>2. Len(s) \in Nat /\ breaks \subseteq Nat
  OBVIOUS
<1>3. CASE breaks = {}
  <2>1. r = Len(s) + 1 /\ \A k \in from..Len(s) : s[k] \in cs
    BY <1>1, <1>3
  <2> HIDE DEF r
  <2>2. r \in Nat /\ r <= Len(s) + 1 /\ ~(r <= Len(s)) /\ \A k \in from..Len(s) : s[k] \in cs
    BY <1>2, <2>1
  <2> QED
    BY <2>2 DEF r
<1>4. CASE breaks # {}
  <2>1. \E b \in breaks : \A k \in breaks : b <= k
    <3> HIDE DEF breaks
    <3> QED
      BY <1>2, <1>4, Least
  <2>2. r \in breaks /\ \A k \in breaks : r <= k
    BY <1>1, <1>4, <2>1
  <2> HIDE DEF r
  <2>3. r \in from..Len(s) /\ s[r] \notin cs
    BY <2>2
  <2>4. ASSUME NEW k \in from..Len(s), k < r PROVE s[k] \in cs
    BY <1>2, <2>2, <2>3, <2>4
  <2>5. r \in Nat /\ r <= Len(s) + 1 /\ from <= r
    BY <1>2, <2>3
  <2> QED
    BY <2>3, <2>4, <2>5 DEF r
<1> QED
  BY <1>3, <1>4

\* What ends a run is the first character that is not of it.
LEMMA RunIs ==
  ASSUME NEW s \in Seq(Chars), NEW from \in Nat, NEW cs, NEW r \in Nat,
         from <= r, r <= Len(s), s[r] \notin cs, \A k \in from..(r - 1) : s[k] \in cs
  PROVE  RunEnd(s, from, cs) = r
<1> DEFINE e == RunEnd(s, from, cs)
<1>1. /\ e \in Nat /\ Len(s) \in Nat
      /\ e <= Len(s) => from <= e /\ s[e] \notin cs
      /\ \A k \in from..Len(s) : k < e => s[k] \in cs
  BY RunFacts
<1> HIDE DEF e
<1>2. ~(r < e)
  BY <1>1
<1>3. ASSUME e < r PROVE FALSE
  <2>1. e \in from..(r - 1) /\ s[e] \notin cs
    BY <1>1, <1>3
  <2> QED
    BY <2>1
<1>4. e = r
  BY <1>1, <1>2, <1>3
<1> QED
  BY <1>4 DEF e

\* What an address looks like: a name, "@", a domain, "." and more.
Address(s, i, at, dot) ==
  /\ i < at /\ at + 2 <= dot /\ dot < Len(s)
  /\ s[at] = "@" /\ s[dot] = "."
  /\ \A k \in i..(at - 1) : s[k] \in Digits \cup Letters \cup {"."}
  /\ \A k \in (at + 1)..(dot - 1) : s[k] \in Digits \cup Letters
  /\ s[dot + 1] \in Digits \cup Letters \cup {"."}

\* An e-mail match is an address.
LEMMA EmailFacts ==
  ASSUME NEW s \in Seq(Chars), NEW i \in Nat, EmailEnd(s, i) # {}
  PROVE  \E at, dot \in Nat : Address(s, i, at, dot)
<1> DEFINE A == Digits \cup Letters
           at == RunEnd(s, i, A \cup {"."})
           dot == RunEnd(s, at + 1, A)
           end == RunEnd(s, dot + 1, A \cup {"."})
<1>1. /\ at \in (i + 1)..Len(s) /\ s[at] = "@"
      /\ dot \in (at + 2)..Len(s) /\ s[dot] = "."
      /\ end > dot + 1
  BY DEF EmailEnd
<1> HIDE DEF A
<1>2. at \in Nat /\ (\A k \in i..Len(s) : k < at => s[k] \in A \cup {"."})
  BY RunFacts
<1> HIDE DEF at
<1>3. dot \in Nat /\ (\A k \in (at + 1)..Len(s) : k < dot => s[k] \in A)
  <2>1. at + 1 \in Nat
    BY <1>2
  <2> QED
    BY <2>1, RunFacts
<1> HIDE DEF dot
<1>4. /\ end \in Nat /\ end <= Len(s) + 1
      /\ \A k \in (dot + 1)..Len(s) : k < end => s[k] \in A \cup {"."}
  <2>1. dot + 1 \in Nat
    BY <1>3
  <2> QED
    BY <2>1, RunFacts
<1> HIDE DEF end
<1>5. Len(s) \in Nat
  OBVIOUS
<1>6. dot < Len(s) /\ s[dot + 1] \in A \cup {"."}
  BY <1>1, <1>3, <1>4, <1>5
<1>7. \A k \in i..(at - 1) : s[k] \in A \cup {"."}
  BY <1>1, <1>2, <1>5
<1>8. \A k \in (at + 1)..(dot - 1) : s[k] \in A
  BY <1>1, <1>2, <1>3, <1>5
<1>9. i < at /\ at + 2 <= dot
  BY <1>1, <1>2, <1>3, <1>5
<1> QED
  BY <1>1, <1>2, <1>3, <1>6, <1>7, <1>8, <1>9 DEF Address, A

\* Where an address stands an e-mail matches.
LEMMA EmailHas ==
  ASSUME NEW s \in Seq(Chars), NEW i \in Nat, NEW at \in Nat, NEW dot \in Nat,
         Address(s, i, at, dot)
  PROVE  EmailEnd(s, i) # {}
<1> DEFINE A == Digits \cup Letters
           end == RunEnd(s, dot + 1, A \cup {"."})
<1>0. Len(s) \in Nat /\ at + 1 \in Nat /\ dot + 1 \in Nat
  OBVIOUS
<1>1. /\ i < at /\ at + 2 <= dot /\ dot < Len(s)
      /\ s[at] = "@" /\ s[dot] = "."
      /\ \A k \in i..(at - 1) : s[k] \in A \cup {"."}
      /\ \A k \in (at + 1)..(dot - 1) : s[k] \in A
      /\ s[dot + 1] \in A \cup {"."}
  BY DEF Address
<1>2. "@" \notin A \cup {"."} /\ "." \notin A
  BY Alphabet
<1> HIDE DEF A
<1>3. RunEnd(s, i, A \cup {"."}) = at
  <2>1. s[at] \notin A \cup {"."} /\ i <= at /\ at <= Len(s)
    BY <1>0, <1>1, <1>2
  <2> QED
    BY <1>1, <2>1, RunIs
<1>4. RunEnd(s, at + 1, A) = dot
  <2>1. s[dot] \notin A /\ at + 1 <= dot /\ dot <= Len(s)
    BY <1>0, <1>1, <1>2
  <2> QED
    BY <1>0, <1>1, <2>1, RunIs
<1>5. end \in Nat /\ end > dot + 1
  <2>1. /\ end \in Nat /\ end <= Len(s) + 1
        /\ end <= Len(s) => dot + 1 <= end /\ s[end] \notin A \cup {"."}
    BY <1>0, RunFacts
  <2> HIDE DEF end
  <2>2. ~(end <= dot + 1)
    BY <1>0, <1>1, <2>1
  <2> QED
    BY <2>1, <2>2
<1>6. EmailEnd(s, i) = {e \in {end} : /\ at \in (i + 1)..Len(s) /\ s[at] = "@"
                                      /\ dot \in (at + 2)..Len(s) /\ s[dot] = "."
                                      /\ e > dot + 1}
  BY <1>3, <1>4 DEF EmailEnd, A
<1> HIDE DEF end
<1>7. at \in (i + 1)..Len(s) /\ dot \in (at + 2)..Len(s)
  BY <1>0, <1>1
<1> QED
  BY <1>1, <1>5, <1>6, <1>7

\* An e-mail address stays one in a text that has the same characters.
LEMMA EmailSame ==
  ASSUME NEW s \in Seq(Chars), NEW out \in Seq(Chars), NEW i \in Nat, NEW a \in Nat, 1 <= a,
         EmailEnd(out, a) # {}
  PROVE  \E m \in Nat : Whole(out, a, m) /\ (Same(s, i, out, a, m) => EmailEnd(s, i) # {})
<1> DEFINE A == Digits \cup Letters
<1>1. PICK at \in Nat, dot \in Nat : Address(out, a, at, dot)
  BY EmailFacts
<1> DEFINE m == (dot + 1) - a
<1>2. /\ a < at /\ at + 2 <= dot /\ dot < Len(out)
      /\ out[at] = "@" /\ out[dot] = "."
      /\ \A k \in a..(at - 1) : out[k] \in A \cup {"."}
      /\ \A k \in (at + 1)..(dot - 1) : out[k] \in A
      /\ out[dot + 1] \in A \cup {"."}
  BY <1>1 DEF Address
<1>3. m \in Nat /\ a + m = dot + 1 /\ Len(out) \in Nat
  BY <1>2
<1> HIDE DEF A
<1>4. Whole(out, a, m)
  <2>1. Mask \notin A \cup {"."} /\ Mask # "@" /\ Mask # "."
    BY Alphabet DEF A
  <2>2. ASSUME NEW q \in 0..m PROVE out[a + q] # Mask
    <3> DEFINE k == a + q
    <3>1. k \in Nat /\ (k \in a..(at - 1) \/ k = at \/ k \in (at + 1)..(dot - 1) \/ k = dot \/ k = dot + 1)
      BY <1>2, <1>3
    <3> HIDE DEF k
    <3> QED
      BY <1>2, <2>1, <3>1 DEF k
  <2>3. a + m <= Len(out)
    BY <1>2, <1>3
  <2> QED
    BY <2>2, <2>3 DEF Whole
<1>5. ASSUME Same(s, i, out, a, m) PROVE EmailEnd(s, i) # {}
  <2> DEFINE t == i + (at - a)
             d == i + (dot - a)
  <2>1. ASSUME NEW k \in a..(dot + 1)
        PROVE  i + (k - a) \in 1..Len(s) /\ s[i + (k - a)] = out[k]
    <3>1. k - a \in 0..m /\ a + (k - a) = k
      BY <1>2, <1>3
    <3> QED
      BY <1>5, <3>1 DEF Same
  <2>2. t \in Nat /\ d \in Nat /\ i < t /\ t + 2 <= d
    BY <1>2
  <2>3. s[t] = "@" /\ s[d] = "." /\ s[d + 1] \in A \cup {"."} /\ d < Len(s)
    <3>1. at \in a..(dot + 1) /\ dot \in a..(dot + 1) /\ dot + 1 \in a..(dot + 1)
      BY <1>2
    <3>2. i + ((dot + 1) - a) = d + 1
      OBVIOUS
    <3>3. d + 1 \in 1..Len(s) /\ s[d + 1] = out[dot + 1]
      BY <2>1, <3>1, <3>2
    <3>4. s[t] = out[at] /\ s[d] = out[dot]
      BY <2>1, <3>1
    <3>5. d < Len(s)
      BY <2>2, <3>3
    <3> HIDE DEF t, d
    <3> QED
      BY <1>2, <3>3, <3>4, <3>5
  <2>4. ASSUME NEW k \in i..(t - 1) PROVE s[k] \in A \cup {"."}
    <3>1. a + (k - i) \in a..(dot + 1) /\ a + (k - i) \in a..(at - 1) /\ i + ((a + (k - i)) - a) = k
      BY <1>2
    <3> QED
      BY <1>2, <2>1, <3>1
  <2>5. ASSUME NEW k \in (t + 1)..(d - 1) PROVE s[k] \in A
    <3>1. a + (k - i) \in a..(dot + 1) /\ a + (k - i) \in (at + 1)..(dot - 1)
          /\ i + ((a + (k - i)) - a) = k
      BY <1>2, <2>2
    <3> QED
      BY <1>2, <2>1, <3>1
  <2> HIDE DEF t, d
  <2>6. Address(s, i, t, d)
    BY <2>2, <2>3, <2>4, <2>5 DEF Address, A
  <2> QED
    BY <2>2, <2>6, EmailHas
<1> QED
  BY <1>3, <1>4, <1>5

\* What a sequence holds is what stands at its positions.
LEMMA ToSetIs ==
  ASSUME NEW S, NEW q \in Seq(S)
  PROVE  ToSet(q) \subseteq S /\ \A x : x \in ToSet(q) <=> \E i \in 1..Len(q) : q[i] = x
<1>1. DOMAIN q = 1..Len(q) /\ \A i \in 1..Len(q) : q[i] \in S
  OBVIOUS
<1> QED
  BY <1>1 DEF ToSet

\* A concatenation holds what either sequence does.
LEMMA ToSetConcat ==
  ASSUME NEW S, NEW q \in Seq(S), NEW r \in Seq(S)
  PROVE  q \o r \in Seq(S) /\ \A x : x \in ToSet(q \o r) <=> x \in ToSet(q) \/ x \in ToSet(r)
<1>1. /\ q \o r \in Seq(S) /\ Len(q \o r) = Len(q) + Len(r) /\ Len(q) \in Nat /\ Len(r) \in Nat
      /\ \A i \in 1..Len(q) : (q \o r)[i] = q[i]
      /\ \A i \in 1..Len(r) : (q \o r)[Len(q) + i] = r[i]
  OBVIOUS
<1>2. ASSUME NEW x, x \in ToSet(q \o r) PROVE x \in ToSet(q) \/ x \in ToSet(r)
  <2>1. PICK i \in 1..Len(q \o r) : (q \o r)[i] = x
    BY <1>1, <1>2, ToSetIs
  <2>2. CASE i \in 1..Len(q)
    <3>1. q[i] = x
      BY <1>1, <2>1, <2>2
    <3> QED
      BY <2>2, <3>1, ToSetIs
  <2>3. CASE i \notin 1..Len(q)
    <3>1. i - Len(q) \in 1..Len(r) /\ Len(q) + (i - Len(q)) = i
      BY <1>1, <2>3
    <3>2. r[i - Len(q)] = x
      BY <1>1, <2>1, <3>1
    <3> QED
      BY <3>1, <3>2, ToSetIs
  <2> QED
    BY <2>2, <2>3
<1>3. ASSUME NEW x, x \in ToSet(q) PROVE x \in ToSet(q \o r)
  <2>1. PICK i \in 1..Len(q) : q[i] = x
    BY <1>3, ToSetIs
  <2>2. i \in 1..Len(q \o r) /\ (q \o r)[i] = x
    BY <1>1, <2>1
  <2> QED
    BY <1>1, <2>2, ToSetIs
<1>4. ASSUME NEW x, x \in ToSet(r) PROVE x \in ToSet(q \o r)
  <2>1. PICK i \in 1..Len(r) : r[i] = x
    BY <1>4, ToSetIs
  <2>2. Len(q) + i \in 1..Len(q \o r) /\ (q \o r)[Len(q) + i] = x
    BY <1>1, <2>1
  <2> QED
    BY <1>1, <2>2, ToSetIs
<1> QED
  BY <1>1, <1>2, <1>3, <1>4

\* At most one match, of a start and an end.
Fine(q, i, ends) ==
    /\ q \in Seq(Spans) /\ (q = <<>> <=> ends = {})
    /\ \/ q = <<>>
       \/ \E m \in Spans : q = <<m>> /\ m.start = i /\ m.end > i /\ m.end \in ends

\* A span is made of an end, when there is one.
LEMMA SpanFacts ==
  ASSUME NEW i \in Nat, NEW name \in Detectors, NEW conf \in {"high", "heuristic"},
         NEW ends, ends \subseteq Int, \A e \in ends : e > i
  PROVE  Fine(Span(name, conf, i, ends), i, ends)
<1>1. CASE ends = {}
  BY <1>1 DEF Span, Fine
<1>2. CASE ends # {}
  <2> DEFINE e == CHOOSE e \in ends : TRUE
             m == [name |-> name, conf |-> conf, start |-> i, end |-> e]
  <2>1. e \in ends
    BY <1>2
  <2>2. Span(name, conf, i, ends) = <<m>>
    BY <1>2 DEF Span
  <2> HIDE DEF e
  <2>3. m \in Spans /\ m.start = i /\ m.end = e
    BY <2>1 DEF Spans
  <2> HIDE DEF m
  <2> QED
    BY <1>2, <2>1, <2>2, <2>3 DEF Fine
<1> QED
  BY <1>1, <1>2

\* Every match ends after its start.
LEMMA Ends ==
  ASSUME NEW s \in Seq(Chars), NEW i \in 1..Len(s)
  PROVE  /\ IDCardEnd(s, i) \subseteq Int /\ \A e \in IDCardEnd(s, i) : e > i
         /\ LuhnWindow(s, i) \subseteq Int /\ \A e \in LuhnWindow(s, i) : e > i
         /\ PhoneEnd(s, i) \subseteq Int /\ \A e \in PhoneEnd(s, i) : e > i
         /\ EmailEnd(s, i) \subseteq Int /\ \A e \in EmailEnd(s, i) : e > i
         /\ PassportEnd(s, i) \subseteq Int /\ \A e \in PassportEnd(s, i) : e > i
         /\ PlateEnd(s, i) \subseteq Int /\ \A e \in PlateEnd(s, i) : e > i
<1>0. i \in Nat /\ Len(s) \in Nat
  OBVIOUS
<1>1. {CardMin, CardMax, PassportDigits, PlateTail} \subseteq Nat \ {0}
      /\ PhoneLength \in Nat \ {0} /\ Len(Weights) \in Nat
  BY MaskingAssumption DEF MaskingAssumption
<1>2. IDCardEnd(s, i) \subseteq Int /\ \A e \in IDCardEnd(s, i) : e > i
  <2>1. IDCardEnd(s, i) \subseteq {i + (Len(Weights) + 1)}
    BY DEF IDCardEnd
  <2> QED
    BY <1>0, <1>1, <2>1
<1>3. LuhnWindow(s, i) \subseteq Int /\ \A e \in LuhnWindow(s, i) : e > i
  <2>1. \A e \in LuhnWindow(s, i) : \E l \in CardMin..CardMax : e = i + l
    BY DEF LuhnWindow
  <2>2. \A l \in CardMin..CardMax : l \in Int /\ l > 0
    BY <1>1
  <2> QED
    BY <1>0, <2>1, <2>2
<1>4. PhoneEnd(s, i) \subseteq Int /\ \A e \in PhoneEnd(s, i) : e > i
  <2>1. PhoneEnd(s, i) \subseteq {i + PhoneLength}
    BY DEF PhoneEnd
  <2> QED
    BY <1>0, <1>1, <2>1
<1>5. PassportEnd(s, i) \subseteq Int /\ \A e \in PassportEnd(s, i) : e > i
  <2>1. PassportEnd(s, i) \subseteq {i + 1 + PassportDigits}
    BY DEF PassportEnd
  <2> QED
    BY <1>0, <1>1, <2>1
<1>6. PlateEnd(s, i) \subseteq Int /\ \A e \in PlateEnd(s, i) : e > i
  <2>1. PlateEnd(s, i) \subseteq {i + 2 + PlateTail}
    BY DEF PlateEnd
  <2> QED
    BY <1>0, <1>1, <2>1
<1>7. EmailEnd(s, i) \subseteq Int /\ \A e \in EmailEnd(s, i) : e > i
  <2> SUFFICES ASSUME NEW e \in EmailEnd(s, i) PROVE e \in Int /\ e > i
    OBVIOUS
  <2> DEFINE at == RunEnd(s, i, Digits \cup Letters \cup {"."})
             dot == RunEnd(s, at + 1, Digits \cup Letters)
             end == RunEnd(s, dot + 1, Digits \cup Letters \cup {"."})
  <2>1. e = end /\ at \in (i + 1)..Len(s) /\ dot \in (at + 2)..Len(s) /\ e > dot + 1
    BY DEF EmailEnd
  <2>2. at \in Nat
    BY <1>0, RunFacts
  <2>3. dot \in Nat
    <3> HIDE DEF at
    <3>1. at + 1 \in Nat
      BY <2>2
    <3> QED
      BY <3>1, RunFacts
  <2>4. end \in Nat
    <3> HIDE DEF dot
    <3>1. dot + 1 \in Nat
      BY <2>3
    <3> QED
      BY <3>1, RunFacts
  <2> HIDE DEF at, dot, end
  <2> QED
    BY <1>0, <2>1, <2>2, <2>3, <2>4
<1> QED
  BY <1>2, <1>3, <1>4, <1>5, <1>6, <1>7

\* What each pattern but the numeric one finds at a place.
EmailAt(s) == [i \in DOMAIN s |-> Span("email", "high", i, EmailEnd(s, i))]
PassportAt(s) == [i \in DOMAIN s |-> Span("passport", "heuristic", i, PassportEnd(s, i))]
PlateAt(s) == [i \in DOMAIN s |-> Span("plate", "heuristic", i, PlateEnd(s, i))]

\* The numeric pattern takes its end from the first class that has one.
NumberEnds(s, i) ==
    IF IDCardEnd(s, i) # {} THEN IDCardEnd(s, i)
    ELSE IF LuhnWindow(s, i) # {} THEN LuhnWindow(s, i) ELSE PhoneEnd(s, i)

\* What a pattern finds at i is the detector's end there.
LEMMA PatternAt ==
  ASSUME NEW s \in Seq(Chars), NEW i \in 1..Len(s)
  PROVE  /\ Fine(Numbers(s)[i], i, NumberEnds(s, i)) /\ Fine(EmailAt(s)[i], i, EmailEnd(s, i))
         /\ Fine(PassportAt(s)[i], i, PassportEnd(s, i)) /\ Fine(PlateAt(s)[i], i, PlateEnd(s, i))
<1>1. i \in DOMAIN s /\ i \in Nat
  OBVIOUS
<1>2. {"id_card", "bank_card", "phone", "email", "passport", "plate"} \subseteq Detectors
  BY DEF Detectors
<1>3. /\ IDCardEnd(s, i) \subseteq Int /\ \A e \in IDCardEnd(s, i) : e > i
      /\ LuhnWindow(s, i) \subseteq Int /\ \A e \in LuhnWindow(s, i) : e > i
      /\ PhoneEnd(s, i) \subseteq Int /\ \A e \in PhoneEnd(s, i) : e > i
      /\ EmailEnd(s, i) \subseteq Int /\ \A e \in EmailEnd(s, i) : e > i
      /\ PassportEnd(s, i) \subseteq Int /\ \A e \in PassportEnd(s, i) : e > i
      /\ PlateEnd(s, i) \subseteq Int /\ \A e \in PlateEnd(s, i) : e > i
  BY Ends
<1>4. Fine(EmailAt(s)[i], i, EmailEnd(s, i))
  <2>1. EmailAt(s)[i] = Span("email", "high", i, EmailEnd(s, i))
    BY <1>1 DEF EmailAt
  <2> QED
    BY <1>1, <1>2, <1>3, <2>1, SpanFacts
<1>5. Fine(PassportAt(s)[i], i, PassportEnd(s, i))
  <2>1. PassportAt(s)[i] = Span("passport", "heuristic", i, PassportEnd(s, i))
    BY <1>1 DEF PassportAt
  <2> QED
    BY <1>1, <1>2, <1>3, <2>1, SpanFacts
<1>6. Fine(PlateAt(s)[i], i, PlateEnd(s, i))
  <2>1. PlateAt(s)[i] = Span("plate", "heuristic", i, PlateEnd(s, i))
    BY <1>1 DEF PlateAt
  <2> QED
    BY <1>1, <1>2, <1>3, <2>1, SpanFacts
<1>7. Fine(Numbers(s)[i], i, NumberEnds(s, i))
  <2>1. Numbers(s)[i] = IF IDCardEnd(s, i) # {} THEN Span("id_card", "high", i, IDCardEnd(s, i))
                        ELSE IF LuhnWindow(s, i) # {}
                             THEN Span("bank_card", "high", i, LuhnWindow(s, i))
                        ELSE Span("phone", "high", i, PhoneEnd(s, i))
    BY <1>1 DEF Numbers
  <2>2. /\ Fine(Span("id_card", "high", i, IDCardEnd(s, i)), i, IDCardEnd(s, i))
        /\ Fine(Span("bank_card", "high", i, LuhnWindow(s, i)), i, LuhnWindow(s, i))
        /\ Fine(Span("phone", "high", i, PhoneEnd(s, i)), i, PhoneEnd(s, i))
    BY <1>1, <1>2, <1>3, SpanFacts
  <2> QED
    BY <2>1, <2>2 DEF NumberEnds
<1> QED
  BY <1>4, <1>5, <1>6, <1>7

\* The patterns are matches.
LEMMA Patterns ==
  ASSUME NEW s \in Seq(Chars)
  PROVE  /\ Matches(s, Numbers(s)) /\ Matches(s, EmailAt(s))
         /\ Matches(s, PassportAt(s)) /\ Matches(s, PlateAt(s))
<1>1. DOMAIN s = 1..Len(s)
  OBVIOUS
<1>2. ASSUME NEW f, f = [i \in 1..Len(s) |-> f[i]],
             \A i \in 1..Len(s) : \E ends : Fine(f[i], i, ends)
      PROVE  Matches(s, f)
  <2>1. \A i \in 1..Len(s) : /\ f[i] \in Seq(Spans)
                             /\ \/ f[i] = <<>>
                                \/ \E m \in Spans : f[i] = <<m>> /\ m.start = i /\ m.end > i
    BY <1>2 DEF Fine
  <2>2. f \in [1..Len(s) -> Seq(Spans)]
    BY <1>2, <2>1
  <2> QED
    BY <2>1, <2>2 DEF Matches
<1>3. /\ \A i \in 1..Len(s) : \E ends : Fine(Numbers(s)[i], i, ends)
      /\ \A i \in 1..Len(s) : \E ends : Fine(EmailAt(s)[i], i, ends)
      /\ \A i \in 1..Len(s) : \E ends : Fine(PassportAt(s)[i], i, ends)
      /\ \A i \in 1..Len(s) : \E ends : Fine(PlateAt(s)[i], i, ends)
  BY PatternAt
<1>4. /\ Numbers(s) = [i \in 1..Len(s) |-> Numbers(s)[i]]
      /\ EmailAt(s) = [i \in 1..Len(s) |-> EmailAt(s)[i]]
      /\ PassportAt(s) = [i \in 1..Len(s) |-> PassportAt(s)[i]]
      /\ PlateAt(s) = [i \in 1..Len(s) |-> PlateAt(s)[i]]
  BY <1>1 DEF Numbers, EmailAt, PassportAt, PlateAt
<1> QED
  BY <1>2, <1>3, <1>4

\* A hit lies in the text, where the pattern of its detector has it.
Found(s, h) ==
    /\ h \in Spans /\ h.start \in 1..Len(s) /\ h.start < h.end
    /\ \/ Numbers(s)[h.start] = <<h>>
       \/ EmailAt(s)[h.start] = <<h>>
       \/ PlateAt(s)[h.start] = <<h>>
       \/ PassportAt(s)[h.start] = <<h>> /\ ~isFlanked(s, h)

\* A span of a set runs over a place.
Over(hs, i) == \E h \in hs : h.start <= i /\ i < h.end

\* A sweep finds matches of its pattern only, and runs over the start of every match.
LEMMA SweepSet ==
  ASSUME NEW s \in Seq(Chars), NEW at, Matches(s, at)
  PROVE  /\ Sweep(s, at) \in Seq(Spans)
         /\ \A h \in ToSet(Sweep(s, at)) :
               h \in Spans /\ h.start \in 1..Len(s) /\ h.start < h.end /\ at[h.start] = <<h>>
         /\ \A i \in 1..Len(s) : at[i] # <<>> => Over(ToSet(Sweep(s, at)), i)
<1> DEFINE q == Sweep(s, at)
<1>1. /\ q \in Seq(Spans)
      /\ \A x \in 1..Len(q) : q[x].start \in 1..Len(s) /\ at[q[x].start] = <<q[x]>>
      /\ \A i \in 1..Len(s) : at[i] # <<>> =>
            \E x \in 1..Len(q) : q[x].start <= i /\ i < q[x].end
  BY SweepFacts
<1> HIDE DEF q
<1>2. ToSet(q) \subseteq Spans /\ \A h : h \in ToSet(q) <=> \E x \in 1..Len(q) : q[x] = h
  BY <1>1, ToSetIs
<1>3. ASSUME NEW h \in ToSet(q)
      PROVE  h \in Spans /\ h.start \in 1..Len(s) /\ h.start < h.end /\ at[h.start] = <<h>>
  <2>1. h \in Spans /\ h.start \in 1..Len(s) /\ at[h.start] = <<h>>
    BY <1>1, <1>2
  <2> DEFINE i == h.start
  <2> HIDE DEF i
  <2>2. PICK m \in Spans : at[i] = <<m>> /\ m.start = i /\ m.end > i
    <3>1. i \in 1..Len(s) /\ at[i] # <<>>
      BY <2>1 DEF i
    <3> QED
      BY <3>1 DEF Matches
  <2>3. m = h /\ m.end > h.start
    BY <2>1, <2>2 DEF i
  <2>4. h.end \in Int /\ h.start \in Int
    BY <2>1 DEF Spans
  <2> QED
    BY <2>1, <2>2, <2>3, <2>4
<1>4. ASSUME NEW i \in 1..Len(s), at[i] # <<>> PROVE Over(ToSet(q), i)
  <2>1. PICK x \in 1..Len(q) : q[x].start <= i /\ i < q[x].end
    BY <1>1, <1>4
  <2>2. q[x] \in ToSet(q)
    BY <1>2, <2>1
  <2> QED
    BY <2>1, <2>2 DEF Over
<1>5. /\ q \in Seq(Spans)
      /\ \A h \in ToSet(q) :
            h \in Spans /\ h.start \in 1..Len(s) /\ h.start < h.end /\ at[h.start] = <<h>>
      /\ \A i \in 1..Len(s) : at[i] # <<>> => Over(ToSet(q), i)
  BY <1>1, <1>3, <1>4
<1> QED
  BY <1>5 DEF q

\* The hits of a text, by the detector that has them.
LEMMA RawHitsAre ==
  ASSUME NEW s \in Seq(Chars)
  PROVE  /\ RawHits(s) \in Seq(Spans)
         /\ \A h : h \in ToSet(RawHits(s)) <=>
               \/ h \in ToSet(ScanNumeric(s)) \/ h \in ToSet(Emails(s))
               \/ h \in ToSet(Unflanked(s)) \/ h \in ToSet(Plates(s))
<1>1. /\ Matches(s, Numbers(s)) /\ Matches(s, EmailAt(s))
      /\ Matches(s, PassportAt(s)) /\ Matches(s, PlateAt(s))
  BY Patterns
<1>2. /\ ScanNumeric(s) = Sweep(s, Numbers(s)) /\ Emails(s) = Sweep(s, EmailAt(s))
      /\ Passports(s) = Sweep(s, PassportAt(s)) /\ Plates(s) = Sweep(s, PlateAt(s))
  BY DEF ScanNumeric, Emails, Passports, Plates, EmailAt, PassportAt, PlateAt
<1>3. /\ ScanNumeric(s) \in Seq(Spans) /\ Emails(s) \in Seq(Spans)
      /\ Passports(s) \in Seq(Spans) /\ Plates(s) \in Seq(Spans)
  BY <1>1, <1>2, SweepSet
<1>4. Unflanked(s) \in Seq(Spans)
  BY <1>3, UnflankedFacts
<1> DEFINE a == ScanNumeric(s)
           b == Emails(s)
           c == Unflanked(s)
           d == Plates(s)
<1>5. RawHits(s) = ((a \o b) \o c) \o d
  BY DEF RawHits
<1> HIDE DEF a, b, c, d
<1>6. a \in Seq(Spans) /\ b \in Seq(Spans) /\ c \in Seq(Spans) /\ d \in Seq(Spans)
  BY <1>3, <1>4 DEF a, b, c, d
<1>7. a \o b \in Seq(Spans) /\ \A h : h \in ToSet(a \o b) <=> h \in ToSet(a) \/ h \in ToSet(b)
  BY <1>6, ToSetConcat
<1> DEFINE e == a \o b
<1> HIDE DEF e
<1>8. e \in Seq(Spans) /\ \A h : h \in ToSet(e) <=> h \in ToSet(a) \/ h \in ToSet(b)
  BY <1>7 DEF e
<1>9. e \o c \in Seq(Spans) /\ \A h : h \in ToSet(e \o c) <=> h \in ToSet(e) \/ h \in ToSet(c)
  BY <1>6, <1>8, ToSetConcat
<1> DEFINE g == e \o c
<1> HIDE DEF g
<1>10. g \in Seq(Spans) /\ \A h : h \in ToSet(g) <=> h \in ToSet(e) \/ h \in ToSet(c)
  BY <1>9 DEF g
<1>11. g \o d \in Seq(Spans) /\ \A h : h \in ToSet(g \o d) <=> h \in ToSet(g) \/ h \in ToSet(d)
  BY <1>6, <1>10, ToSetConcat
<1>12. RawHits(s) = g \o d
  BY <1>5 DEF g, e
<1>13. /\ RawHits(s) \in Seq(Spans)
       /\ \A h : h \in ToSet(RawHits(s)) <=>
             h \in ToSet(a) \/ h \in ToSet(b) \/ h \in ToSet(c) \/ h \in ToSet(d)
  BY <1>8, <1>10, <1>11, <1>12
<1> QED
  BY <1>13 DEF a, b, c, d

\* Every hit is found by its detector.
LEMMA HitsFound ==
  ASSUME NEW s \in Seq(Chars), NEW h \in ToSet(RawHits(s))
  PROVE  Found(s, h)
<1>1. /\ Matches(s, Numbers(s)) /\ Matches(s, EmailAt(s))
      /\ Matches(s, PassportAt(s)) /\ Matches(s, PlateAt(s))
  BY Patterns
<1>2. /\ ScanNumeric(s) = Sweep(s, Numbers(s)) /\ Emails(s) = Sweep(s, EmailAt(s))
      /\ Passports(s) = Sweep(s, PassportAt(s)) /\ Plates(s) = Sweep(s, PlateAt(s))
  BY DEF ScanNumeric, Emails, Passports, Plates, EmailAt, PassportAt, PlateAt
<1>3. CASE h \in ToSet(ScanNumeric(s))
  BY <1>1, <1>2, <1>3, SweepSet DEF Found
<1>4. CASE h \in ToSet(Emails(s))
  BY <1>1, <1>2, <1>4, SweepSet DEF Found
<1>5. CASE h \in ToSet(Plates(s))
  BY <1>1, <1>2, <1>5, SweepSet DEF Found
<1>6. CASE h \in ToSet(Unflanked(s))
  <2>1. /\ Passports(s) \in Seq(Spans)
        /\ \A m \in ToSet(Passports(s)) :
              m \in Spans /\ m.start \in 1..Len(s) /\ m.start < m.end /\ PassportAt(s)[m.start] = <<m>>
    BY <1>1, <1>2, SweepSet
  <2>2. /\ Unflanked(s) \in Seq(Spans)
        /\ \A x \in 1..Len(Unflanked(s)) :
              /\ ~isFlanked(s, Unflanked(s)[x])
              /\ \E y \in 1..Len(Passports(s)) : Passports(s)[y] = Unflanked(s)[x]
    BY <2>1, UnflankedFacts
  <2>3. PICK x \in 1..Len(Unflanked(s)) : Unflanked(s)[x] = h
    BY <1>6, <2>2, ToSetIs
  <2>4. ~isFlanked(s, h) /\ \E y \in 1..Len(Passports(s)) : Passports(s)[y] = h
    BY <2>2, <2>3
  <2>5. h \in ToSet(Passports(s))
    BY <2>1, <2>4, ToSetIs
  <2> QED
    BY <2>1, <2>4, <2>5 DEF Found
<1> QED
  BY <1>3, <1>4, <1>5, <1>6, RawHitsAre

\* Where a number, an address or a plate matches, a hit runs over it.
LEMMA HitsOver ==
  ASSUME NEW s \in Seq(Chars), NEW i \in 1..Len(s),
         Numbers(s)[i] # <<>> \/ EmailAt(s)[i] # <<>> \/ PlateAt(s)[i] # <<>>
  PROVE  Over(ToSet(RawHits(s)), i)
<1>1. Matches(s, Numbers(s)) /\ Matches(s, EmailAt(s)) /\ Matches(s, PlateAt(s))
  BY Patterns
<1>2. /\ ScanNumeric(s) = Sweep(s, Numbers(s)) /\ Emails(s) = Sweep(s, EmailAt(s))
      /\ Plates(s) = Sweep(s, PlateAt(s))
  BY DEF ScanNumeric, Emails, Plates, EmailAt, PlateAt
<1>3. ASSUME NEW hs, Over(hs, i), \A h \in hs : h \in ToSet(RawHits(s))
      PROVE  Over(ToSet(RawHits(s)), i)
  BY <1>3 DEF Over
<1>4. CASE Numbers(s)[i] # <<>>
  <2>1. Over(ToSet(ScanNumeric(s)), i)
    BY <1>1, <1>2, <1>4, SweepSet
  <2> QED
    BY <1>3, <2>1, RawHitsAre
<1>5. CASE EmailAt(s)[i] # <<>>
  <2>1. Over(ToSet(Emails(s)), i)
    BY <1>1, <1>2, <1>5, SweepSet
  <2> QED
    BY <1>3, <2>1, RawHitsAre
<1>6. CASE PlateAt(s)[i] # <<>>
  <2>1. Over(ToSet(Plates(s)), i)
    BY <1>1, <1>2, <1>6, SweepSet
  <2> QED
    BY <1>3, <2>1, RawHitsAre
<1> QED
  BY <1>4, <1>5, <1>6

\* A passport is one of the spans its pattern sweeps up, and a hit unless it is flanked.
LEMMA PassportSwept ==
  ASSUME NEW s \in Seq(Chars), NEW i \in 1..Len(s), i + 1 + PassportDigits \in PassportEnd(s, i)
  PROVE  \E p \in ToSet(Passports(s)) : /\ p.start = i /\ p.end = i + 1 + PassportDigits
                                        /\ p \in ToSet(RawHits(s)) \/ isFlanked(s, p)
<1>0. i \in Nat /\ Len(s) \in Nat /\ PassportDigits \in Nat
  BY MaskingAssumption DEF MaskingAssumption
<1>1. Matches(s, PassportAt(s)) /\ Passports(s) = Sweep(s, PassportAt(s))
  BY Patterns DEF Passports, PassportAt
<1>2. /\ Passports(s) \in Seq(Spans)
      /\ \A m \in ToSet(Passports(s)) :
            m \in Spans /\ m.start \in 1..Len(s) /\ m.start < m.end /\ PassportAt(s)[m.start] = <<m>>
      /\ \A j \in 1..Len(s) : PassportAt(s)[j] # <<>> => Over(ToSet(Passports(s)), j)
  BY <1>1, SweepSet
<1>3. Fine(PassportAt(s)[i], i, PassportEnd(s, i))
  BY PatternAt
<1>4. Over(ToSet(Passports(s)), i)
  <2>1. PassportAt(s)[i] # <<>>
    BY <1>3 DEF Fine
  <2> QED
    BY <1>2, <2>1
<1>5. PICK p \in ToSet(Passports(s)) : p.start <= i /\ i < p.end
  BY <1>4 DEF Over
<1> DEFINE j == p.start
<1>6. p \in Spans /\ j \in 1..Len(s) /\ PassportAt(s)[j] = <<p>> /\ j \in Int /\ p.end \in Int
  BY <1>2 DEF Spans
<1>7. Fine(PassportAt(s)[j], j, PassportEnd(s, j))
  <2> HIDE DEF j
  <2> QED
    BY <1>6, PatternAt
<1>8. p.end \in PassportEnd(s, j)
  <2>1. \E m \in Spans : PassportAt(s)[j] = <<m>> /\ m.end \in PassportEnd(s, j)
    BY <1>6, <1>7 DEF Fine
  <2> QED
    BY <1>6, <2>1
<1>9. /\ p.end = j + 1 + PassportDigits /\ p.end <= Len(s) + 1
      /\ AllDigits(SubSeq(s, j + 1, p.end - 1))
  BY <1>8 DEF PassportEnd
<1>10. s[i] \in PassportLetters
  BY DEF PassportEnd
<1>11. j = i
  <2> SUFFICES ASSUME j < i PROVE FALSE
    BY <1>5, <1>6
  <2>1. Window(s, j + 1, PassportDigits) = SubSeq(s, j + 1, p.end - 1)
    <3>1. (j + 1) + PassportDigits - 1 = p.end - 1
      BY <1>6, <1>9, <1>0
    <3> HIDE DEF j
    <3> QED
      BY <3>1 DEF Window
  <2>2. \A q \in 0..(PassportDigits - 1) : s[j + 1 + q] \in Digits
    <3>1. j + 1 \in Nat /\ 1 <= j + 1 /\ (j + 1) + PassportDigits <= Len(s) + 1
      BY <1>0, <1>6, <1>9
    <3> HIDE DEF j
    <3> QED
      BY <1>0, <1>9, <2>1, <3>1, WindowIs
  <2>3. i - (j + 1) \in 0..(PassportDigits - 1) /\ j + 1 + (i - (j + 1)) = i
    BY <1>0, <1>5, <1>6, <1>9
  <2>4. s[i] \in Digits
    BY <2>2, <2>3
  <2> QED
    BY <1>10, <2>4, Alphabet
<1>12. p \in ToSet(RawHits(s)) \/ isFlanked(s, p)
  <2> SUFFICES ASSUME ~isFlanked(s, p) PROVE p \in ToSet(RawHits(s))
    OBVIOUS
  <2>1. PICK y \in 1..Len(Passports(s)) : Passports(s)[y] = p
    BY <1>2, ToSetIs
  <2>2. /\ Unflanked(s) \in Seq(Spans)
        /\ \E x \in 1..Len(Unflanked(s)) : Unflanked(s)[x] = Passports(s)[y]
    BY <1>2, <2>1, UnflankedFacts
  <2>3. p \in ToSet(Unflanked(s))
    BY <2>1, <2>2, ToSetIs
  <2> QED
    BY <2>3, RawHitsAre
<1> QED
  BY <1>9, <1>11, <1>12

\* What the resolution of the hits keeps of a text.
Kept(s, ks) ==
    /\ ks \in Seq(Spans)
    /\ \A x \in 1..Len(ks) : Found(s, ks[x]) /\ ks[x] \in ToSet(RawHits(s))
    /\ \A x \in 1..Len(ks) : ks[x].start < ks[x].end
    /\ \A x \in 1..(Len(ks) - 1) : ks[x].end <= ks[x + 1].start
    /\ \A h \in ToSet(RawHits(s)) : \E x \in 1..Len(ks) :
          ks[x].start <= h.start /\ h.start < ks[x].end

\* The spans kept of a text are hits of it, apart and in order, and one hides the start of each hit.
LEMMA ScanFacts ==
  ASSUME NEW s \in Seq(Chars)
  PROVE  Kept(s, Scan(s))
<1> DEFINE ms == RawHits(s)
           ks == Scan(s)
<1>1. ms \in Seq(Spans)
  BY RawHitsAre
<1>2. ToSet(ms) \subseteq Spans /\ \A h : h \in ToSet(ms) <=> \E x \in 1..Len(ms) : ms[x] = h
  BY <1>1, ToSetIs
<1>3. \A h \in ToSet(ms) : Found(s, h)
  BY HitsFound
<1>4. \A i \in 1..Len(ms) : ms[i].start < ms[i].end
  BY <1>2, <1>3 DEF Found
<1>5. /\ ks \in Seq(Spans)
      /\ \A x \in 1..Len(ks) : \E i \in 1..Len(ms) : ms[i] = ks[x]
      /\ \A x \in 1..(Len(ks) - 1) : ks[x].end <= ks[x + 1].start
      /\ \A i \in 1..Len(ms) : \E x \in 1..Len(ks) :
            ks[x].start <= ms[i].start /\ ms[i].start < ks[x].end
  <2> HIDE DEF ms
  <2>1. ks = resolveOverlaps(ms)
    BY DEF Scan, ms
  <2> HIDE DEF ks
  <2> QED
    BY <1>1, <1>4, <2>1, ResolveFacts
<1> HIDE DEF ms, ks
<1>6. \A x \in 1..Len(ks) : ks[x] \in ToSet(ms)
  BY <1>2, <1>5
<1>7. \A x \in 1..Len(ks) : Found(s, ks[x]) /\ ks[x].start < ks[x].end
  BY <1>3, <1>6 DEF Found
<1>8. \A h \in ToSet(ms) : \E x \in 1..Len(ks) : ks[x].start <= h.start /\ h.start < ks[x].end
  BY <1>2, <1>5
<1> QED
  BY <1>5, <1>6, <1>7, <1>8 DEF Kept, ms, ks

\* The two ways in which a mask may fail to hide a hit.
Seamed(s) == \E h \in ToSet(RawHits(s)), k \in ToSet(Scan(s)) : Straddles(h, k)
Bared(s) == \E p \in ToSet(Passports(s)), k \in ToSet(Scan(s)) :
                isFlanked(s, p) /\ (k.end = p.start \/ p.end = k.start)

\* A hit over a place that no kept span covers runs past the kept span that hides its start.
LEMMA Seam ==
  ASSUME NEW s \in Seq(Chars), NEW i \in 1..Len(s), ~Covers(Scan(s), i),
         Over(ToSet(RawHits(s)), i)
  PROVE  Seamed(s)
<1> DEFINE ks == Scan(s)
<1>1. Kept(s, ks)
  BY ScanFacts
<1>2. PICK h \in ToSet(RawHits(s)) : h.start <= i /\ i < h.end
  BY DEF Over
<1>3. h \in Spans
  BY HitsFound DEF Found
<1> HIDE DEF ks
<1>4. PICK x \in 1..Len(ks) : ks[x].start <= h.start /\ h.start < ks[x].end
  BY <1>1 DEF Kept
<1>5. ks[x] \in Spans /\ ks \in Seq(Spans)
  BY <1>1 DEF Kept
<1>6. /\ ks[x].start \in Int /\ ks[x].end \in Int /\ h.start \in Int /\ h.end \in Int /\ i \in Int
  BY <1>3, <1>5 DEF Spans
<1>7. i \notin ks[x].start .. (ks[x].end - 1)
  BY <1>5 DEF Covers, ks
<1>8. Straddles(h, ks[x])
  BY <1>2, <1>4, <1>6, <1>7 DEF Straddles
<1>9. ks[x] \in ToSet(ks)
  BY <1>5, ToSetIs
<1> QED
  BY <1>2, <1>8, <1>9 DEF Seamed, ks

\* What the mask leaves in view of a text.
View(s, out, src) == /\ out = maskSpans(s, Scan(s)) /\ out \in Seq(Chars)
                     /\ Shows(src, out, s, Scan(s), Len(s))

\* A stretch without a mask is a stretch of the text that no kept span covers.
LEMMA Unmasked ==
  ASSUME NEW s \in Seq(Chars), NEW out, NEW src, View(s, out, src),
         NEW a \in 1..Len(out), NEW m \in Nat, Whole(out, a, m)
  PROVE  /\ src[a] \in 1..Len(s) /\ Same(s, src[a], out, a, m)
         /\ \A q \in 0..m : src[a + q] = src[a] + q /\ ~Covers(Scan(s), src[a] + q)
<1> DEFINE ks == Scan(s)
<1>1. /\ out \in Seq(Chars) /\ Shows(src, out, s, ks, Len(s))
      /\ a + m <= Len(out) /\ \A q \in 0..m : out[a + q] # Mask
  BY DEF View, Whole
<1>2. ks \in Seq(Spans) /\ \A k \in 1..Len(ks) : ks[k].start < ks[k].end
  BY ScanFacts DEF Kept
<1> HIDE DEF ks
<1>3. \A q \in 0..m : /\ src[a] + q \in 1..Len(s)
                      /\ src[a + q] = src[a] + q
                      /\ ~Covers(ks, src[a] + q)
                      /\ out[a + q] = s[src[a] + q]
  <2>1. Bare(src, out, s, ks, a, m)
    BY <1>1, <1>2, InTheClear
  <2> QED
    BY <2>1 DEF Bare
<1>4. Len(out) \in Nat /\ \A q \in 0..m : a + q \in 1..Len(out)
  BY <1>1
<1>5. src[a] \in 1..Len(s)
  BY <1>1 DEF Shows
<1>6. Same(s, src[a], out, a, m)
  BY <1>3, <1>4 DEF Same
<1>7. \A q \in 0..m : src[a + q] = src[a] + q /\ ~Covers(ks, src[a] + q)
  BY <1>3
<1> QED
  BY <1>5, <1>6, <1>7 DEF ks

\* A number, an address or a plate that the mask leaves is the rest of a hit that straddles.
LEMMA LeftByPattern ==
  ASSUME NEW s \in Seq(Chars), NEW out, NEW src, View(s, out, src),
         NEW a \in 1..Len(out),
         Numbers(out)[a] # <<>> \/ EmailAt(out)[a] # <<>> \/ PlateAt(out)[a] # <<>>
  PROVE  Seamed(s)
<1> DEFINE i == src[a]
<1>1. out \in Seq(Chars) /\ a \in Nat /\ 1 <= a
  BY DEF View
<1>2. i \in 1..Len(s) /\ i \in Nat
  BY DEF View, Shows
<1> HIDE DEF i
<1>3. ASSUME NEW m \in Nat, Whole(out, a, m) PROVE Same(s, i, out, a, m) /\ ~Covers(Scan(s), i)
  <2>1. 0 \in 0..m /\ i + 0 = i
    BY <1>2
  <2> QED
    BY <1>3, <2>1, Unmasked DEF i
<1>4. /\ Fine(Numbers(out)[a], a, NumberEnds(out, a)) /\ Fine(EmailAt(out)[a], a, EmailEnd(out, a))
      /\ Fine(PlateAt(out)[a], a, PlateEnd(out, a))
      /\ Fine(Numbers(s)[i], i, NumberEnds(s, i)) /\ Fine(EmailAt(s)[i], i, EmailEnd(s, i))
      /\ Fine(PlateAt(s)[i], i, PlateEnd(s, i))
  BY <1>1, <1>2, PatternAt
<1>5. CASE EmailAt(out)[a] # <<>>
  <2>1. EmailEnd(out, a) # {}
    BY <1>4, <1>5 DEF Fine
  <2>2. PICK m \in Nat : Whole(out, a, m) /\ (Same(s, i, out, a, m) => EmailEnd(s, i) # {})
    BY <1>1, <1>2, <2>1, EmailSame
  <2>3. EmailAt(s)[i] # <<>>
    BY <1>3, <1>4, <2>2 DEF Fine
  <2> QED
    BY <1>2, <1>3, <2>2, <2>3, HitsOver, Seam
<1>6. CASE PlateAt(out)[a] # <<>>
  <2>1. PlateEnd(out, a) # {}
    BY <1>4, <1>6 DEF Fine
  <2>2. PICK m \in Nat : Whole(out, a, m) /\ (Same(s, i, out, a, m) => PlateEnd(s, i) # {})
    BY <1>1, <1>2, <2>1, PlateSame
  <2>3. PlateAt(s)[i] # <<>>
    BY <1>3, <1>4, <2>2 DEF Fine
  <2> QED
    BY <1>2, <1>3, <2>2, <2>3, HitsOver, Seam
<1>7. CASE Numbers(out)[a] # <<>>
  <2>1. IDCardEnd(out, a) # {} \/ LuhnWindow(out, a) # {} \/ PhoneEnd(out, a) # {}
    BY <1>4, <1>7 DEF Fine, NumberEnds
  <2>2. PICK m \in Nat : /\ Whole(out, a, m)
                         /\ Same(s, i, out, a, m) =>
                              IDCardEnd(s, i) # {} \/ LuhnWindow(s, i) # {} \/ PhoneEnd(s, i) # {}
    <3>1. CASE IDCardEnd(out, a) # {}
      <4>1. PICK m \in Nat : Whole(out, a, m) /\ (Same(s, i, out, a, m) => IDCardEnd(s, i) # {})
        BY <1>1, <1>2, <3>1, IDCardSame
      <4> QED
        BY <4>1
    <3>2. CASE LuhnWindow(out, a) # {}
      <4>1. PICK m \in Nat : Whole(out, a, m) /\ (Same(s, i, out, a, m) => LuhnWindow(s, i) # {})
        BY <1>1, <1>2, <3>2, LuhnSame
      <4> QED
        BY <4>1
    <3>3. CASE PhoneEnd(out, a) # {}
      <4>1. PICK m \in Nat : Whole(out, a, m) /\ (Same(s, i, out, a, m) => PhoneEnd(s, i) # {})
        BY <1>1, <1>2, <3>3, PhoneSame
      <4> QED
        BY <4>1
    <3> QED
      BY <2>1, <3>1, <3>2, <3>3
  <2>3. Numbers(s)[i] # <<>>
    BY <1>3, <1>4, <2>2 DEF Fine, NumberEnds
  <2> QED
    BY <1>2, <1>3, <2>2, <2>3, HitsOver, Seam
<1> QED
  BY <1>5, <1>6, <1>7

\* A passport that the mask leaves is the rest of a hit that straddles, or a passport whose
\* flank the mask removed.
LEMMA LeftPassport ==
  ASSUME NEW s \in Seq(Chars), NEW out, NEW src, View(s, out, src),
         NEW h, h \in Spans, h.start \in 1..Len(out),
         PassportAt(out)[h.start] = <<h>>, ~isFlanked(out, h)
  PROVE  Seamed(s) \/ Bared(s)
<1> DEFINE a == h.start
           i == src[a]
           l == PassportDigits
           ks == Scan(s)
<1>0. /\ out \in Seq(Chars) /\ a \in 1..Len(out) /\ a \in Nat /\ 1 <= a /\ l \in Nat
      /\ Len(s) \in Nat /\ Len(out) \in Nat
  BY MaskingAssumption DEF View, MaskingAssumption
<1>1. Shows(src, out, s, ks, Len(s))
  BY DEF View
<1>2. i \in 1..Len(s) /\ i \in Nat
  <2> HIDE DEF a
  <2> QED
    BY <1>0, <1>1 DEF Shows
<1>3. h.end = a + 1 + l /\ PassportEnd(out, a) # {}
  <2>0. PassportAt(out)[a] = <<h>>
    OBVIOUS
  <2> HIDE DEF a
  <2>1. Fine(PassportAt(out)[a], a, PassportEnd(out, a))
    BY <1>0, PatternAt
  <2>2. \E m \in Spans : <<h>> = <<m>> /\ m.end \in PassportEnd(out, a)
    BY <2>0, <2>1 DEF Fine
  <2>3. h.end \in PassportEnd(out, a)
    BY <2>2
  <2> QED
    BY <2>3 DEF PassportEnd
<1>4. Whole(out, a, l) /\ (Same(s, i, out, a, l) => i + 1 + l \in PassportEnd(s, i))
  <2> HIDE DEF a, i
  <2> QED
    BY <1>0, <1>2, <1>3, PassportSame
<1>5. /\ Same(s, i, out, a, l)
      /\ \A q \in 0..l : src[a + q] = i + q /\ ~Covers(ks, i + q)
  <2> HIDE DEF a
  <2> QED
    BY <1>0, <1>4, Unmasked
<1>6. PICK p \in ToSet(Passports(s)) : /\ p.start = i /\ p.end = i + 1 + l
                                       /\ p \in ToSet(RawHits(s)) \/ isFlanked(s, p)
  <2> HIDE DEF i
  <2> QED
    BY <1>2, <1>4, <1>5, PassportSwept
<1> HIDE DEF i, ks
<1>7. ~Covers(ks, i) /\ 0 \in 0..l /\ l \in 0..l /\ ~Covers(ks, i + l)
  <2>1. i + 0 = i /\ 0 \in 0..l /\ l \in 0..l
    BY <1>0, <1>2
  <2> QED
    BY <1>5, <2>1
<1>8. CASE p \in ToSet(RawHits(s))
  <2>1. Over(ToSet(RawHits(s)), i)
    BY <1>0, <1>2, <1>6, <1>8 DEF Over
  <2> QED
    BY <1>2, <1>7, <2>1, Seam DEF ks
<1>9. CASE isFlanked(s, p)
  <2>1. Kept(s, ks)
    BY ScanFacts DEF ks
  <2>2. ks \in Seq(Spans) /\ (\A k \in 1..Len(ks) : ks[k].start < ks[k].end)
    BY <2>1 DEF Kept
  <2>3. \A k \in 1..Len(ks) : ks[k] \in ToSet(ks) /\ ks[k].start \in Int /\ ks[k].end \in Int
    <3>1. \A k \in 1..Len(ks) : ks[k] \in Spans /\ ks[k] \in ToSet(ks)
      BY <2>2, ToSetIs
    <3> QED
      BY <3>1 DEF Spans
  <2>4. \A j : Covers(ks, j) <=> \E k \in 1..Len(ks) : j \in ks[k].start .. (ks[k].end - 1)
    BY <2>2 DEF Covers
  <2>5. \A j : StartsAt(ks, j) => Covers(ks, j)
    BY <2>2, <2>3, <2>4 DEF StartsAt
  <2>6. \A c \in 1..Len(out) : ~Covers(ks, src[c]) => out[c] = s[src[c]]
    BY <1>1, <2>5 DEF Shows
  <2>7. Clear(src, out, s, ks, a)
    <3>1. ~Covers(ks, src[a])
      BY <1>7 DEF i
    <3> HIDE DEF a
    <3> QED
      BY <1>0, <1>1, <2>2, <3>1, Beside
  <2>8. ~(a > 1 /\ IsAlnum(out[a - 1])) /\ ~(h.end <= Len(out) /\ IsAlnum(out[h.end]))
    BY DEF isFlanked
  <2>9. CASE p.start > 1 /\ IsAlnum(s[p.start - 1])
    <3>1. i - 1 \in 1..Len(s) /\ IsAlnum(s[i - 1])
      BY <1>2, <1>6, <2>9
    <3>2. Covers(ks, i - 1)
      <4> SUFFICES ASSUME ~Covers(ks, i - 1) PROVE FALSE
        OBVIOUS
      <4>1. a - 1 \in 1..Len(out) /\ src[a - 1] = i - 1
        BY <2>7, <3>1 DEF Clear, i
      <4>2. out[a - 1] = s[i - 1]
        BY <2>6, <4>1
      <4> QED
        BY <1>0, <2>8, <3>1, <4>1, <4>2
    <3>3. PICK k \in 1..Len(ks) : i - 1 \in ks[k].start .. (ks[k].end - 1)
      BY <2>4, <3>2
    <3>4. i \notin ks[k].start .. (ks[k].end - 1)
      BY <1>7, <2>4
    <3>5. ks[k].end = p.start /\ ks[k] \in ToSet(ks)
      BY <1>2, <1>6, <2>3, <3>3, <3>4
    <3> QED
      BY <1>6, <1>9, <3>5 DEF Bared, ks
  <2>10. CASE p.end <= Len(s) /\ IsAlnum(s[p.end])
    <3> DEFINE b == a + l
               e == i + l
    <3>1. /\ b \in 1..Len(out) /\ src[b] = e /\ ~Covers(ks, src[b])
      <4>1. b \in 1..Len(out)
        BY <1>0, <1>4 DEF Whole
      <4> QED
        BY <1>5, <1>7, <4>1
    <3>2. e + 1 \in 1..Len(s) /\ IsAlnum(s[e + 1]) /\ e + 1 = p.end /\ e \in Nat
      <4>1. p.end = e + 1 /\ e \in Nat /\ p.end \in 1..Len(s)
        BY <1>0, <1>2, <1>6, <2>10
      <4> QED
        BY <2>10, <4>1
    <3>3. b + 1 = h.end /\ b \in Nat
      BY <1>0, <1>3
    <3> HIDE DEF b, e
    <3>4. Clear(src, out, s, ks, b)
      BY <1>0, <1>1, <2>2, <3>1, Beside
    <3>5. Covers(ks, e + 1)
      <4> SUFFICES ASSUME ~Covers(ks, e + 1) PROVE FALSE
        OBVIOUS
      <4>1. b + 1 \in 1..Len(out) /\ src[b + 1] = e + 1
        BY <3>1, <3>2, <3>4 DEF Clear
      <4>2. out[b + 1] = s[e + 1]
        BY <2>6, <4>1
      <4>3. h.end <= Len(out)
        BY <1>0, <3>3, <4>1
      <4> QED
        BY <2>8, <3>2, <3>3, <4>2, <4>3
    <3>6. PICK k \in 1..Len(ks) : e + 1 \in ks[k].start .. (ks[k].end - 1)
      BY <2>4, <3>5
    <3>7. e \notin ks[k].start .. (ks[k].end - 1)
      BY <2>4, <3>1
    <3>8. p.end = ks[k].start /\ ks[k] \in ToSet(ks)
      BY <2>3, <3>2, <3>6, <3>7
    <3> QED
      BY <1>6, <1>9, <3>8 DEF Bared, ks
  <2> QED
    BY <1>9, <2>9, <2>10 DEF isFlanked
<1> QED
  BY <1>6, <1>8, <1>9

\* What is found in a masked text was left there by a seam or a bared flank.
LEMMA Redaction ==
  ASSUME NEW s \in Seq(Chars), PIIRedaction(s) = "fail"
  PROVE  Seamed(s) \/ Bared(s)
<1> DEFINE out == maskSpans(s, Scan(s))
<1>1. Scan(out) # <<>>
  BY DEF PIIRedaction
<1>2. Scan(s) \in Seq(Spans)
  BY ScanFacts DEF Kept
<1>3. out \in Seq(Chars) /\ \E src : Shows(src, out, s, Scan(s), Len(s))
  BY <1>2, MaskFacts
<1>4. PICK src : View(s, out, src)
  BY <1>3 DEF View
<1> HIDE DEF out
<1>5. Kept(out, Scan(out))
  BY <1>3, ScanFacts
<1> DEFINE ks == Scan(out)
<1>6. ks \in Seq(Spans) /\ ks # <<>> /\ \A x \in 1..Len(ks) : Found(out, ks[x])
  BY <1>1, <1>5 DEF Kept
<1> HIDE DEF ks
<1>7. 1 \in 1..Len(ks)
  BY <1>6
<1> DEFINE h == ks[1]
<1>8. Found(out, h)
  BY <1>6, <1>7
<1> HIDE DEF h
<1> DEFINE a == h.start
<1>9. /\ h \in Spans /\ a \in 1..Len(out)
      /\ \/ Numbers(out)[a] = <<h>> \/ EmailAt(out)[a] = <<h>> \/ PlateAt(out)[a] = <<h>>
         \/ PassportAt(out)[a] = <<h>> /\ ~isFlanked(out, h)
  BY <1>8 DEF Found
<1>10. CASE PassportAt(out)[a] = <<h>> /\ ~isFlanked(out, h)
  BY <1>4, <1>9, <1>10, LeftPassport
<1>11. CASE Numbers(out)[a] = <<h>> \/ EmailAt(out)[a] = <<h>> \/ PlateAt(out)[a] = <<h>>
  <2> HIDE DEF a
  <2>1. Numbers(out)[a] # <<>> \/ EmailAt(out)[a] # <<>> \/ PlateAt(out)[a] # <<>>
    <3>1. <<h>> # <<>>
      OBVIOUS
    <3> QED
      BY <1>11, <3>1
  <2> QED
    BY <1>4, <1>9, <2>1, LeftByPattern
<1> QED
  BY <1>9, <1>10, <1>11

\* The files of the fragments are texts.
LEMMA TextIsText ==
  ASSUME content \in Seq(Fragments)
  PROVE  Text \in Seq(Chars)
<1>1. Fragments \subseteq Seq(Chars)
  <2>1. Seq(STRING) \subseteq Seq(Chars)
    <3> SUFFICES ASSUME NEW q \in Seq(STRING) PROVE q \in Seq(Chars)
      OBVIOUS
    <3>1. q \in [1..Len(q) -> STRING] /\ Len(q) \in Nat
      OBVIOUS
    <3>2. q \in [1..Len(q) -> Chars]
      BY <3>1 DEF Chars
    <3> QED
      BY <3>1, <3>2
  <2> QED
    BY <2>1, MaskingAssumption DEF MaskingAssumption
<1>2. content \in Seq(Seq(Chars))
  <2>1. content \in [1..Len(content) -> Fragments] /\ Len(content) \in Nat
    OBVIOUS
  <2>2. content \in [1..Len(content) -> Seq(Chars)]
    BY <1>1, <2>1
  <2> QED
    BY <2>1, <2>2
<1>3. PICK f \in [0..Len(content) -> Seq(Chars)] : Text = f[Len(content)]
  BY <1>2, TextSteps
<1>4. Len(content) \in 0..Len(content)
  OBVIOUS
<1> QED
  BY <1>3, <1>4

\* The file is of the fragments, and the two checks are those of the file.
MaskingIInv ==
    /\ content \in Seq(Fragments)
    /\ piiCheck.declared \in BOOLEAN
    /\ piiCheck.result # "none" => /\ piiCheck.result = PII(Text, piiCheck.declared)
                                   /\ redactionCheck = PIIRedaction(Text)

\* The file and the results of its two checks belong together in every state.
LEMMA MaskingInductive == MaskingSpec => []MaskingIInv
<1>1. MaskingInit => MaskingIInv
  BY DEF MaskingInit, MaskingIInv
<1>2. MaskingIInv /\ [MaskingNext]_maskVars => MaskingIInv'
  <2> SUFFICES ASSUME MaskingIInv, [MaskingNext]_maskVars PROVE MaskingIInv'
    OBVIOUS
  <2>1. ASSUME NEW f \in Fragments, Write(f) PROVE MaskingIInv'
    BY <2>1 DEF MaskingIInv, Write
  <2>2. ASSUME NEW d \in BOOLEAN, ExamineFile(d) PROVE MaskingIInv'
    <3>1. content' = content /\ Text' = Text
      BY <2>2 DEF ExamineFile, Text
    <3> QED
      BY <2>2, <3>1 DEF MaskingIInv, ExamineFile
  <2>3. CASE UNCHANGED maskVars
    <3>1. content' = content /\ Text' = Text /\ piiCheck' = piiCheck /\ redactionCheck' = redactionCheck
      BY <2>3 DEF maskVars, Text
    <3> QED
      BY <3>1 DEF MaskingIInv
  <2> QED
    BY <2>1, <2>2, <2>3 DEF MaskingNext
<1> QED
  BY <1>1, <1>2, PTL DEF MaskingSpec

\* What a scan has of a text, as the invariant says it.
LEMMA Sound ==
  ASSUME NEW s \in Seq(Chars), NEW d \in BOOLEAN
  PROVE  LET hits == ToSet(RawHits(s))
             kept == Scan(s)
         IN  /\ ToSet(kept) \subseteq hits
             /\ \A k \in 1..(Len(kept) - 1) : kept[k].end <= kept[k + 1].start
             /\ \A h \in hits : \E k \in ToSet(kept) : h.start \in k.start .. (k.end - 1)
             /\ PII(s, d) = "pass" => hits = {}
             /\ PII(s, d) = "warn" /\ ~d =>
                  \A h \in hits : h.conf = "high" =>
                      \E k \in ToSet(kept) : k.conf = "heuristic" /\ h.start \in k.start .. (k.end - 1)
<1> DEFINE hits == ToSet(RawHits(s))
           kept == Scan(s)
<1>1. /\ kept \in Seq(Spans)
      /\ \A x \in 1..Len(kept) : kept[x] \in hits
      /\ \A x \in 1..(Len(kept) - 1) : kept[x].end <= kept[x + 1].start
      /\ \A h \in hits : \E x \in 1..Len(kept) : kept[x].start <= h.start /\ h.start < kept[x].end
  BY ScanFacts DEF Kept
<1>2. \A h \in hits : h \in Spans
  BY HitsFound DEF Found
<1>3. /\ PII(s, d) = "pass" => kept = <<>>
      /\ PII(s, d) = "warn" /\ ~d => \A x \in DOMAIN kept : kept[x].conf # "high"
  BY DEF PII
<1> HIDE DEF hits, kept
<1>4. ToSet(kept) \subseteq Spans /\ \A k : k \in ToSet(kept) <=> \E x \in 1..Len(kept) : kept[x] = k
  BY <1>1, ToSetIs
<1>5. \A k \in ToSet(kept) : k \in hits /\ k.start \in Int /\ k.end \in Int
                             /\ k.conf \in {"high", "heuristic"}
  BY <1>1, <1>4 DEF Spans
<1>6. ASSUME NEW h \in hits
      PROVE  \E k \in ToSet(kept) : h.start \in k.start .. (k.end - 1)
  <2>1. PICK x \in 1..Len(kept) : kept[x].start <= h.start /\ h.start < kept[x].end
    BY <1>1
  <2>2. kept[x] \in ToSet(kept) /\ h.start \in Int
    BY <1>2, <1>4 DEF Spans
  <2> QED
    BY <1>5, <2>1, <2>2
<1>7. kept = <<>> => hits = {}
  <2> SUFFICES ASSUME kept = <<>>, NEW h \in hits PROVE FALSE
    OBVIOUS
  <2> QED
    BY <1>1
<1>8. ASSUME \A x \in DOMAIN kept : kept[x].conf # "high", NEW h \in hits
      PROVE  \E k \in ToSet(kept) : k.conf = "heuristic" /\ h.start \in k.start .. (k.end - 1)
  <2>1. PICK k \in ToSet(kept) : h.start \in k.start .. (k.end - 1)
    BY <1>6
  <2>2. k.conf = "heuristic"
    BY <1>1, <1>4, <1>5, <1>8
  <2> QED
    BY <2>1, <2>2
<1>9. /\ ToSet(kept) \subseteq hits
      /\ \A k \in 1..(Len(kept) - 1) : kept[k].end <= kept[k + 1].start
      /\ \A h \in hits : \E k \in ToSet(kept) : h.start \in k.start .. (k.end - 1)
      /\ PII(s, d) = "pass" => hits = {}
      /\ PII(s, d) = "warn" /\ ~d =>
           \A h \in hits : h.conf = "high" =>
               \E k \in ToSet(kept) : k.conf = "heuristic" /\ h.start \in k.start .. (k.end - 1)
  BY <1>1, <1>3, <1>5, <1>6, <1>7, <1>8
<1> QED
  BY <1>9 DEF hits, kept

\* Whatever the file, the weights and the token lengths: every hit starts inside a kept span,
\* `pii` passes only a file without hits, and `pii_redaction` fails only at a seam or where the
\* mask removed a passport's flank (pii.go).
THEOREM MaskingCorrect == MaskingSpec => []MaskingInv
<1>1. MaskingIInv => MaskingInv
  <2> SUFFICES ASSUME MaskingIInv, piiCheck.result # "none" PROVE MaskingInv
    BY DEF MaskingInv
  <2> DEFINE d == piiCheck.declared
  <2>1. Text \in Seq(Chars) /\ d \in BOOLEAN /\ piiCheck.result = PII(Text, d)
        /\ redactionCheck = PIIRedaction(Text)
    BY TextIsText DEF MaskingIInv
  <2> HIDE DEF d
  <2>2. redactionCheck = "fail" => Seamed(Text) \/ Bared(Text)
    BY <2>1, Redaction
  <2> DEFINE hits == ToSet(RawHits(Text))
             kept == Scan(Text)
  <2>3. /\ ToSet(kept) \subseteq hits
        /\ \A k \in 1..(Len(kept) - 1) : kept[k].end <= kept[k + 1].start
        /\ \A h \in hits : \E k \in ToSet(kept) : h.start \in k.start .. (k.end - 1)
        /\ PII(Text, d) = "pass" => hits = {}
        /\ PII(Text, d) = "warn" /\ ~d =>
             \A h \in hits : h.conf = "high" =>
                 \E k \in ToSet(kept) : k.conf = "heuristic" /\ h.start \in k.start .. (k.end - 1)
    BY <2>1, Sound
  <2>4. redactionCheck = "fail" =>
             \/ \E h \in hits, k \in ToSet(kept) : Straddles(h, k)
             \/ \E p \in ToSet(Passports(Text)), k \in ToSet(kept) :
                    isFlanked(Text, p) /\ (k.end = p.start \/ p.end = k.start)
    BY <2>2 DEF Seamed, Bared
  <2> QED
    BY <2>1, <2>3, <2>4 DEF MaskingInv, d
<1> QED
  BY <1>1, MaskingInductive, PTL

-----------------------------------------------------------------------------
\* What the proofs need of the constants.
LEMMA ScreeningConstants ==
  /\ PValues \subseteq Nat /\ Columns \in Nat
  /\ AuthMinColN \in Nat /\ AuthMinColN > 0
  /\ SchemaMaxRows \in Nat
  /\ UniqueKeyMin \in Nat /\ UniqueKeyMin >= 2
  /\ \A c \in Cells : KindOf[c] \in {"int", "num"} => ValueOf[c] \in Int
<1>1. ValueOf \in [{c \in Cells : KindOf[c] \in {"int", "num"}} -> Int]
  BY ScreeningAssumption, SMTT(30) DEF ScreeningAssumption
<1>2. PValues \subseteq 0..10000
  <2> SUFFICES ASSUME NEW p \in PValues PROVE p \in 0..10000
    OBVIOUS
  <2> QED
    BY ScreeningAssumption, SMTT(30) DEF ScreeningAssumption
<1>3. Columns \in Nat /\ SchemaMaxRows \in Nat
  BY ScreeningAssumption, SMTT(30) DEF ScreeningAssumption
<1>4. AuthMinColN \in Nat \ {0} /\ UniqueKeyMin \in Nat \ {0, 1}
  BY ScreeningAssumption, SMTT(30) DEF ScreeningAssumption
<1>5. PValues \subseteq Nat
  BY <1>2
<1>6. AuthMinColN \in Nat /\ AuthMinColN > 0 /\ UniqueKeyMin \in Nat /\ UniqueKeyMin >= 2
  BY <1>4
<1>7. ASSUME NEW c \in Cells, KindOf[c] \in {"int", "num"} PROVE ValueOf[c] \in Int
  <2> DEFINE C == {d \in Cells : KindOf[d] \in {"int", "num"}}
  <2>1. c \in C /\ ValueOf \in [C -> Int]
    BY <1>1, <1>7
  <2> HIDE DEF C
  <2> QED
    BY <2>1
<1> QED
  BY <1>3, <1>5, <1>6, <1>7

\* The places of p-values: from 1, in their order, the last of the equal ones counting all that
\* are not greater.
Ranked(D, ps) ==
    /\ \A k \in D : Rank(ps, k) \in Nat \ {0}
    /\ \A i, j \in D : Rank(ps, j) >= Rank(ps, i) => ps[i] <= ps[j]
    /\ \A j \in D : Rank(ps, j) <= Cardinality({l \in D : ps[l] <= ps[j]})
    /\ \A j \in D : \E l \in D : /\ ps[l] = ps[j]
                                 /\ Rank(ps, l) = Cardinality({i \in D : ps[i] <= ps[j]})

\* The ranks of finitely many p-values are such places.
LEMMA RankFacts ==
  ASSUME NEW D, IsFiniteSet(D), D \subseteq Nat, NEW ps, \A k \in D : ps[k] \in Nat, DOMAIN ps = D
  PROVE  Ranked(D, ps)
<1> DEFINE Below(k) == {j \in D : ps[j] < ps[k] \/ (ps[j] = ps[k] /\ j <= k)}
           Upto(k) == {j \in D : ps[j] <= ps[k]}
<1>0. \A k \in D : k \in Nat /\ ps[k] \in Nat
  OBVIOUS
<1>1. ASSUME NEW k \in D PROVE Rank(ps, k) = Cardinality(Below(k))
  BY DEF Rank
<1>2. ASSUME NEW k \in D
      PROVE  /\ k \in Below(k) /\ IsFiniteSet(Below(k)) /\ Cardinality(Below(k)) \in Nat
             /\ Below(k) \subseteq Upto(k) /\ IsFiniteSet(Upto(k))
             /\ Cardinality(Upto(k)) \in Nat /\ Cardinality(Below(k)) <= Cardinality(Upto(k))
  <2>1. k \in Below(k) /\ Below(k) \subseteq D /\ Upto(k) \subseteq D
    BY <1>0
  <2>2. Below(k) \subseteq Upto(k)
    <3> SUFFICES ASSUME NEW j \in Below(k) PROVE j \in Upto(k)
      OBVIOUS
    <3>1. j \in D /\ (ps[j] < ps[k] \/ ps[j] = ps[k])
      OBVIOUS
    <3>2. ps[j] \in Nat /\ ps[k] \in Nat
      BY <1>0, <3>1
    <3> HIDE DEF Below
    <3>3. ps[j] <= ps[k]
      BY <3>1, <3>2
    <3> QED
      BY <3>1, <3>3
  <2> HIDE DEF Below, Upto
  <2> QED
    BY <2>1, <2>2, FS_Subset, FS_CardinalityType
<1>3. \A k \in D : Rank(ps, k) \in Nat \ {0}
  <2> SUFFICES ASSUME NEW k \in D PROVE Rank(ps, k) \in Nat \ {0}
    OBVIOUS
  <2>1. Rank(ps, k) = Cardinality(Below(k)) /\ k \in Below(k) /\ IsFiniteSet(Below(k))
        /\ Cardinality(Below(k)) \in Nat
    BY <1>1, <1>2
  <2> HIDE DEF Below
  <2>2. Cardinality(Below(k)) # 0
    BY <2>1, FS_EmptySet
  <2> QED
    BY <2>1, <2>2
<1>4. ASSUME NEW i \in D, NEW j \in D, Rank(ps, j) >= Rank(ps, i) PROVE ps[i] <= ps[j]
  <2> SUFFICES ASSUME ps[j] < ps[i] PROVE FALSE
    BY <1>0
  <2>0. i \in Nat /\ j \in Nat /\ ps[i] \in Nat /\ ps[j] \in Nat /\ ps[j] < ps[i]
    BY <1>0
  <2>1. Below(j) \cup {i} \subseteq Below(i) /\ i \notin Below(j)
    <3>1. ASSUME NEW l \in Below(j) PROVE l \in Below(i)
      <4>1. l \in D /\ (ps[l] < ps[j] \/ ps[l] = ps[j])
        OBVIOUS
      <4>2. ps[l] \in Nat
        BY <1>0, <4>1
      <4>3. ps[l] < ps[i]
        BY <2>0, <4>1, <4>2
      <4> QED
        BY <4>1, <4>3
    <3>2. i \in Below(i)
      BY <2>0
    <3>3. i \notin Below(j)
      BY <2>0
    <3> HIDE DEF Below
    <3> QED
      BY <3>1, <3>2, <3>3
  <2>2. /\ IsFiniteSet(Below(i)) /\ IsFiniteSet(Below(j)) /\ Cardinality(Below(j)) \in Nat
        /\ Cardinality(Below(i)) \in Nat
        /\ Rank(ps, i) = Cardinality(Below(i)) /\ Rank(ps, j) = Cardinality(Below(j))
    BY <1>1, <1>2
  <2> HIDE DEF Below
  <2>3. Cardinality(Below(j) \cup {i}) = Cardinality(Below(j)) + 1
    BY <2>1, <2>2, FS_AddElement
  <2>4. Cardinality(Below(j) \cup {i}) <= Cardinality(Below(i))
    BY <2>1, <2>2, FS_Subset
  <2> QED
    BY <1>4, <2>2, <2>3, <2>4
<1>5. ASSUME NEW j \in D PROVE Rank(ps, j) <= Cardinality({l \in D : ps[l] <= ps[j]})
  <2>1. Rank(ps, j) = Cardinality(Below(j)) /\ Cardinality(Below(j)) <= Cardinality(Upto(j))
    BY <1>1, <1>2
  <2> QED
    BY <2>1
<1>6. ASSUME NEW j \in D
      PROVE  \E l \in D : ps[l] = ps[j] /\ Rank(ps, l) = Cardinality({i \in D : ps[i] <= ps[j]})
  <2> DEFINE Ties == {l \in D : ps[l] = ps[j]}
             Others == {l \in D : ps[l] # ps[j]}
  <2>1. j \in Ties /\ Ties \subseteq Int /\ IsFiniteSet(Ties)
    <3>1. Ties \subseteq D /\ j \in Ties
      OBVIOUS
    <3> HIDE DEF Ties
    <3>2. IsFiniteSet(Ties)
      BY <3>1, FS_Subset
    <3> QED
      BY <3>1, <3>2
  <2>2. PICK l \in Ties : \A i \in Ties : i <= l
    <3> HIDE DEF Ties
    <3> QED
      BY <2>1, FiniteGreatest
  <2>3. l \in D /\ ps[l] = ps[j] /\ \A i \in D : ps[i] = ps[l] => i <= l
    BY <2>2
  <2>4. Below(l) = Upto(j)
    <3>1. ASSUME NEW i \in D PROVE i \in Below(l) <=> i \in Upto(j)
      <4>1. ps[i] \in Nat /\ ps[l] \in Nat
        BY <1>0, <2>3
      <4>2. ps[i] <= ps[l] <=> ps[i] < ps[l] \/ ps[i] = ps[l]
        BY <4>1
      <4>3. i \in Below(l) <=> ps[i] < ps[l] \/ ps[i] = ps[l]
        BY <2>3
      <4>4. i \in Upto(j) <=> ps[i] <= ps[l]
        BY <2>3
      <4> QED
        BY <4>2, <4>3, <4>4
    <3>2. Below(l) \subseteq D /\ Upto(j) \subseteq D
      OBVIOUS
    <3> HIDE DEF Below, Upto
    <3> QED
      BY <3>1, <3>2
  <2> QED
    BY <1>1, <2>3, <2>4
<1> QED
  BY <1>3, <1>4, <1>5, <1>6 DEF Ranked

\* A p-value is adjusted below alpha exactly when the step-up procedure takes it.
Takes(ps, i) == /\ benjaminiHochberg(ps)[i] \in Int
                /\ benjaminiHochberg(ps)[i] < 6000 <=> i \in StepUp(ps)

\* The adjusted p-value and the step-up procedure, spelled out over the set D of the tests.
Spelled(ps, D, i) ==
    /\ benjaminiHochberg(ps)[i]
         = Min({120000} \cup {Scaled(ps, j) : j \in {j \in D : Rank(ps, j) >= Rank(ps, i)}})
    /\ \A l \in D : l \in StepUp(ps) <=>
         \E j \in D : /\ ps[l] <= ps[j]
                      /\ ps[j] * Cardinality(D) < 500 * Cardinality({k \in D : ps[k] <= ps[j]})

\* They are that.
LEMMA StepUpSpelled ==
  ASSUME NEW ps, NEW i \in DOMAIN ps
  PROVE  Spelled(ps, DOMAIN ps, i)
<1>1. benjaminiHochberg(ps)[i]
        = Min({120000} \cup {Scaled(ps, j) : j \in {j \in DOMAIN ps : Rank(ps, j) >= Rank(ps, i)}})
  BY DEF benjaminiHochberg
<1>2. ASSUME NEW l \in DOMAIN ps
      PROVE  l \in StepUp(ps) <=>
               \E j \in DOMAIN ps :
                  /\ ps[l] <= ps[j]
                  /\ ps[j] * Cardinality(DOMAIN ps)
                       < 500 * Cardinality({k \in DOMAIN ps : ps[k] <= ps[j]})
  BY DEF StepUp
<1> QED
  BY <1>1, <1>2 DEF Spelled

\* The running minimum from the greatest rank down is below alpha where the step-up takes.
LEMMA StepUpTakes ==
  ASSUME NEW D, IsFiniteSet(D), D \subseteq Nat, NEW ps, \A k \in D : ps[k] \in Nat, DOMAIN ps = D,
         NEW i \in D
  PROVE  Takes(ps, i)
<1> DEFINE m == Cardinality(D)
           R(k) == Rank(ps, k)
           U(k) == Cardinality({l \in D : ps[l] <= ps[k]})
           J == {j \in D : R(j) >= R(i)}
           T == {120000} \cup {Scaled(ps, j) : j \in J}
<1>1. m \in Nat /\ \A k \in D : ps[k] \in Nat /\ R(k) \in Nat /\ R(k) > 0
  <2>1. Ranked(D, ps)
    BY RankFacts
  <2>2. m \in Nat
    BY FS_CardinalityType
  <2>3. \A k \in D : R(k) \in Nat \ {0}
    BY <2>1 DEF Ranked
  <2> HIDE DEF m, R
  <2> QED
    BY <2>2, <2>3
<1>2. ASSUME NEW k \in D PROVE U(k) \in Nat
  <2>1. {l \in D : ps[l] <= ps[k]} \subseteq D
    OBVIOUS
  <2> QED
    BY <2>1, FS_Subset, FS_CardinalityType
<1>3. /\ \A j \in D : R(j) >= R(i) => ps[i] <= ps[j]
      /\ \A j \in D : R(j) <= U(j)
      /\ \A j \in D : \E l \in D : ps[l] = ps[j] /\ R(l) = U(j)
  <2>1. Ranked(D, ps)
    BY RankFacts
  <2> QED
    BY <2>1 DEF Ranked
<1>4. ASSUME NEW j \in D
      PROVE  Scaled(ps, j) \in Nat /\ (Scaled(ps, j) < 6000 <=> ps[j] * m < 500 * R(j))
  <2> DEFINE a == ps[j] * m
             r == R(j)
             d == a * 12
  <2>1. a \in Nat /\ r \in Nat /\ r > 0
    BY <1>1
  <2>2. Scaled(ps, j) = d \div r
    BY DEF Scaled
  <2> HIDE DEF r, a
  <2>3. d \in Nat
    BY <2>1
  <2> HIDE DEF d
  <2>4. d \div r \in Nat /\ (d \div r < 6000 <=> d < 6000 * r)
    BY <2>1, <2>3, DivLess
  <2>5. d < 6000 * r <=> a < 500 * r
    BY <2>1 DEF d
  <2> QED
    BY <2>2, <2>4, <2>5 DEF a, r
<1>5. /\ benjaminiHochberg(ps)[i] = Min(T)
      /\ \A l \in D : l \in StepUp(ps) <=> \E j \in D : ps[l] <= ps[j] /\ ps[j] * m < 500 * U(j)
  <2>1. Spelled(ps, D, i)
    BY StepUpSpelled
  <2> QED
    BY <2>1 DEF Spelled
<1>6. T \subseteq Int /\ T # {} /\ (\A t \in T : 0 <= t)
  <2>1. \A j \in J : Scaled(ps, j) \in Nat
    BY <1>4
  <2> HIDE DEF J
  <2> QED
    BY <2>1
<1> HIDE DEF R, U, T
<1>7. Min(T) \in T /\ \A t \in T : Min(T) <= t
  <2> DEFINE b == 0
  <2>0. b \in Int /\ \A t \in T : b <= t
    BY <1>6
  <2> HIDE DEF b
  <2>1. IsMin(Min(T), T)
    BY <1>6, <2>0, MinOf
  <2> QED
    BY <2>1 DEF IsMin
<1>8. Min(T) < 6000 <=> \E j \in J : Scaled(ps, j) < 6000
  <2>1. \A t \in T : t \in Int
    BY <1>6
  <2>2. \A t : t \in T <=> t = 120000 \/ \E j \in J : t = Scaled(ps, j)
    BY DEF T
  <2> HIDE DEF J
  <2>3. ASSUME Min(T) < 6000 PROVE \E j \in J : Scaled(ps, j) < 6000
    BY <1>7, <2>2, <2>3
  <2>4. ASSUME NEW j \in J, Scaled(ps, j) < 6000 PROVE Min(T) < 6000
    <3>1. Scaled(ps, j) \in T
      BY <2>2
    <3> DEFINE x == Scaled(ps, j)
               y == Min(T)
    <3>2. x \in Int /\ y \in Int /\ y <= x /\ x < 6000
      BY <1>7, <2>1, <2>4, <3>1
    <3> HIDE DEF x, y
    <3>3. y < 6000
      BY <3>2
    <3> QED
      BY <3>3 DEF y
  <2> QED
    BY <2>3, <2>4
<1>9. ASSUME NEW j \in J, Scaled(ps, j) < 6000 PROVE i \in StepUp(ps)
  <2>1. j \in D /\ R(j) >= R(i)
    OBVIOUS
  <2>2. ps[j] * m < 500 * R(j) /\ R(j) <= U(j) /\ ps[i] <= ps[j]
    BY <1>3, <1>4, <1>9, <2>1
  <2>3. ps[j] * m \in Nat /\ R(j) \in Nat /\ U(j) \in Nat
    BY <1>1, <1>2, <2>1
  <2>4. ps[j] * m < 500 * U(j)
    BY <2>2, <2>3
  <2> QED
    BY <1>5, <2>1, <2>2, <2>4
<1>10. ASSUME i \in StepUp(ps) PROVE \E j \in J : Scaled(ps, j) < 6000
  <2>1. PICK j \in D : ps[i] <= ps[j] /\ ps[j] * m < 500 * U(j)
    BY <1>5, <1>10
  <2>2. PICK l \in D : ps[l] = ps[j] /\ R(l) = U(j)
    BY <1>3
  <2>3. Scaled(ps, l) < 6000
    BY <1>4, <2>1, <2>2
  <2>4. R(l) >= R(i)
    <3>1. U(i) <= U(j)
      <4>1. {k \in D : ps[k] <= ps[i]} \subseteq {k \in D : ps[k] <= ps[j]}
        <5> SUFFICES ASSUME NEW k \in D, ps[k] <= ps[i] PROVE ps[k] <= ps[j]
          OBVIOUS
        <5>1. ps[k] \in Nat /\ ps[i] \in Nat /\ ps[j] \in Nat
          OBVIOUS
        <5> QED
          BY <2>1, <5>1
      <4>2. IsFiniteSet({k \in D : ps[k] <= ps[j]})
        <5>1. {k \in D : ps[k] <= ps[j]} \subseteq D
          OBVIOUS
        <5> QED
          BY <5>1, FS_Subset
      <4> DEFINE A == {k \in D : ps[k] <= ps[i]}
                 B == {k \in D : ps[k] <= ps[j]}
      <4>3. U(i) = Cardinality(A) /\ U(j) = Cardinality(B)
        BY DEF U
      <4>4. A \subseteq B /\ IsFiniteSet(B)
        BY <4>1, <4>2
      <4> HIDE DEF A, B
      <4> QED
        BY <4>3, <4>4, FS_Subset
    <3>2. R(i) <= U(i) /\ R(i) \in Nat /\ U(i) \in Nat /\ U(j) \in Nat
      BY <1>1, <1>2, <1>3
    <3> QED
      BY <2>2, <3>1, <3>2
  <2> QED
    BY <2>3, <2>4
<1> QED
  <2>1. Min(T) \in Int
    BY <1>6, <1>7
  <2> QED
    BY <1>5, <1>8, <1>9, <1>10, <2>1 DEF Takes

\* A finding of one of the detectors.
FindingType == [column : Nat, p : PValues \cup {-1}, severity : {"info", "low", "medium", "high"}]

\* The correction sets severities and nothing else.
Corrected(fs, gs) ==
    /\ gs \in Seq(FindingType) /\ PTests(gs) = PTests(fs)
    /\ [k \in PTests(gs) |-> gs[k].p] = [k \in PTests(fs) |-> fs[k].p]
    /\ \A k \in PTests(fs) :
          gs[k].severity = severityFromP(benjaminiHochberg([j \in PTests(fs) |-> fs[j].p])[k])

\* applyFDR is such a correction.
LEMMA Correction ==
  ASSUME NEW fs \in Seq(FindingType)
  PROVE  Corrected(fs, applyFDR(fs))
<1> DEFINE n == Len(fs)
           tests == PTests(fs)
           adj == benjaminiHochberg([k \in tests |-> fs[k].p])
           g(k) == IF k \in tests THEN [fs[k] EXCEPT !.severity = severityFromP(adj[k])] ELSE fs[k]
           gs == applyFDR(fs)
<1>1. DOMAIN fs = 1..n /\ n \in Nat /\ \A k \in 1..n : fs[k] \in FindingType
  OBVIOUS
<1>2. gs = [k \in 1..n |-> g(k)]
  BY <1>1 DEF applyFDR
<1>3. tests = {k \in 1..n : fs[k].p # -1}
  BY <1>1 DEF PTests
<1> HIDE DEF adj, tests, gs
<1>4. \A k \in 1..n : severityFromP(adj[k]) \in {"info", "low", "medium", "high"}
  BY DEF severityFromP
<1>5. ASSUME NEW k \in 1..n
      PROVE  /\ g(k) \in FindingType /\ g(k).p = fs[k].p
             /\ k \in tests => g(k).severity = severityFromP(adj[k])
  <2> DEFINE w == severityFromP(adj[k])
  <2>1. fs[k] \in FindingType /\ w \in {"info", "low", "medium", "high"}
    BY <1>1, <1>4
  <2>2. g(k) = IF k \in tests THEN [fs[k] EXCEPT !.severity = w] ELSE fs[k]
    OBVIOUS
  <2> HIDE DEF g, w
  <2>3. /\ g(k) \in FindingType /\ g(k).p = fs[k].p
        /\ k \in tests => g(k).severity = w
    BY <2>1, <2>2 DEF FindingType
  <2> QED
    BY <2>3 DEF w
<1> HIDE DEF g
<1>6. gs \in Seq(FindingType) /\ DOMAIN gs = 1..n /\ \A k \in 1..n : gs[k].p = fs[k].p
  <2>1. \A k \in 1..n : g(k) \in FindingType /\ g(k).p = fs[k].p
    BY <1>5
  <2> HIDE DEF n
  <2>2. gs \in [1..n -> FindingType]
    BY <1>2, <2>1
  <2> QED
    BY <1>1, <1>2, <2>1, <2>2
<1>7. PTests(gs) = tests
  BY <1>3, <1>6 DEF PTests
<1>8. [k \in PTests(gs) |-> gs[k].p] = [k \in tests |-> fs[k].p]
  <2>1. \A k \in tests : gs[k].p = fs[k].p
    BY <1>3, <1>6
  <2> QED
    BY <1>7, <2>1
<1>9. \A k \in tests : gs[k].severity = severityFromP(adj[k])
  BY <1>2, <1>3, <1>5
<1> QED
  BY <1>6, <1>7, <1>8, <1>9 DEF Corrected, gs, tests, adj

\* After it the tests called significant are those the step-up procedure takes.
LEMMA SignificantTests ==
  ASSUME NEW fs \in Seq(FindingType), NEW gs, gs = applyFDR(fs)
  PROVE  StepUp([k \in PTests(gs) |-> gs[k].p]) = {k \in PTests(gs) : gs[k].severity # "info"}
<1> DEFINE D == PTests(fs)
           ps == [k \in D |-> fs[k].p]
           adj == benjaminiHochberg(ps)
<1>1. Corrected(fs, gs)
  BY Correction
<1>2. PTests(gs) = D /\ [k \in PTests(gs) |-> gs[k].p] = ps
      /\ \A k \in D : gs[k].severity = severityFromP(adj[k])
  BY <1>1 DEF Corrected
<1>3. IsFiniteSet(D) /\ D \subseteq Nat /\ \A k \in D : fs[k].p \in Nat
  <2>1. DOMAIN fs = 1..Len(fs) /\ Len(fs) \in Nat /\ \A k \in 1..Len(fs) : fs[k] \in FindingType
    OBVIOUS
  <2>2. D \subseteq 1..Len(fs)
    BY <2>1 DEF PTests
  <2>3. IsFiniteSet(1..Len(fs)) /\ 1..Len(fs) \subseteq Nat
    BY <2>1, FS_Interval
  <2>4. \A k \in D : fs[k].p \in PValues \cup {-1} /\ fs[k].p # -1
    <3>1. \A k \in D : fs[k].p # -1
      BY DEF PTests
    <3> QED
      BY <2>1, <2>2, <3>1 DEF FindingType
  <2>5. PValues \subseteq Nat
    BY ScreeningConstants
  <2> HIDE DEF D
  <2>6. IsFiniteSet(D)
    BY <2>2, <2>3, FS_Subset
  <2> QED
    BY <2>2, <2>3, <2>4, <2>5, <2>6
<1> HIDE DEF D
<1>4. DOMAIN ps = D /\ \A k \in D : ps[k] \in Nat
  BY <1>3
<1>5. StepUp(ps) \subseteq D
  BY <1>4 DEF StepUp
<1> HIDE DEF ps, adj
<1>6. ASSUME NEW k \in D PROVE k \in StepUp(ps) <=> gs[k].severity # "info"
  <2>1. Takes(ps, k)
    BY <1>3, <1>4, StepUpTakes
  <2>2. adj[k] \in Int /\ (adj[k] < 6000 <=> k \in StepUp(ps))
    BY <2>1 DEF Takes, adj
  <2> DEFINE x == adj[k]
  <2> HIDE DEF x
  <2>3. severityFromP(x) # "info" <=> x < 6000
    <3>1. x \in Int
      BY <2>2 DEF x
    <3> QED
      BY <3>1 DEF severityFromP
  <2> QED
    BY <1>2, <2>2, <2>3 DEF x
<1> QED
  BY <1>2, <1>5, <1>6

\* The columns with findings are finitely many.
LEMMA ColumnsFinite ==
  ASSUME NEW fs \in Seq(FindingType)
  PROVE  IsFiniteSet(ColumnsFound(fs)) /\ Cardinality(ColumnsFound(fs)) \in Nat
<1>1. DOMAIN fs = 1..Len(fs) /\ Len(fs) \in Nat
  OBVIOUS
<1>2. IsFiniteSet(DOMAIN fs)
  BY <1>1, FS_Interval
<1> DEFINE f == [k \in DOMAIN fs |-> fs[k].column]
           S == DOMAIN fs
           T == ColumnsFound(fs)
<1>3. f \in Surjection(S, T)
  <2>1. T = {f[k] : k \in S}
    BY DEF ColumnsFound
  <2>2. DOMAIN f = S
    OBVIOUS
  <2>3. \A k \in S : f[k] \in T
    BY <2>1
  <2>4. f \in [S -> T]
    <3>1. f = [k \in S |-> f[k]]
      OBVIOUS
    <3> HIDE DEF f, T
    <3> QED
      BY <2>3, <3>1
  <2> HIDE DEF f, T
  <2> QED
    BY <2>1, <2>4 DEF Surjection
<1> HIDE DEF f, T, S
<1>4. IsFiniteSet(T)
  BY <1>2, <1>3, FS_Surjection DEF S
<1>5. Cardinality(T) \in Nat
  BY <1>4, FS_CardinalityType
<1> QED
  BY <1>4, <1>5 DEF T

\* The least score of so many columns with findings.
LEMMA ScoreOfColumns ==
  ASSUME NEW fs \in Seq(FindingType)
  PROVE  /\ Band(scoreAuthenticity(fs)) = "suspect" => Cardinality(ColumnsFound(fs)) >= 3
         /\ scoreAuthenticity(fs) >= 100 - 20 * Cardinality(ColumnsFound(fs))
<1> DEFINE C == ColumnsFound(fs)
           f == Strongest(fs)
           m == Cardinality(C)
           s == SumFunctionOnSet(f, C)
<1>1. IsFiniteSet(C) /\ m \in Nat
  BY ColumnsFinite
<1>2. ASSUME NEW c \in C PROVE f[c] \in Int /\ f[c] <= 20
  <2> DEFINE K == {k \in DOMAIN fs : fs[k].column = c}
             T == {Penalty[fs[k].severity] : k \in K}
             b == 20
  <2>1. K # {}
    BY DEF ColumnsFound
  <2>2. ASSUME NEW k \in K PROVE Penalty[fs[k].severity] \in {0, 4, 10, 20}
    <3>1. fs[k] \in FindingType
      OBVIOUS
    <3>2. fs[k].severity \in {"info", "low", "medium", "high"}
      BY <3>1 DEF FindingType
    <3> QED
      BY <3>2 DEF Penalty
  <2> HIDE DEF K
  <2>3. T # {} /\ T \subseteq Int /\ b \in Int /\ \A t \in T : t <= b
    BY <2>1, <2>2
  <2>4. f[c] = Max(T)
    BY DEF Strongest, K
  <2> HIDE DEF T, b, f
  <2>5. IsMax(Max(T), T)
    BY <2>3, MaxOfInts
  <2>6. Max(T) \in T
    BY <2>5 DEF IsMax
  <2>7. Max(T) \in Int /\ Max(T) <= b
    BY <2>3, <2>6
  <2> QED
    BY <2>4, <2>7 DEF b
<1> DEFINE c20 == 20
<1>3. c20 \in Int /\ \A c \in C : f[c] \in Int /\ f[c] <= c20
  BY <1>2
<1>4. s \in Int
  <2> HIDE DEF C, f
  <2> QED
    BY <1>1, <1>3, SumInt
<1>5. s <= c20 * m
  <2> HIDE DEF C, f, c20
  <2> QED
    BY <1>1, <1>3, SumAtMost
<1>6. scoreAuthenticity(fs) = IF 100 - s < 0 THEN 0 ELSE 100 - s
  BY DEF scoreAuthenticity
<1> HIDE DEF s, m
<1>7. scoreAuthenticity(fs) \in Int /\ scoreAuthenticity(fs) >= 100 - 20 * m
  BY <1>1, <1>4, <1>5, <1>6
<1> DEFINE score == scoreAuthenticity(fs)
<1> HIDE DEF score
<1>8. ASSUME Band(score) = "suspect" PROVE m >= 3
  <2>1. score < 60
    BY <1>7, <1>8 DEF Band, score
  <2> QED
    BY <1>1, <1>7, <2>1 DEF score
<1> QED
  BY <1>7, <1>8 DEF score, m, C

\* The values of a column with the opposite sign.
Mirrored(vals) == [k \in DOMAIN vals |-> -vals[k]]

\* A value that stands out among the values stands out mirrored among the mirrored ones.
LEMMA OutlyingMirror ==
  ASSUME NEW D, IsFiniteSet(D), NEW vals, DOMAIN vals = D, \A k \in D : vals[k] \in Int,
         NEW cand \in Int, OutlyingMode(vals, cand)
  PROVE  OutlyingMode(Mirrored(vals), -cand)
<1> DEFINE g == Mirrored(vals)
           others == {k \in D : vals[k] # cand}
           m == Cardinality(others)
           n == Cardinality(D)
           sq == [k \in others |-> vals[k] * vals[k]]
           gq == [k \in others |-> g[k] * g[k]]
           sum == SumFunctionOnSet(vals, others)
           sum2 == SumFunctionOnSet(sq, others)
           gum == SumFunctionOnSet(g, others)
           gum2 == SumFunctionOnSet(gq, others)
<1>1. DOMAIN g = D /\ \A k \in D : vals[k] \in Int /\ g[k] = -vals[k]
  BY DEF Mirrored
<1> HIDE DEF g
<1>2. {k \in D : g[k] # -cand} = others
  BY <1>1
<1>3. others \subseteq D /\ IsFiniteSet(others)
  <2>1. others \subseteq D
    OBVIOUS
  <2> HIDE DEF others
  <2> QED
    BY <2>1, FS_Subset
<1>4. \A k \in others : sq[k] \in Int /\ sq[k] = gq[k]
  <2> SUFFICES ASSUME NEW k \in others PROVE sq[k] \in Int /\ sq[k] = gq[k]
    OBVIOUS
  <2> DEFINE x == vals[k]
  <2>1. x \in Int /\ g[k] = -x
    BY <1>1, <1>3
  <2>2. sq[k] = x * x /\ gq[k] = g[k] * g[k]
    OBVIOUS
  <2> HIDE DEF x, sq, gq
  <2>3. (-x) * (-x) = x * x /\ x * x \in Int
    BY <2>1
  <2> QED
    BY <2>1, <2>2, <2>3
<1>5. /\ (n - m) * 10 >= n * 4 /\ m > 0 /\ m * sum2 - sum * sum > 0
      /\ \A k \in others : (vals[k] - cand) * (vals[k] - cand) * (m * m) >= 9 * (m * sum2 - sum * sum)
  BY DEF OutlyingMode
<1>6. gum2 = sum2 /\ gum = -sum /\ sum \in Int
  <2>0. \A k \in others : vals[k] \in Int /\ g[k] = -vals[k]
    BY <1>1, <1>3
  <2> HIDE DEF others, sq, gq
  <2>1. sum2 = gum2
    BY <1>3, <1>4, SumAgree
  <2>2. gum = -sum
    BY <1>3, <2>0, SumNegate
  <2>3. sum \in Int
    BY <1>3, <2>0, SumInt
  <2> QED
    BY <2>1, <2>2, <2>3
<1>7. gum * gum = sum * sum
  <2> HIDE DEF sum, gum
  <2>1. gum = -sum /\ sum \in Int
    BY <1>6
  <2>2. (-sum) * (-sum) = sum * sum
    BY <2>1
  <2> QED
    BY <2>1, <2>2
<1>8. m * gum2 - gum * gum = m * sum2 - sum * sum
  <2> HIDE DEF sum, gum, sum2, gum2, m
  <2> QED
    BY <1>6, <1>7
<1>9. \A k \in others : (g[k] - (-cand)) * (g[k] - (-cand)) = (vals[k] - cand) * (vals[k] - cand)
  <2> SUFFICES ASSUME NEW k \in others
               PROVE  (g[k] - (-cand)) * (g[k] - (-cand)) = (vals[k] - cand) * (vals[k] - cand)
    OBVIOUS
  <2> DEFINE x == vals[k]
             y == g[k]
  <2>1. x \in Int /\ y = -x
    BY <1>1, <1>3
  <2> HIDE DEF x, y
  <2>2. y - (-cand) = -(x - cand) /\ x - cand \in Int
    BY <2>1
  <2>3. (-(x - cand)) * (-(x - cand)) = (x - cand) * (x - cand)
    BY <2>2
  <2>4. (y - (-cand)) * (y - (-cand)) = (x - cand) * (x - cand)
    BY <2>2, <2>3
  <2> QED
    BY <2>4 DEF x, y
<1>10. \A k \in others :
          (g[k] - (-cand)) * (g[k] - (-cand)) * (m * m) >= 9 * (m * gum2 - gum * gum)
  <2> SUFFICES ASSUME NEW k \in others
               PROVE  (g[k] - (-cand)) * (g[k] - (-cand)) * (m * m) >= 9 * (m * gum2 - gum * gum)
    OBVIOUS
  <2>1. (vals[k] - cand) * (vals[k] - cand) * (m * m) >= 9 * (m * sum2 - sum * sum)
    BY <1>5
  <2>2. (g[k] - (-cand)) * (g[k] - (-cand)) = (vals[k] - cand) * (vals[k] - cand)
    BY <1>9
  <2> HIDE DEF sum, gum, sum2, gum2, m
  <2> QED
    BY <1>8, <2>1, <2>2, Zenon
<1>11. DOMAIN g = D /\ {k \in DOMAIN g : g[k] # -cand} = others
  BY <1>1, <1>2
<1>12. m * gum2 - gum * gum > 0
  <2> HIDE DEF sum, gum, sum2, gum2, m
  <2> QED
    BY <1>5, <1>8
<1>13. OutlyingMode(g, -cand) <=>
          /\ (n - m) * 10 >= n * 4 /\ m > 0 /\ m * gum2 - gum * gum > 0
          /\ \A k \in others :
                (g[k] - (-cand)) * (g[k] - (-cand)) * (m * m) >= 9 * (m * gum2 - gum * gum)
  BY <1>11, Zenon DEF OutlyingMode
<1>14. (n - m) * 10 >= n * 4 /\ m > 0
  BY <1>5
<1> HIDE DEF m, n, sum, sum2, gum, gum2, others
<1>15. OutlyingMode(g, -cand)
  BY <1>10, <1>12, <1>13, <1>14
<1> QED
  BY <1>15 DEF g

\* A placeholder is found in the mirror image of a column where it is found in the column.
LEMMA SentinelMirror ==
  ASSUME NEW D, IsFiniteSet(D), NEW vals, DOMAIN vals = D, \A k \in D : vals[k] \in Int,
         Sentinel(vals)
  PROVE  Sentinel(Mirrored(vals))
<1> DEFINE g == Mirrored(vals)
           A == Range(vals)
           B == Range(g)
<1>1. DOMAIN g = D /\ \A k \in D : vals[k] \in Int /\ g[k] = -vals[k]
  BY DEF Mirrored
<1>2. A \subseteq Int /\ A = {vals[k] : k \in D} /\ B = {g[k] : k \in D}
  BY <1>1 DEF Range
<1> HIDE DEF g
<1>3. \A x : x \in B <=> \E a \in A : x = -a
  BY <1>1, <1>2
<1> HIDE DEF A, B
<1>4. Cardinality(B) = Cardinality(A)
  <2> DEFINE f == [a \in A |-> -a]
  <2>1. f \in Bijection(A, B)
    <3>1. \A a \in A : f[a] = -a /\ a \in Int /\ f[a] \in B
      BY <1>2, <1>3
    <3>2. f \in [A -> B]
      BY <3>1
    <3>3. \A a, c \in A : f[a] = f[c] => a = c
      BY <3>1
    <3>4. \A b \in B : \E a \in A : f[a] = b
      BY <1>3, <3>1
    <3> HIDE DEF f
    <3> QED
      BY <3>2, <3>3, <3>4 DEF Bijection, Injection, Surjection, IsInjective
  <2>2. ExistsBijection(A, B)
    BY <2>1 DEF ExistsBijection
  <2>3. IsFiniteSet(A)
    <3> DEFINE h == [k \in D |-> vals[k]]
    <3>1. h \in [D -> A] /\ \A a \in A : \E k \in D : h[k] = a
      BY <1>2
    <3>2. h \in Surjection(D, A)
      <4> HIDE DEF h
      <4> QED
        BY <3>1 DEF Surjection
    <3> QED
      BY <3>2, FS_Surjection
  <2> QED
    BY <2>2, <2>3, FS_Bijection
<1>5. PICK cand \in A :
         /\ (\A v \in A : cand <= v) \/ (\A v \in A : cand >= v)
         /\ OutlyingMode(vals, cand)
  BY DEF Sentinel, A
<1>6. cand \in Int /\ OutlyingMode(g, -cand)
  BY <1>2, <1>5, OutlyingMirror DEF g
<1>7. -cand \in B
  BY <1>3
<1>8. ASSUME \A v \in A : cand <= v PROVE \A w \in B : -cand >= w
  <2> SUFFICES ASSUME NEW w \in B PROVE -cand >= w
    OBVIOUS
  <2>1. PICK a \in A : w = -a
    BY <1>3
  <2>2. a \in Int /\ cand <= a
    BY <1>2, <1>8
  <2> QED
    BY <1>6, <2>1, <2>2
<1>9. ASSUME \A v \in A : cand >= v PROVE \A w \in B : -cand <= w
  <2> SUFFICES ASSUME NEW w \in B PROVE -cand <= w
    OBVIOUS
  <2>1. PICK a \in A : w = -a
    BY <1>3
  <2>2. a \in Int /\ cand >= a
    BY <1>2, <1>9
  <2> QED
    BY <1>6, <2>1, <2>2
<1>10. Cardinality(A) > SentinelDistinct
  BY DEF Sentinel, A
<1>11. \E c \in B : /\ (\A v \in B : c <= v) \/ (\A v \in B : c >= v)
                    /\ OutlyingMode(g, c)
  BY <1>5, <1>6, <1>7, <1>8, <1>9
<1>12. Cardinality(B) > SentinelDistinct
  BY <1>4, <1>10
<1>13. Sentinel(g)
  BY <1>11, <1>12 DEF Sentinel, B
<1> QED
  BY <1>13 DEF g

\* The numeric values of a column: finitely many whole numbers by their rows.
LEMMA NumericFacts ==
  ASSUME NEW r \in Seq(Cells)
  PROVE  /\ IsFiniteSet(DOMAIN NumericValues(r))
         /\ \A k \in DOMAIN NumericValues(r) : NumericValues(r)[k] \in Int
         /\ NumericValues(r) = [k \in DOMAIN NumericValues(r) |-> NumericValues(r)[k]]
<1> DEFINE d == Data(r)
           nonEmpty == {k \in DOMAIN d : KindOf[d[k]] # "empty"}
           numeric == {k \in nonEmpty : Numeric(d[k])}
<1>1. d \in Seq(Cells)
  BY DEF Data
<1>2. DOMAIN d = 1..Len(d) /\ Len(d) \in Nat /\ \A k \in DOMAIN d : d[k] \in Cells
  BY <1>1
<1> HIDE DEF d
<1>3. IsFiniteSet(numeric) /\ numeric \subseteq DOMAIN d /\ \A k \in numeric : Numeric(d[k])
  <2>1. numeric \subseteq DOMAIN d /\ \A k \in numeric : Numeric(d[k])
    OBVIOUS
  <2>2. IsFiniteSet(DOMAIN d)
    BY <1>2, FS_Interval
  <2> HIDE DEF numeric
  <2> QED
    BY <2>1, <2>2, FS_Subset
<1> HIDE DEF numeric
<1>4. \A k \in numeric : ValueOf[d[k]] \in Int
  <2> SUFFICES ASSUME NEW k \in numeric PROVE ValueOf[d[k]] \in Int
    OBVIOUS
  <2>1. d[k] \in Cells /\ KindOf[d[k]] \in {"int", "num"}
    BY <1>2, <1>3 DEF Numeric
  <2> QED
    BY <2>1, ScreeningConstants
<1> DEFINE f == [k \in numeric |-> ValueOf[d[k]]]
<1>5. NumericValues(r) = f \/ NumericValues(r) = <<>>
  BY DEF NumericValues, numeric, d
<1>6. CASE NumericValues(r) = f
  <2>1. DOMAIN f = numeric /\ (\A k \in numeric : f[k] \in Int) /\ f = [k \in DOMAIN f |-> f[k]]
    BY <1>4
  <2> HIDE DEF f
  <2> QED
    BY <1>3, <1>6, <2>1
<1>7. CASE NumericValues(r) = <<>>
  <2>1. DOMAIN <<>> = {} /\ <<>> = [k \in {} |-> <<>>[k]]
    OBVIOUS
  <2>2. IsFiniteSet({})
    BY FS_EmptySet
  <2> QED
    BY <1>7, <2>1, <2>2
<1> QED
  BY <1>5, <1>6, <1>7

\* A placeholder is found in a column exactly when it is found in its mirror image.
LEMMA SentinelBothWays ==
  ASSUME NEW r \in Seq(Cells)
  PROVE  Sentinel(NumericValues(r)) <=> Sentinel(Mirrored(NumericValues(r)))
<1> DEFINE v == NumericValues(r)
           D == DOMAIN v
           g == Mirrored(v)
<1>1. IsFiniteSet(D) /\ (\A k \in D : v[k] \in Int) /\ v = [k \in D |-> v[k]]
  BY NumericFacts
<1> HIDE DEF v
<1>2. DOMAIN g = D /\ \A k \in D : g[k] \in Int /\ g[k] = -v[k]
  BY <1>1 DEF Mirrored
<1>3. Mirrored(g) = v
  <2>1. \A k \in D : -g[k] = v[k]
    BY <1>1, <1>2
  <2>2. Mirrored(g) = [k \in D |-> -g[k]]
    BY <1>2 DEF Mirrored
  <2> HIDE DEF g, D
  <2> QED
    BY <1>1, <2>1, <2>2
<1>4. Sentinel(v) => Sentinel(g)
  BY <1>1, SentinelMirror
<1>5. Sentinel(g) => Sentinel(Mirrored(g))
  <2> HIDE DEF g
  <2> QED
    BY <1>1, <1>2, SentinelMirror
<1>6. Sentinel(v) <=> Sentinel(g)
  BY <1>3, <1>4, <1>5
<1> QED
  BY <1>6 DEF v

\* The severity of so many rows with so many texts.
CopiesOf(total, kinds) ==
    IF total < AuthMinColN \/ 10 * (total - kinds) < 3 * total THEN "none"
    ELSE IF 10 * (total - kinds) > 6 * total THEN "high"
    ELSE IF 10 * (total - kinds) > 4 * total THEN "medium" ELSE "low"

\* One more row with none of its own text is not a lower severity.
LEMMA CopiesGrow ==
  ASSUME NEW n \in Nat, NEW k \in Nat
  PROVE  SeverityRank[CopiesOf(n + 1, k)] >= SeverityRank[CopiesOf(n, k)]
<1>1. /\ SeverityRank["none"] = 0 /\ SeverityRank["low"] = 1
      /\ SeverityRank["medium"] = 2 /\ SeverityRank["high"] = 3
  BY DEF SeverityRank
<1> DEFINE a == CopiesOf(n, k)
           b == CopiesOf(n + 1, k)
<1>2. AuthMinColN \in Nat
  BY ScreeningConstants
<1>3. /\ a \in {"none", "low", "medium", "high"} /\ b \in {"none", "low", "medium", "high"}
      /\ b = "none" => a = "none"
      /\ b = "low" => a \in {"none", "low"}
      /\ b = "medium" => a \in {"none", "low", "medium"}
  BY <1>2 DEF CopiesOf
<1> HIDE DEF a, b
<1>4. SeverityRank[b] >= SeverityRank[a]
  BY <1>1, <1>3
<1> QED
  BY <1>4 DEF a, b

\* What the rows of a file are after its last one is repeated.
LEMMA DataRepeated ==
  ASSUME NEW r \in Seq(Cells), r # <<>>, Data(r) # <<>>
  PROVE  Len(Data(Append(r, Last(r)))) = Len(Data(r)) + 1
         /\ ToSet(Data(Append(r, Last(r)))) = ToSet(Data(r))
<1> DEFINE l == Last(r)
           a == Append(r, l)
           n == Len(r)
<1>1. n \in Nat /\ n > 0 /\ DOMAIN r = 1..n /\ l = r[n] /\ l \in Cells
  BY DEF Last
<1> HIDE DEF l
<1>2. a \in Seq(Cells) /\ Len(a) = n + 1 /\ a # <<>> /\ a[1] = r[1] /\ a[n + 1] = l
      /\ \A k \in 1..n : a[k] = r[k]
  BY <1>1
<1> HIDE DEF a
<1>3. CASE Numeric(r[1])
  <2>1. Data(r) = r /\ Data(a) = a
    BY <1>2, <1>3 DEF Data
  <2>2. ToSet(a) = ToSet(r)
    <3>1. DOMAIN a = 1..(n + 1) /\ DOMAIN r = 1..n
      BY <1>1, <1>2
    <3>2. ToSet(a) = {a[k] : k \in 1..(n + 1)} /\ ToSet(r) = {r[k] : k \in 1..n}
      BY <3>1 DEF ToSet
    <3>3. ASSUME NEW k \in 1..(n + 1) PROVE a[k] \in ToSet(r)
      BY <1>1, <1>2, <3>2
    <3>4. ASSUME NEW k \in 1..n PROVE r[k] \in ToSet(a)
      BY <1>1, <1>2, <3>2
    <3> HIDE DEF n
    <3> QED
      BY <3>2, <3>3, <3>4
  <2> QED
    BY <1>2, <2>1, <2>2 DEF a, l
<1>4. CASE ~Numeric(r[1])
  <2>1. Data(r) = Tail(r) /\ Data(a) = Tail(a)
    BY <1>2, <1>4 DEF Data
  <2>2. n > 1 /\ Len(Tail(r)) = n - 1 /\ Len(Tail(a)) = n
    BY <1>1, <1>2, <2>1
  <2>3. /\ DOMAIN Tail(r) = 1..(n - 1) /\ DOMAIN Tail(a) = 1..n
        /\ \A k \in 1..(n - 1) : Tail(r)[k] = r[k + 1]
        /\ \A k \in 1..n : Tail(a)[k] = a[k + 1]
    BY <1>1, <1>2, <2>2
  <2>4. /\ ToSet(Tail(a)) = {Tail(a)[k] : k \in 1..n}
        /\ ToSet(Tail(r)) = {Tail(r)[k] : k \in 1..(n - 1)}
    BY <2>3 DEF ToSet
  <2>5. ASSUME NEW k \in 1..n PROVE Tail(a)[k] \in ToSet(Tail(r))
    <3>1. CASE k = n
      <4>1. Tail(a)[k] = r[n] /\ n - 1 \in 1..(n - 1) /\ Tail(r)[n - 1] = r[n]
        BY <1>1, <1>2, <2>2, <2>3, <3>1
      <4> QED
        BY <2>4, <4>1
    <3>2. CASE k # n
      <4>1. k \in 1..(n - 1) /\ k + 1 \in 1..n
        <5>1. n \in Nat /\ k \in 1..n
          BY <1>1
        <5> HIDE DEF n
        <5> QED
          BY <3>2, <5>1
      <4>2. Tail(a)[k] = r[k + 1] /\ Tail(r)[k] = r[k + 1]
        BY <1>2, <2>3, <4>1
      <4> QED
        BY <2>4, <4>1, <4>2
    <3> QED
      BY <3>1, <3>2
  <2>6. ASSUME NEW k \in 1..(n - 1) PROVE Tail(r)[k] \in ToSet(Tail(a))
    <3>1. k \in 1..n /\ k + 1 \in 1..n
      BY <1>1
    <3>2. Tail(a)[k] = r[k + 1] /\ Tail(r)[k] = r[k + 1]
      BY <1>2, <2>3, <3>1
    <3> QED
      BY <2>4, <3>1, <3>2
  <2>7. ToSet(Tail(a)) = ToSet(Tail(r))
    <3> HIDE DEF n
    <3> QED
      BY <2>4, <2>5, <2>6
  <2>8. Len(Tail(a)) = Len(Tail(r)) + 1
    BY <1>1, <2>2
  <2> QED
    BY <2>1, <2>7, <2>8 DEF a, l
<1> QED
  BY <1>3, <1>4

\* One more copy of a row never lowers the severity of the duplicates.
LEMMA DuplicatesGrow ==
  ASSUME NEW r \in Seq(Cells), r # <<>>
  PROVE  SeverityRank[DuplicateRows(Append(r, Last(r)))] >= SeverityRank[DuplicateRows(r)]
<1> DEFINE a == Append(r, Last(r))
           n == Len(Data(r))
           k == Cardinality(ToSet(Data(r)))
<1>1. /\ DuplicateRows(r) = CopiesOf(n, k)
      /\ DuplicateRows(a) = CopiesOf(Len(Data(a)), Cardinality(ToSet(Data(a))))
  BY DEF DuplicateRows, CopiesOf
<1>2. Data(r) \in Seq(Cells)
  BY DEF Data
<1>3. n \in Nat /\ k \in Nat
  <2>1. DOMAIN Data(r) = 1..n /\ n \in Nat
    BY <1>2
  <2>2. IsFiniteSet(1..n)
    BY <2>1, FS_Interval
  <2> DEFINE d == Data(r)
             S == 1..n
             T == ToSet(d)
  <2>3. d \in [S -> T] /\ \A t \in T : \E i \in S : d[i] = t
    <3>1. T = {d[i] : i \in S} /\ d = [i \in S |-> d[i]]
      BY <1>2, <2>1 DEF ToSet
    <3> HIDE DEF d, S, T
    <3> QED
      BY <3>1
  <2>4. d \in Surjection(S, T)
    <3> HIDE DEF d, S, T
    <3> QED
      BY <2>3 DEF Surjection
  <2>5. IsFiniteSet(T)
    <3> HIDE DEF d, T
    <3> QED
      BY <2>2, <2>4, FS_Surjection
  <2> QED
    BY <2>1, <2>5, FS_CardinalityType
<1>4. CASE Data(r) # <<>>
  <2>1. DuplicateRows(a) = CopiesOf(n + 1, k)
    <3>1. Len(Data(a)) = n + 1 /\ ToSet(Data(a)) = ToSet(Data(r))
      BY <1>4, DataRepeated
    <3> QED
      BY <1>1, <3>1, Zenon
  <2> HIDE DEF n, k, a
  <2>2. SeverityRank[DuplicateRows(a)] >= SeverityRank[DuplicateRows(r)]
    BY <1>1, <1>3, <2>1, CopiesGrow
  <2> QED
    BY <2>2 DEF a
<1>5. CASE Data(r) = <<>>
  <2>1. n = 0
    BY <1>5
  <2>2. DuplicateRows(r) = "none"
    BY <1>1, <2>1, ScreeningConstants DEF CopiesOf
  <2>3. DuplicateRows(a) \in {"none", "low", "medium", "high"}
    BY <1>1 DEF CopiesOf
  <2> HIDE DEF a
  <2>4. SeverityRank[DuplicateRows(a)] >= SeverityRank[DuplicateRows(r)]
    BY <2>2, <2>3 DEF SeverityRank
  <2> QED
    BY <2>4 DEF a
<1> QED
  BY <1>4, <1>5

\* The profiles of columns, the one before any cell, and what a profile says of so many rows
\* with these texts in them.
Profiles == [null : Nat, nonNull : Nat, distinct : SUBSET Cells, capped : BOOLEAN,
             allInt : BOOLEAN, allNum : BOOLEAN, allBool : BOOLEAN, samples : Seq(Cells)]
Blank == [null |-> 0, nonNull |-> 0, distinct |-> {}, capped |-> FALSE,
          allInt |-> TRUE, allNum |-> TRUE, allBool |-> TRUE, samples |-> <<>>]
Described(p, n, S) ==
    /\ p \in Profiles /\ p.null + p.nonNull = n /\ (p.nonNull = 0 <=> S = {})
    /\ p.allInt <=> \A c \in S : KindOf[c] = "int"
    /\ p.allNum <=> \A c \in S : Numeric(c)
    /\ p.allBool <=> \A c \in S : KindOf[c] = "bool"
    /\ p.distinct \subseteq S /\ (p.capped <=> p.distinct # S)
    /\ ToSet(p.samples) \subseteq S /\ IsInjective(p.samples)

\* The profile after each cell.
LEMMA ProfileSteps ==
  ASSUME NEW r, NEW d \in Seq(Cells), d = Data(r), Blank \in Profiles,
         \A p \in Profiles : \A c \in Cells : ProfileCell(p, c) \in Profiles
  PROVE  \E h \in [0..Len(d) -> Profiles] :
            /\ h[0] = Blank
            /\ \A k \in 1..Len(d) : h[k] = ProfileCell(h[k - 1], d[k])
            /\ Profile(r) = h[Len(d)]
<1> DEFINE n == Len(d)
           V == Profiles
           F(v, m) == ProfileCell(v, m)
           E(g) == [t \in SUBSET DOMAIN d |->
                       IF t = {} THEN Blank ELSE F(g[t \ {Max(t)}], d[Max(t)])]
           it == CHOOSE g : g = E(g)
           G == [p \in V \X (1..n) |-> F(p[1], d[p[2]])]
<1>1. Profile(r) = it[DOMAIN d]
  BY DEF Profile, FoldLeft, MapThenFoldSet, Blank
<1>2. n \in Nat /\ DOMAIN d = 1..n /\ Blank \in V
  OBVIOUS
<1>3. ASSUME NEW v \in V, NEW i \in 1..n PROVE F(v, d[i]) \in V /\ G[<<v, i>>] = F(v, d[i])
  <2>1. F(v, d[i]) \in V
    OBVIOUS
  <2> HIDE DEF F, V
  <2> QED
    BY <2>1
<1> HIDE DEF V, F, n
<1>4. G \in [V \X (1..n) -> V]
  BY <1>3
<1> HIDE DEF G
<1>5. ASSUME NEW t \in SUBSET (1..n), t # {} PROVE Max(t) \in 1..n
  BY <1>2, <1>5, MaxOf
<1>6. PICK g \in [SUBSET (1..n) -> V] : FoldIterates(g, G, Blank, SUBSET (1..n))
  BY <1>2, <1>4, FoldExists
<1>7. ASSUME NEW t \in SUBSET (1..n)
      PROVE  g[t] = IF t = {} THEN Blank ELSE F(g[t \ {Max(t)}], d[Max(t)])
  <2>1. g[t] = IF t = {} THEN Blank ELSE G[<<g[t \ {Max(t)}], Max(t)>>]
    BY <1>6 DEF FoldIterates
  <2>2. CASE t # {}
    <3>1. g[t \ {Max(t)}] \in V
      BY <1>6
    <3>2. G[<<g[t \ {Max(t)}], Max(t)>>] = F(g[t \ {Max(t)}], d[Max(t)])
      BY <1>3, <1>5, <2>2, <3>1
    <3> QED
      BY <2>1, <2>2, <3>2
  <2> QED
    BY <2>1, <2>2
<1>8. g = E(g)
  <2>1. g = [t \in SUBSET (1..n) |-> g[t]]
    BY <1>6
  <2> QED
    BY <1>2, <1>7, <2>1, Zenon
<1>9. it = E(it)
  <2>1. \E k : k = E(k)
    BY <1>8
  <2> HIDE DEF E
  <2> QED
    BY <2>1
<1> HIDE DEF it
<1>10. it[{}] = Blank
  BY <1>2, <1>9
<1>11. ASSUME NEW t \in SUBSET (1..n), t # {}, it[t \ {Max(t)}] \in V
       PROVE  it[t] = G[<<it[t \ {Max(t)}], Max(t)>>]
  <2>1. it[t] = F(it[t \ {Max(t)}], d[Max(t)])
    BY <1>2, <1>9, <1>11
  <2> QED
    BY <1>3, <1>5, <1>11, <2>1
<1> HIDE DEF E
<1>12. Unfolds(it, G, Blank, V, n)
  BY <1>10, <1>11, Zenon DEF Unfolds
<1>13. n \in Nat /\ Blank \in V
  BY <1>2
<1>14. Folded(it[1..n], G, Blank, V, n)
  BY <1>4, <1>12, <1>13, FoldSteps
<1>15. PICK h \in [0..n -> V] :
          /\ h[0] = Blank
          /\ \A k \in 1..n : h[k] = G[<<h[k - 1], k>>]
          /\ h[n] = it[1..n]
  BY <1>14 DEF Folded
<1>16. ASSUME NEW k \in 1..n PROVE h[k] = F(h[k - 1], d[k])
  <2>1. k - 1 \in 0..n
    BY <1>2
  <2>2. h[k - 1] \in V /\ h[k] = G[<<h[k - 1], k>>]
    BY <1>15, <2>1
  <2> QED
    BY <1>3, <2>2
<1>17. Profile(r) = h[n]
  BY <1>1, <1>2, <1>15
<1> QED
  BY <1>15, <1>16, <1>17, Zenon DEF n, V, F

\* Different examples, all of them among the texts S.
Sampled(e, S) == e \in Seq(Cells) /\ ToSet(e) \subseteq S /\ IsInjective(e)

\* The example values after one more of them.
LEMMA OneMoreSample ==
  ASSUME NEW s \in Seq(Cells), NEW S, ToSet(s) \subseteq S, IsInjective(s), NEW c \in Cells,
         NEW e, e = IF Len(s) < SchemaSamples /\ c \notin ToSet(s) THEN Append(s, c) ELSE s
  PROVE  Sampled(e, S \cup {c})
<1>1. CASE e = s
  BY <1>1 DEF Sampled
<1>2. CASE e = Append(s, c) /\ c \notin ToSet(s)
  <2> DEFINE n == Len(s)
  <2>1. n \in Nat /\ DOMAIN s = 1..n /\ ToSet(s) = {s[k] : k \in 1..n}
    BY DEF ToSet
  <2>2. /\ e \in Seq(Cells) /\ DOMAIN e = 1..(n + 1) /\ e[n + 1] = c
        /\ \A k \in 1..n : e[k] = s[k]
    BY <1>2
  <2>3. ToSet(e) = {e[k] : k \in 1..(n + 1)}
    BY <2>2 DEF ToSet
  <2>4. \A a, b \in 1..n : s[a] = s[b] => a = b
    BY <2>1 DEF IsInjective
  <2>5. \A k \in 1..n : s[k] # c /\ s[k] \in S
    BY <1>2, <2>1
  <2> HIDE DEF n
  <2>6. \A k \in 1..(n + 1) : k \in 1..n \/ k = n + 1
    BY <2>1
  <2>7. ToSet(e) \subseteq S \cup {c}
    BY <2>2, <2>3, <2>5, <2>6
  <2>8. \A a, b \in 1..(n + 1) : e[a] = e[b] => a = b
    BY <2>2, <2>4, <2>5, <2>6
  <2> QED
    BY <2>2, <2>7, <2>8 DEF IsInjective, Sampled
<1> QED
  BY <1>1, <1>2

\* A cell keeps the profile a description of the rows and the texts so far.
LEMMA CellDescribed ==
  ASSUME NEW p, NEW n \in Nat, NEW S, Described(p, n, S), S \subseteq Cells, NEW c \in Cells,
         n # SchemaMaxRows, KindOf[c] # "empty"
  PROVE  Described(ProfileCell(p, c), n + 1, S \cup {c})
<1> DEFINE q == ProfileCell(p, c)
           full == Cardinality(p.distinct) = SchemaDistinctCap /\ c \notin p.distinct
           sm == IF Len(p.samples) < SchemaSamples /\ c \notin ToSet(p.samples)
                 THEN Append(p.samples, c) ELSE p.samples
           di == IF p.capped \/ full THEN p.distinct ELSE p.distinct \cup {c}
           ai == p.allInt /\ KindOf[c] = "int"
           an == p.allNum /\ Numeric(c)
           ab == p.allBool /\ KindOf[c] = "bool"
           ca == p.capped \/ full
<1>1. /\ p \in Profiles /\ p.null + p.nonNull = n
      /\ p.allInt <=> \A a \in S : KindOf[a] = "int"
      /\ p.allNum <=> \A a \in S : Numeric(a)
      /\ p.allBool <=> \A a \in S : KindOf[a] = "bool"
      /\ p.distinct \subseteq S /\ (p.capped <=> p.distinct # S)
      /\ ToSet(p.samples) \subseteq S /\ IsInjective(p.samples)
  BY DEF Described
<1>2. /\ p.null \in Nat /\ p.nonNull \in Nat /\ p.distinct \in SUBSET Cells
      /\ p.capped \in BOOLEAN /\ p.samples \in Seq(Cells)
      /\ p.allInt \in BOOLEAN /\ p.allNum \in BOOLEAN /\ p.allBool \in BOOLEAN
  BY <1>1 DEF Profiles
<1>3. q = [null |-> p.null, nonNull |-> p.nonNull + 1, distinct |-> di, capped |-> ca,
           allInt |-> ai, allNum |-> an, allBool |-> ab, samples |-> sm]
  BY <1>1, Zenon DEF ProfileCell
<1> HIDE DEF q
<1>4. sm \in Seq(Cells) /\ ToSet(sm) \subseteq S \cup {c} /\ IsInjective(sm)
  <2> DEFINE s == p.samples
  <2>1. sm = IF Len(s) < SchemaSamples /\ c \notin ToSet(s) THEN Append(s, c) ELSE s
    OBVIOUS
  <2>2. s \in Seq(Cells) /\ ToSet(s) \subseteq S /\ IsInjective(s)
    BY <1>1, <1>2
  <2> HIDE DEF full, di, ai, an, ab, ca, sm, s
  <2>3. Sampled(sm, S \cup {c})
    BY <2>1, <2>2, OneMoreSample
  <2> QED
    BY <2>3 DEF Sampled
<1>5. di \in SUBSET Cells /\ di \subseteq S \cup {c} /\ ca \in BOOLEAN
      /\ (ca <=> di # S \cup {c})
  <2> HIDE DEF sm
  <2> QED
    BY <1>1, <1>2
<1>6. /\ ai \in BOOLEAN /\ (ai <=> \A a \in S \cup {c} : KindOf[a] = "int")
      /\ ab \in BOOLEAN /\ (ab <=> \A a \in S \cup {c} : KindOf[a] = "bool")
  BY <1>1, <1>2
<1>7. an \in BOOLEAN /\ (an <=> \A a \in S \cup {c} : Numeric(a))
  BY <1>1, <1>2 DEF Numeric
<1> HIDE DEF sm, di, ai, an, ab, ca
<1>8. q \in Profiles
  BY <1>2, <1>3, <1>4, <1>5, <1>6, <1>7 DEF Profiles
<1>9. q.null + q.nonNull = n + 1 /\ q.nonNull # 0
  BY <1>1, <1>2, <1>3
<1>10. Described(q, n + 1, S \cup {c})
  BY <1>3, <1>4, <1>5, <1>6, <1>7, <1>8, <1>9 DEF Described
<1> QED
  BY <1>10 DEF q

\* An empty cell is counted and nothing else.
LEMMA EmptyDescribed ==
  ASSUME NEW p, NEW n \in Nat, NEW S, Described(p, n, S), NEW c \in Cells,
         n # SchemaMaxRows, KindOf[c] = "empty"
  PROVE  Described(ProfileCell(p, c), n + 1, S)
<1> DEFINE q == ProfileCell(p, c)
<1>1. p \in Profiles /\ p.null + p.nonNull = n
  BY DEF Described
<1>2. q = [p EXCEPT !.null = @ + 1]
  BY <1>1 DEF ProfileCell
<1> HIDE DEF q
<1>3. /\ q \in Profiles /\ q.null + q.nonNull = n + 1 /\ q.nonNull = p.nonNull
      /\ q.allInt = p.allInt /\ q.allNum = p.allNum /\ q.allBool = p.allBool
      /\ q.distinct = p.distinct /\ q.capped = p.capped /\ q.samples = p.samples
  BY <1>1, <1>2 DEF Profiles
<1>4. Described(q, n + 1, S)
  BY <1>3 DEF Described
<1> QED
  BY <1>4 DEF q

\* The operations of the profile stay within its values.
LEMMA ProfileTyped ==
  Blank \in Profiles /\ \A p \in Profiles : \A c \in Cells : ProfileCell(p, c) \in Profiles
<1>1. Blank \in Profiles
  BY DEF Blank, Profiles
<1>2. ASSUME NEW p \in Profiles, NEW c \in Cells PROVE ProfileCell(p, c) \in Profiles
  <2> DEFINE q == ProfileCell(p, c)
             full == Cardinality(p.distinct) = SchemaDistinctCap /\ c \notin p.distinct
             sm == IF Len(p.samples) < SchemaSamples /\ c \notin ToSet(p.samples)
                   THEN Append(p.samples, c) ELSE p.samples
             di == IF p.capped \/ full THEN p.distinct ELSE p.distinct \cup {c}
             ai == p.allInt /\ KindOf[c] = "int"
             an == p.allNum /\ Numeric(c)
             ab == p.allBool /\ KindOf[c] = "bool"
             ca == p.capped \/ full
  <2>1. /\ p.null \in Nat /\ p.nonNull \in Nat /\ p.distinct \in SUBSET Cells
        /\ p.capped \in BOOLEAN /\ p.samples \in Seq(Cells)
        /\ p.allInt \in BOOLEAN /\ p.allNum \in BOOLEAN /\ p.allBool \in BOOLEAN
    BY DEF Profiles
  <2>2. \/ q = p
        \/ q = [p EXCEPT !.null = @ + 1]
        \/ q = [null |-> p.null, nonNull |-> p.nonNull + 1, distinct |-> di, capped |-> ca,
                allInt |-> ai, allNum |-> an, allBool |-> ab, samples |-> sm]
    BY Zenon DEF ProfileCell
  <2>3. /\ sm \in Seq(Cells) /\ di \in SUBSET Cells /\ ca \in BOOLEAN /\ ai \in BOOLEAN
        /\ ab \in BOOLEAN
    BY <2>1
  <2>4. an \in BOOLEAN
    BY <2>1 DEF Numeric
  <2> HIDE DEF q, sm, di, ai, an, ab, ca
  <2>5. q \in Profiles
    BY <2>1, <2>2, <2>3, <2>4 DEF Profiles
  <2> QED
    BY <2>5 DEF q
<1> QED
  BY <1>1, <1>2

\* Nothing is seen before the first row.
LEMMA BlankDescribed == Described(Blank, 0, {})
<1>1. Blank \in Profiles
  BY DEF Blank, Profiles
<1>2. ToSet(<<>>) = {} /\ IsInjective(<<>>)
  BY DEF ToSet, IsInjective
<1>3. /\ Blank.null = 0 /\ Blank.nonNull = 0 /\ Blank.distinct = {} /\ Blank.capped = FALSE
      /\ Blank.allInt = TRUE /\ Blank.allNum = TRUE /\ Blank.allBool = TRUE
      /\ Blank.samples = <<>>
  BY DEF Blank
<1>4. Blank.null + Blank.nonNull = 0
  BY <1>3
<1> QED
  BY <1>1, <1>2, <1>3, <1>4 DEF Described

\* The profile of a file describes the rows it covers.
LEMMA ProfileDescribed ==
  ASSUME NEW r \in Seq(Cells)
  PROVE  Described(Profile(r), Len(Covered(r)), Seen(r))
<1> DEFINE d == Data(r)
           n == Len(d)
           m(k) == IF k <= SchemaMaxRows THEN k ELSE SchemaMaxRows
           seen(k) == {d[i] : i \in {j \in 1..m(k) : KindOf[d[j]] # "empty"}}
<1>1. d \in Seq(Cells)
  BY DEF Data
<1>2. n \in Nat /\ DOMAIN d = 1..n /\ SchemaMaxRows \in Nat /\ \A k \in 1..n : d[k] \in Cells
  <2>1. SchemaMaxRows \in Nat
    BY ScreeningConstants
  <2> HIDE DEF d
  <2> QED
    BY <1>1, <2>1
<1>3. PICK h \in [0..n -> Profiles] :
         /\ h[0] = Blank
         /\ \A k \in 1..n : h[k] = ProfileCell(h[k - 1], d[k])
         /\ Profile(r) = h[n]
  <2> HIDE DEF d
  <2> QED
    BY <1>1, ProfileTyped, ProfileSteps DEF d
<1> HIDE DEF d, n
<1> DEFINE T == {k \in 0..n : Described(h[k], m(k), seen(k))}
<1>4. 0 \in T
  <2>1. m(0) = 0 /\ seen(0) = {}
    BY <1>2
  <2>2. 0 \in 0..n
    BY <1>2
  <2> HIDE DEF m, seen
  <2>3. Described(h[0], m(0), seen(0))
    BY <1>3, <2>1, BlankDescribed, Zenon
  <2> QED
    BY <2>2, <2>3
<1>5. ASSUME NEW k \in 0..(n - 1), k \in T PROVE k + 1 \in T
  <2>1. /\ k + 1 \in 1..n /\ k + 1 \in 0..n /\ (k + 1) - 1 = k /\ d[k + 1] \in Cells
        /\ m(k) \in Nat /\ m(k) <= k
    BY <1>2
  <2> DEFINE c == d[k + 1]
  <2>2. h[k + 1] = ProfileCell(h[k], c)
    BY <1>3, <2>1
  <2>3. Described(h[k], m(k), seen(k))
    BY <1>5
  <2>4. h[k] \in Profiles /\ h[k].null + h[k].nonNull = m(k)
    BY <2>3 DEF Described
  <2>5. seen(k) \subseteq Cells
    <3> SUFFICES ASSUME NEW i \in 1..m(k) PROVE d[i] \in Cells
      OBVIOUS
    <3>1. i \in 1..n
      BY <1>2, <2>1
    <3> QED
      BY <1>2, <3>1
  <2>6. CASE ~(k < SchemaMaxRows)
    <3>1. m(k) = SchemaMaxRows /\ m(k + 1) = SchemaMaxRows
      BY <1>2, <2>1, <2>6
    <3>2. ProfileCell(h[k], c) = h[k]
      BY <2>4, <3>1 DEF ProfileCell
    <3>3. seen(k + 1) = seen(k)
      BY <3>1
    <3>4. Described(h[k + 1], m(k + 1), seen(k + 1))
      BY <2>2, <2>3, <3>1, <3>2, <3>3, Zenon
    <3> QED
      BY <2>1, <3>4
  <2>7. CASE k < SchemaMaxRows
    <3>1. m(k) = k /\ m(k + 1) = k + 1 /\ m(k) # SchemaMaxRows
      BY <1>2, <2>1, <2>7
    <3>2. \A i : i \in 1..m(k + 1) <=> i \in 1..m(k) \/ i = k + 1
      <4>1. \A i : i \in 1..(k + 1) <=> i \in 1..k \/ i = k + 1
        BY <2>1
      <4> HIDE DEF m
      <4> QED
        BY <3>1, <4>1
    <3>3. CASE KindOf[c] = "empty"
      <4>1. seen(k + 1) = seen(k)
        BY <3>2, <3>3
      <4>2. Described(ProfileCell(h[k], c), m(k) + 1, seen(k))
        <5> HIDE DEF m, seen, c
        <5> QED
          BY <2>1, <2>3, <3>1, <3>3, EmptyDescribed DEF c
      <4>3. Described(h[k + 1], m(k + 1), seen(k + 1))
        BY <2>2, <3>1, <4>1, <4>2
      <4> QED
        BY <2>1, <4>3
    <3>4. CASE KindOf[c] # "empty"
      <4>1. seen(k + 1) = seen(k) \cup {c}
        BY <3>2, <3>4
      <4>2. Described(ProfileCell(h[k], c), m(k) + 1, seen(k) \cup {c})
        <5> HIDE DEF m, seen
        <5>1. c \in Cells
          BY <2>1
        <5> HIDE DEF c
        <5> QED
          BY <2>1, <2>3, <2>5, <3>1, <3>4, <5>1, CellDescribed
      <4>3. Described(h[k + 1], m(k + 1), seen(k + 1))
        BY <2>2, <3>1, <4>1, <4>2
      <4> QED
        BY <2>1, <4>3
    <3> QED
      BY <3>3, <3>4
  <2> QED
    BY <2>6, <2>7
<1>6. Described(h[n], m(n), seen(n))
  <2> HIDE DEF T
  <2>1. 0..n \subseteq T
    BY <1>2, <1>4, <1>5, UpTo
  <2>2. n \in T
    BY <1>2, <2>1
  <2> QED
    BY <2>2 DEF T
<1>7. Len(Covered(r)) = m(n) /\ DOMAIN Covered(r) = 1..m(n) /\ \A i \in 1..m(n) : Covered(r)[i] = d[i]
  <2>1. CASE n <= SchemaMaxRows
    BY <1>1, <1>2, <2>1 DEF Covered, d, n
  <2>2. CASE ~(n <= SchemaMaxRows)
    <3>1. Covered(r) = SubSeq(d, 1, SchemaMaxRows) /\ m(n) = SchemaMaxRows /\ Len(d) = n
      BY <2>2 DEF Covered, d, n
    <3> QED
      BY <1>1, <1>2, <2>2, <3>1
  <2> QED
    BY <2>1, <2>2
<1>8. Seen(r) = seen(n)
  <2>1. ToSet(Covered(r)) = {d[i] : i \in 1..m(n)}
    <3>1. ToSet(Covered(r)) = {Covered(r)[i] : i \in 1..m(n)}
      BY <1>7 DEF ToSet
    <3> HIDE DEF m
    <3> QED
      BY <1>7, <3>1
  <2> HIDE DEF m
  <2>2. Seen(r) = {c \in {d[i] : i \in 1..m(n)} : KindOf[c] # "empty"}
    BY <2>1 DEF Seen
  <2> QED
    BY <2>2
<1> HIDE DEF m, seen
<1> QED
  BY <1>3, <1>6, <1>7, <1>8

\* What the promise says of a profile.
LEMMA ProfilePromise ==
  ASSUME NEW r \in Seq(Cells), NEW p, p = Profile(r), NEW seen, seen = Seen(r)
  PROVE  /\ p.null + p.nonNull = Len(Covered(r))
         /\ TypeOf(p) = IF seen = {} THEN "empty"
                        ELSE IF \A c \in seen : KindOf[c] = "int" THEN "integer"
                        ELSE IF \A c \in seen : Numeric(c) THEN "number"
                        ELSE IF \A c \in seen : KindOf[c] = "bool" THEN "boolean" ELSE "string"
         /\ p.distinct \subseteq seen
         /\ p.capped <=> p.distinct # seen
         /\ ToSet(p.samples) \subseteq seen /\ IsInjective(p.samples)
         /\ ~({"constant", "unique_key"} \subseteq schemaAlerts(p))
<1>1. Described(p, Len(Covered(r)), seen)
  BY ProfileDescribed
<1>2. /\ p \in Profiles /\ p.null + p.nonNull = Len(Covered(r)) /\ (p.nonNull = 0 <=> seen = {})
      /\ p.allInt <=> \A c \in seen : KindOf[c] = "int"
      /\ p.allNum <=> \A c \in seen : Numeric(c)
      /\ p.allBool <=> \A c \in seen : KindOf[c] = "bool"
      /\ p.distinct \subseteq seen /\ (p.capped <=> p.distinct # seen)
      /\ ToSet(p.samples) \subseteq seen /\ IsInjective(p.samples)
  BY <1>1 DEF Described
<1>3. ~({"constant", "unique_key"} \subseteq schemaAlerts(p))
  <2> SUFFICES ASSUME "constant" \in schemaAlerts(p), "unique_key" \in schemaAlerts(p) PROVE FALSE
    OBVIOUS
  <2>1. Cardinality(p.distinct) = 1 /\ Cardinality(p.distinct) = p.nonNull
        /\ p.nonNull >= UniqueKeyMin
    BY DEF schemaAlerts
  <2>2. UniqueKeyMin \in Nat /\ UniqueKeyMin >= 2
    BY ScreeningConstants
  <2> DEFINE x == Cardinality(p.distinct)
  <2>4. x = 1 /\ x = p.nonNull
    BY <2>1
  <2>5. p.nonNull = 1
    BY <2>4
  <2> QED
    BY <2>1, <2>2, <2>5
<1> QED
  BY <1>2, <1>3 DEF TypeOf

\* The reports of the screening are corrected findings, of files of cells.
ScreeningIInv ==
    /\ rows \in Seq(Cells) /\ findings \in Seq(FindingType) /\ screened \in Nat
    /\ screened = Columns + 1 => \E fs \in Seq(FindingType) : findings = applyFDR(fs)

\* A detector's finding, or none.
LEMMA FindingTyped ==
  ASSUME NEW c \in Nat, NEW p \in PValues \cup {-1},
         NEW s \in {"info", "low", "medium", "high"}
  PROVE  Finding(c, p, s) \in Seq(FindingType)
<1> DEFINE f == [column |-> c, p |-> p, severity |-> s]
<1>1. f \in FindingType
  BY DEF FindingType
<1>2. Finding(c, p, s) = <<f>>
  BY DEF Finding
<1> HIDE DEF f
<1> QED
  BY <1>1, <1>2

\* The corrected findings are findings.
LEMMA CorrectionTyped ==
  ASSUME NEW fs \in Seq(FindingType)
  PROVE  applyFDR(fs) \in Seq(FindingType)
<1>1. Corrected(fs, applyFDR(fs))
  BY Correction
<1> QED
  BY <1>1 DEF Corrected

\* What the promise asks of files and findings such as these.
LEMMA ScreeningPromise == ScreeningIInv => ScreeningInv
<1> SUFFICES ASSUME ScreeningIInv PROVE ScreeningInv
  OBVIOUS
<1> DEFINE tests == PTests(findings)
           p == Profile(rows)
           seen == Seen(rows)
           vals == NumericValues(rows)
           columns == Cardinality(ColumnsFound(findings))
<1>1. rows \in Seq(Cells) /\ findings \in Seq(FindingType)
      /\ (screened = Columns + 1 => \E fs \in Seq(FindingType) : findings = applyFDR(fs))
  BY DEF ScreeningIInv
<1>2. ASSUME screened = Columns + 1
      PROVE  StepUp([k \in tests |-> findings[k].p]) = {k \in tests : findings[k].severity # "info"}
  <2>1. PICK fs \in Seq(FindingType) : findings = applyFDR(fs)
    BY <1>1, <1>2
  <2> QED
    BY <2>1, SignificantTests
<1>3. /\ Band(scoreAuthenticity(findings)) = "suspect" => columns >= 3
      /\ scoreAuthenticity(findings) >= 100 - 20 * columns
  BY <1>1, ScoreOfColumns
<1>4. Sentinel(vals) <=> Sentinel([k \in DOMAIN vals |-> -vals[k]])
  <2>1. Sentinel(vals) <=> Sentinel(Mirrored(vals))
    BY <1>1, SentinelBothWays
  <2> HIDE DEF vals
  <2>2. Mirrored(vals) = [k \in DOMAIN vals |-> -vals[k]]
    BY DEF Mirrored
  <2> QED
    BY <2>1, <2>2
<1>5. rows # <<>> => SeverityRank[DuplicateRows(Append(rows, Last(rows)))]
                        >= SeverityRank[DuplicateRows(rows)]
  BY <1>1, DuplicatesGrow
<1>6. /\ p.null + p.nonNull = Len(Covered(rows))
      /\ TypeOf(p) = IF seen = {} THEN "empty"
                     ELSE IF \A c \in seen : KindOf[c] = "int" THEN "integer"
                     ELSE IF \A c \in seen : Numeric(c) THEN "number"
                     ELSE IF \A c \in seen : KindOf[c] = "bool" THEN "boolean" ELSE "string"
      /\ p.distinct \subseteq seen
      /\ p.capped <=> p.distinct # seen
      /\ ToSet(p.samples) \subseteq seen /\ IsInjective(p.samples)
      /\ ~({"constant", "unique_key"} \subseteq schemaAlerts(p))
  <2> HIDE DEF p, seen
  <2>1. p = Profile(rows) /\ seen = Seen(rows)
    BY DEF p, seen
  <2> QED
    BY <1>1, <2>1, ProfilePromise
<1> QED
  BY <1>2, <1>3, <1>4, <1>5, <1>6, Zenon DEF ScreeningInv

\* Screening.ScreeningInv: a screening is a signal and a profile a description, whatever the
\* file and whatever the detectors say of its columns.
THEOREM ScreeningCorrect == ScreeningSpec => []ScreeningInv
<1>0. Columns \in Nat
  BY ScreeningConstants
<1>1. ScreeningInit => ScreeningIInv
  <2> SUFFICES ASSUME ScreeningInit PROVE ScreeningIInv
    OBVIOUS
  <2>1. rows = <<>> /\ findings = <<>> /\ screened = 0
    BY DEF ScreeningInit
  <2>2. <<>> \in Seq(Cells) /\ <<>> \in Seq(FindingType)
    OBVIOUS
  <2>3. screened # Columns + 1
    BY <1>0, <2>1
  <2> QED
    BY <2>1, <2>2, <2>3 DEF ScreeningIInv
<1>2. ScreeningIInv /\ [ScreeningNext]_screenVars => ScreeningIInv'
  <2> SUFFICES ASSUME ScreeningIInv, [ScreeningNext]_screenVars PROVE ScreeningIInv'
    OBVIOUS
  <2>1. rows \in Seq(Cells) /\ findings \in Seq(FindingType) /\ screened \in Nat
        /\ (screened = Columns + 1 => \E fs \in Seq(FindingType) : findings = applyFDR(fs))
    BY DEF ScreeningIInv
  <2>2. ASSUME NEW c \in Cells, ReadRow(c) PROVE ScreeningIInv'
    <3>1. rows' = Append(rows, c) /\ findings' = findings /\ screened' = screened
      BY <2>2 DEF ReadRow
    <3>2. rows' \in Seq(Cells)
      BY <2>1, <3>1
    <3> QED
      BY <2>1, <3>1, <3>2 DEF ScreeningIInv
  <2>3. ASSUME NEW b \in PValues \cup {-1}, NEW t \in PValues \cup {-1}, NEW s \in BOOLEAN,
               ScreenColumn(b, t, s)
        PROVE  ScreeningIInv'
    <3> DEFINE c == screened'
               fb == benfordFinding(c, b)
               ft == terminalDigitFinding(c, t)
               fc == IF s THEN Finding(c, -1, "medium") ELSE <<>>
    <3>1. screened < Columns /\ c = screened + 1 /\ rows' = rows
      BY <2>3 DEF ScreenColumn
    <3>2. c \in Nat /\ c # Columns + 1
      BY <1>0, <2>1, <3>1
    <3>3. findings' = ((findings \o fb) \o ft) \o fc
      BY <2>3 DEF ScreenColumn
    <3> HIDE DEF c
    <3>4. <<>> \in Seq(FindingType)
      OBVIOUS
    <3>5. fb \in Seq(FindingType)
      <4>1. Finding(c, b, "info") \in Seq(FindingType)
        BY <3>2, FindingTyped
      <4> QED
        BY <3>4, <4>1 DEF benfordFinding
    <3>6. ft \in Seq(FindingType)
      <4>1. Finding(c, t, "info") \in Seq(FindingType)
        BY <3>2, FindingTyped
      <4> QED
        BY <3>4, <4>1 DEF terminalDigitFinding
    <3>7. fc \in Seq(FindingType)
      <4> DEFINE none == -1
      <4>1. none \in PValues \cup {-1}
        OBVIOUS
      <4> HIDE DEF none
      <4>2. Finding(c, none, "medium") \in Seq(FindingType)
        BY <3>2, <4>1, FindingTyped
      <4> QED
        BY <3>4, <4>2 DEF none
    <3> HIDE DEF fb, ft, fc
    <3>8. findings' \in Seq(FindingType)
      <4>1. findings \o fb \in Seq(FindingType)
        BY <2>1, <3>5
      <4> DEFINE x == findings \o fb
      <4> HIDE DEF x
      <4>2. x \o ft \in Seq(FindingType)
        BY <3>6, <4>1 DEF x
      <4> DEFINE y == x \o ft
      <4> HIDE DEF y
      <4>3. y \o fc \in Seq(FindingType)
        BY <3>7, <4>2 DEF y
      <4> QED
        BY <3>3, <4>3 DEF x, y
    <3>9. screened' \in Nat /\ screened' # Columns + 1
      BY <3>2 DEF c
    <3> QED
      BY <2>1, <3>1, <3>8, <3>9 DEF ScreeningIInv
  <2>4. ASSUME NEW s \in {"none", "low", "medium", "high"}, ScreenRows(s) PROVE ScreeningIInv'
    <3> DEFINE fc == IF s = "none" THEN <<>> ELSE Finding(0, -1, s)
               fs == findings \o fc
    <3>1. /\ screened = Columns /\ screened' = Columns + 1 /\ rows' = rows
          /\ findings' = applyFDR(fs)
      BY <2>4 DEF ScreenRows
    <3>2. fc \in Seq(FindingType)
      <4>1. CASE s = "none"
        BY <4>1
      <4>2. CASE s # "none"
        <5> DEFINE none == -1
                   zero == 0
        <5>1. none \in PValues \cup {-1} /\ zero \in Nat
              /\ s \in {"info", "low", "medium", "high"}
          BY <4>2
        <5>2. fc = Finding(zero, none, s)
          BY <4>2
        <5> HIDE DEF none, zero, fc
        <5>3. Finding(zero, none, s) \in Seq(FindingType)
          BY <5>1, FindingTyped
        <5> QED
          BY <5>2, <5>3
      <4> QED
        BY <4>1, <4>2
    <3> HIDE DEF fc
    <3>3. fs \in Seq(FindingType)
      BY <2>1, <3>2
    <3> HIDE DEF fs
    <3>4. findings' \in Seq(FindingType)
      BY <3>1, <3>3, CorrectionTyped
    <3>5. \E gs \in Seq(FindingType) : findings' = applyFDR(gs)
      BY <3>1, <3>3
    <3>6. screened' \in Nat
      BY <1>0, <3>1
    <3> QED
      BY <2>1, <3>1, <3>4, <3>5, <3>6 DEF ScreeningIInv
  <2>5. CASE UNCHANGED screenVars
    BY <2>1, <2>5 DEF ScreeningIInv, screenVars
  <2> QED
    BY <2>2, <2>3, <2>4, <2>5 DEF ScreeningNext
<1> QED
  BY <1>1, <1>2, ScreeningPromise, PTL DEF ScreeningSpec
=============================================================================
