\* Two uploads, two workers, one operator and one fault; one watcher and two
\* reviews of two versions; two submits of an answer and three reports;
\* a public request over two versions; files of three fragments and columns
\* of five cells, with lengths and thresholds scaled down.
CONSTANTS
  u1 = u1  u2 = u2
  n1 = n1  n2 = n2
  w1 = w1  w2 = w2
  Uploads = {u1, u2}
  NoUpload = none
  Names = {n1, n2}
  NameOf <- MCNameOf
  Clean = {u1}
  QWorkers = {w1, w2}
  Operators = {o1}
  QueueCap = 1
  MaxAttempts = 2
  QFaults = 1
  Watchers = {b1}
  LastVersion = 2
  Announcements = {p1, p2}
  Answers = {a1, a2}
  Reporters = {r1, r2}
  Filings = {f1, f2, f3}
  NoReporter = nobody
  Readers = {c1}
  LastEdition = 2
  Fragments <- MCFragments
  MaxFragments = 3
  Weights <- MCWeights
  CardMin = 3
  CardMax = 4
  PhoneLength = 3
  PassportDigits = 2
  PlateTail = 1
  Cells <- MCCells
  KindOf <- MCKindOf
  ValueOf <- MCValueOf
  MaxRows = 5
  Columns = 2
  PValues = {1, 80, 260, 450, 600}
  AuthMinColN = 4
  SentinelDistinct = 2
  SchemaMaxRows = 4
  SchemaDistinctCap = 2
  SchemaSamples = 2
  UniqueKeyMin = 2
SPECIFICATION Spec
CHECK_DEADLOCK FALSE
INVARIANTS
  DatasetInv
  WatchInv
  QuestionsInv
  
  MaskingInv
  ScreeningInv
PROPERTIES
  CheckingEnds
  WatchersTold
