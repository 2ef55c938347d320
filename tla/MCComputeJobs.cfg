\* Three jobs over two credits, one unit of privacy budget and a channel of one; two
\* algorithms, one of them a model, two operators and two offers.
CONSTANTS
  a1 = a1  m1 = m1
  Handlers = {h1, h2}
  Workers = {w1, w2}
  Jobs = {j1, j2, j3}
  NoJob = NoJob
  Keys = {k1}
  NoKey = NoKey
  Quota = 2
  Budget = 1
  Buffer = 1
  MaxAttempts = 2
  Asks <- MCAsks
  NoWorker = NoWorker
  Algos = {a1, m1}
  ModelAlgos = {m1}
  Reviews <- MCReviews
  OfferChoices <- MCOffers
  Operators = {h1, h2}
  NoAlgo = noalgo
SPECIFICATION MCSpec
CHECK_DEADLOCK FALSE
SYMMETRY Symmetry
INVARIANTS
  JobsInv
  RegistryInv
PROPERTIES
  JobsMove
