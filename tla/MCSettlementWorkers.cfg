\* Two outbox workers and one handler under fairness: the advisory lock, the
\* attempt counter and the end of every recorded job.
CONSTANTS
  NoWorker = NoWorker
  Orders = {o1}
  Threads = {t1}
  Workers = {w1, w2}
  MaxSettleAttempts = 2
SPECIFICATION FairSpec
CHECK_DEADLOCK FALSE
INVARIANTS
  WorkersInv
PROPERTIES
  JobFinishes
