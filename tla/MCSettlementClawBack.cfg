\* A transfer that was made but not recorded, then a refund.
CONSTANTS
  NoWorker = NoWorker
  Orders = {o1}
  Threads = {t1}
  Workers = {w1}
  MaxSettleAttempts = 2
SPECIFICATION Spec
CHECK_DEADLOCK FALSE
INVARIANTS
  RefundClawsBack
