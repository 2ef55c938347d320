\* Two handlers and one outbox worker on one order: disputes, refunds and
\* releases racing settlement.
CONSTANTS
  NoWorker = NoWorker
  Orders = {o1}
  Threads = {t1, t2}
  Workers = {w1}
  MaxSettleAttempts = 2
SPECIFICATION Spec
CHECK_DEADLOCK FALSE
SYMMETRY Symmetry
INVARIANTS
  SettlementInv
  MoneyFollowsOrder
PROPERTIES
  ImplementsEscrow
