\* Three handlers: racing requests to create the payment, duplicated and cut-off webhooks, refunds.
CONSTANTS
  Handlers = {h1, h2, h3}
  Txns = {x1, x2}
  NoTxn = NoTxn
SPECIFICATION FairSpec
CHECK_DEADLOCK FALSE
INVARIANTS
  IInv
PROPERTIES
  RevokedStays
  ChargeBooked
