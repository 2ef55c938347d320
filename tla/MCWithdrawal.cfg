\* Two requests racing for the balance while orders settle and operators decide.
CONSTANTS
  Handlers = {h1, h2}
  Requests = {r1, r2, r3}
  Amounts = {1, 2}
  MaxSettled = 3
  NoHandler = NoHandler
SPECIFICATION Spec
CHECK_DEADLOCK FALSE
SYMMETRY Symmetry
INVARIANTS
  WithdrawalInv
PROPERTIES
  PayoutsKept
