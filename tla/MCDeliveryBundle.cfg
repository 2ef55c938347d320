\* One order, one handler, two versions: the archive of a settled order.
CONSTANTS
  Orders = {o1}
  Handlers = {h1}
  MaxDownloads = 2
  MaxMints = 2
  Names = {n1, n2}
  MaxUploads = 2
SPECIFICATION Spec
CHECK_DEADLOCK FALSE
INVARIANTS
  BoughtVersionOnly
