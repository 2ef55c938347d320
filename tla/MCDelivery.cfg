\* Two handlers: overlapping downloads, new tokens, disputes, new versions and two file names, one of
\* which may be uploaded again.
CONSTANTS
  Orders = {o1}
  Handlers = {h1, h2}
  MaxDownloads = 2
  MaxMints = 2
  Names = {n1, n2}
  MaxUploads = 2
SPECIFICATION Spec
CHECK_DEADLOCK FALSE
SYMMETRY Symmetry
INVARIANTS
  DeliveryInv
  PinnedVersionServed
PROPERTIES
  KeepsEscrow
