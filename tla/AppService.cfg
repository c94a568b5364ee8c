SPECIFICATION Spec
CONSTANTS
  Request = {r1, r2, r3, r4}
  NoOne = NoOne
  Name = {n1, n2}
  MaxHandover = 1
SYMMETRY Symmetry
INVARIANTS
  IInv
  NoCircularWait
  NamesOnce
  DeployedOnce
  RefillNoncesDistinct
  NoNonceGap
  RefilledUnlessFailed
  NoRefillFromOldFaucet
PROPERTY CountersSpec
\* a request is served once: the system stops
CHECK_DEADLOCK FALSE
