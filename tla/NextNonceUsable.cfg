SPECIFICATION Spec
CONSTANTS
  Request = {r1, r2, r3}
  NoOne = NoOne
  Name = {n1, n2}
  MaxHandover = 1
INVARIANT NextNonceUsable
CHECK_DEADLOCK FALSE
