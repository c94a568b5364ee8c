SPECIFICATION Spec
CONSTANTS
  Account = {a1, a2}
  Request = {r1, r2}
  PoolSize = 3
SYMMETRY Symmetry
INVARIANTS
  IInv
  KeysAreEarned
  CronOnboardsApart
