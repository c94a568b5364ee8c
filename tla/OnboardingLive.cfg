SPECIFICATION FairSpec
CONSTANTS
  Account = {a1}
  Request = {r1, r2}
  PoolSize = 2
PROPERTIES
  OnboardingsEnd
  KeysReturn
\* calls that hold all connections wait forever
CHECK_DEADLOCK FALSE
