SPECIFICATION FairSpec
CONSTANTS
  Request = {r1, r2, r3}
  NoOne = NoOne
  Name = {n1}
  MaxHandover = 1
PROPERTY RequestsEnd
CHECK_DEADLOCK FALSE
