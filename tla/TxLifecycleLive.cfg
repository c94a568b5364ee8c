SPECIFICATION FairSpec
CONSTANTS
  NumTx = 2
  Account = {}
  Faucet = {f1, f2}
  FirstFaucet = f1
  Owner = f1
  CheckTake = 1
  CleanTake = 1
PROPERTY Settles
\* every transaction may have been sent and settled
CHECK_DEADLOCK FALSE
