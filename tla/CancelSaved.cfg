SPECIFICATION Spec
CONSTANTS
  NumTx = 2
  Account = {a1}
  Faucet = {f1, f2}
  FirstFaucet = f1
  Owner = a1
  CheckTake = 20
  CleanTake = 20
INVARIANT CancelSaved
CHECK_DEADLOCK FALSE
