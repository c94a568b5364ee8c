SPECIFICATION Spec
CONSTANTS
  NumTx = 2
  Account = {a1}
  Faucet = {f1, f2}
  FirstFaucet = f1
  Owner = a1
  CheckTake = 2
  CleanTake = 2
INVARIANTS
  ViewInv
  ConfirmedIsMined
  CanceledNonceSpent
  TasksApart
  CancellationReplaces
  CancelsOnlyOriginals
PROPERTIES
  StatusForward
  LedgerSpec
  RowsSpec
\* every transaction may have been sent and settled
CHECK_DEADLOCK FALSE
